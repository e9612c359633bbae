\* One file beside the manifest, three syncs, two edits.
CONSTANTS
  Files = {f1}
  Contents = {v1, v2}
  Peers = {p1}
  Manifest = Manifest
  Absent = Absent
  NoHash = NoHash
  Torn = Torn
  MaxSyncs = 3
  MaxEdits = 2
SPECIFICATION Spec
SYMMETRY Symmetry
CHECK_DEADLOCK FALSE
INVARIANT TypeOK
INVARIANT ChangedIsDelivered
