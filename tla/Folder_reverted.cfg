\* One file, one agent, three syncs: a change is taken back.
CONSTANTS
  Files = {f1}
  Contents = {v1, v2}
  Peers = {p1}
  Manifest = Manifest
  Absent = Absent
  NoHash = NoHash
  Torn = Torn
  MaxSyncs = 3
  MaxEdits = 2
SPECIFICATION Spec
CHECK_DEADLOCK FALSE
INVARIANT UpToDate
