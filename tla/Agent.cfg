\* Two peers, two connections, two channels; the agent may end or crash.
CONSTANTS
  Self = Self
  Peers = {p1, p2}
  Links = {l1, l2}
  Channels = {ch1, ch2}
  None = None
  Forwarded = Forwarded
SPECIFICATION Spec
SYMMETRY Symmetry
CHECK_DEADLOCK FALSE
INVARIANTS
  TypeOK
  LinksAccounted
  SurvivesOnLAN
  ToMembersOnly
  HostIsMember
