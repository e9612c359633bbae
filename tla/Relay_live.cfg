\* Every agent connects once: liveness under fair scheduling.  No symmetry.
CONSTANTS
  Agents = {a1, a2}
  Conns = {c1, c2}
  Channels = {ch1}
  None = None
  MaxMsgs = 2
  MaxDials = 1
SPECIFICATION FairSpec
CHECK_DEADLOCK FALSE
PROPERTIES
  HandlerReturns
  TargetReached
  DeadPeerForgotten
