\* One peer with up to two connections; safety and liveness.
CONSTANTS
  Peers = {p1}
  Conns = {c1, c2}
  None = None
SPECIFICATION FairSpec
INVARIANT TypeOK
PROPERTIES
  TimerSparesAnswering
  GoneForgotten
  RunningIsKnown
