\* A reconnection in the window between close(ac.done) and the deregistration.
CONSTANTS
  Agents = {a1, a2}
  Conns = {c1, c2, c3}
  Channels = {ch1}
  None = None
  MaxMsgs = 0
  MaxDials = 2
SPECIFICATION FairSpec
CHECK_DEADLOCK FALSE
PROPERTY QueryAnswered
