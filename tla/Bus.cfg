\* Two goroutines that call the manager four times, also from a handler.
CONSTANTS
  Goroutines = {g1, g2}
  Handlers = {h1}
  Types = {t1, t2}
  MaxCalls = 4
  MaxDepth = 2
SPECIFICATION FairSpec
CHECK_DEADLOCK FALSE
INVARIANT
  EventsComplete
PROPERTY CallsReturn
