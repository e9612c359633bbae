\* A transfer as the agent sends it: file_data with identifiers of their own.
CONSTANTS
  Transfers = {t1}
  FreshIds = {t1}
  Paths = {p1}
  None = None
  Hole = Hole
  MaxChunks = 1
SPECIFICATION Spec
CHECK_DEADLOCK FALSE
INVARIANT CompletesWhenAll
