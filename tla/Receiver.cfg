\* Two transfers, also to one file, whose file_data carry the identifier of
\* their file_meta.
CONSTANTS
  Transfers = {t1, t2}
  FreshIds = {}
  Paths = {p1, p2}
  None = None
  Hole = Hole
  MaxChunks = 3
SPECIFICATION Spec
CHECK_DEADLOCK FALSE
INVARIANTS
  TypeOK
  ContentIsSent
  CompletesWhenAll
