\* Two connections, up to seven attempts in a row.
CONSTANTS
  MaxConns = 2
  MaxRetries = 7
SPECIFICATION HealingSpec
CHECK_DEADLOCK FALSE
INVARIANT TypeOK
INVARIANT SingleSession
INVARIANT ReaderOnOwnConn
INVARIANT BackoffFollowsSchedule
PROPERTY StopQuits
PROPERTY Reconnects
