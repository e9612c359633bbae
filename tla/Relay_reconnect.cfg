\* Agents may reconnect, also before the server noticed that the old link died.
CONSTANTS
  Agents = {a1, a2}
  Conns = {c1, c2, c3}
  Channels = {ch1}
  None = None
  MaxMsgs = 2
  MaxDials = 2
SPECIFICATION Spec
SYMMETRY Symmetry
CHECK_DEADLOCK FALSE
INVARIANTS
  TypeOK
  RegistryServes
  LiveRegistered
  PerSenderFIFO
  DeliveredToMembers
  IndexWithinRoster
  RosterReachable
PROPERTY ImplementsMulticast
