SPECIFICATION SpecEither
CONSTANTS
  Duplex = {"tcp"}
  Programs <- AllPrograms
  MaxDeaths = 1
  BufferCount = 2
  MaxPayload = 2
  StreamSize = 2
INVARIANTS
  TypeOK
  PoolWhole
  OwnCompletion
  FailsForCause
PROPERTIES
  RefinesTransport
  Termination
CHECK_DEADLOCK FALSE
