SPECIFICATION SpecBoth
CONSTANTS
  N = 3
  Topology = "ring"
  LostInserts = FALSE
  MaxDeaths = 1
INVARIANTS
  IInv
  OneTransportPerPeer
  NoFalseAlarm
  TablesRight
  FailsForCause
  PortsKnown
PROPERTIES
  RefinesExchange
  Termination
  AcceptedReturn
CHECK_DEADLOCK FALSE
