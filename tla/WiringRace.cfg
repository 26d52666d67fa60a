SPECIFICATION Spec
CONSTANTS
  N = 3
  Topology = "ring"
  LostInserts = TRUE
INVARIANT OneTransportPerPeer
CHECK_DEADLOCK FALSE
