SPECIFICATION SpecEither
CONSTANTS
  Duplex = {"rdma"}
  Programs <- SendBesideRecv
  MaxDeaths = 0
  BufferCount = 2
  MaxPayload = 2
  StreamSize = 2
PROPERTY RefinesTransport
CHECK_DEADLOCK FALSE
