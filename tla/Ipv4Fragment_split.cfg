\* The two fragments of one datagram, in any order.
CONSTANTS
  Datagram <- Datagrams
  Size <- Sizes
  Input <- SplitInput
  Mtu = 44
  MaxPackets = 2
SPECIFICATION Spec
INVARIANT ReassembledAsSent
CHECK_DEADLOCK FALSE
