\* Up to four packets of six kinds, each holding a whole datagram.
CONSTANTS
  Datagram <- Datagrams
  Size <- Sizes
  Input <- WholeInput
  Mtu = 44
  MaxPackets = 4
SPECIFICATION Spec
INVARIANTS TypeOK ReassembledAsSent NothingMissing FragmentsFit
CHECK_DEADLOCK FALSE
