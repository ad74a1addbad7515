\* Five packets of four lengths, batches of 16 bytes and 3 packets, under
\* fairness of the arms of select!.
CONSTANTS
  p1 = p1
  p2 = p2
  Peer = {p1, p2}
  PktLen <- Lengths
  MaxBatchBytes = 16
  MaxBatchPkts = 3
  U16Max = 3
  MaxPackets = 5
SPECIFICATION FairSpec
INVARIANTS TypeOK HandedOverInOrder BatchWithinLimits
PROPERTIES EventuallyHandedOver ImplementsForwarding
