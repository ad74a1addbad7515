\* Three nodes, two batches.
CONSTANTS
  n1 = n1
  n2 = n2
  n3 = n3
  Node = {n1, n2, n3}
  MaxBatches = 2
SPECIFICATION Spec
SYMMETRY Symmetry
INVARIANTS TypeOK DeliveredOnce LossIsReported
PROPERTY ImplementsDatagrams
CHECK_DEADLOCK FALSE
