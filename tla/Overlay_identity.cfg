\* Two nodes, two batches, no direct peers needed.
CONSTANTS
  n1 = n1
  n2 = n2
  n3 = n3
  Node = {n1, n2}
  MaxBatches = 2
SPECIFICATION Spec
SYMMETRY Symmetry
INVARIANT NoneTakenForAnother
CHECK_DEADLOCK FALSE
