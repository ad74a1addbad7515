\* Every kind of input, each up to its length, where it stops. Addresses of
\* 4 bits, bytes of 1.
CONSTANTS
  AddrBits = 4
  Base = 2
  Magic <- CO1
SPECIFICATION Spec
INVARIANTS
  ReservedNeverDialed AnnouncedIsDialed
  DerivedIsHost EveryHostDerived
  BatchReadsAsWritten RequestWholeOrNot AnyBytesStayInside FragmentHeaderVerifies
CHECK_DEADLOCK FALSE
