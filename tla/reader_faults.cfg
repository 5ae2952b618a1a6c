SPECIFICATION Spec
CONSTANTS
  c1 = c1
  c2 = c2
  Clients <- OneClient
  BatchCount = 2
  MaxBkt = 2
  AckTimeout = 1
  MaxRec = 3
  MaxBuckets = 3
  Ops <- AllOps
  Faults <- Everything
INVARIANTS
  TypeOK
  IInv
  NoRecordForgotten
PROPERTIES
  ProxySpec
