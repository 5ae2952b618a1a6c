SPECIFICATION Spec
CONSTANTS
  c1 = c1
  c2 = c2
  Clients <- TwoClients
  BatchCount = 1
  MaxBkt = 2
  AckTimeout = 1
  MaxRec = 3
  MaxBuckets = 3
  Ops <- ValidOps
  Faults <- NoFaults
SYMMETRY ClientSymmetry
INVARIANTS
  IInv
  PurgedAcked
  BucketsInOrder
  CacheBounded
  LentStable
  Exclusive
  DeliverInv
PROPERTIES
  ProxySpec
