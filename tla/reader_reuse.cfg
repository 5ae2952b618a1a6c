SPECIFICATION Spec
CONSTANTS
  c1 = c1
  c2 = c2
  Clients <- TwoClients
  BatchCount = 1
  MaxBkt = 2
  AckTimeout = 1
  MaxRec = 2
  MaxBuckets = 4
  Ops <- ValidOps
  Faults <- OnlyReuse
SYMMETRY ClientSymmetry
INVARIANTS
  PurgedAcked
