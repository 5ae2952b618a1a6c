SPECIFICATION LcapSpec
CONSTANTS
  c1 = c1
  c2 = c2
  c3 = c3
  Clients <- TwoClients
  Tools <- TwoClients
  Direct <- NoClient
  BatchCount = 2
  MaxBkt = 1
  AckTimeout = 1
  MaxRec = 3
  MaxBuckets = 3
  Ops <- ValidOps
  Faults <- Everything
SYMMETRY ClientSymmetry
INVARIANTS
  LcapTypeOK
  PurgedReturned
  BatchIsLent
  AckedAsked
  LInv
