SPECIFICATION LcapSpec
CONSTANTS
  c1 = c1
  c2 = c2
  c3 = c3
  Clients <- ThreeClients
  Tools <- FirstAndThird
  Direct <- TheThird
  BatchCount = 2
  MaxBkt = 1
  AckTimeout = 1
  MaxRec = 3
  MaxBuckets = 3
  Ops <- ValidOps
  Faults <- NoFaults
INVARIANTS
  PurgedReturned
  BatchIsLent
