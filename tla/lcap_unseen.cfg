SPECIFICATION LcapSpec
CONSTANTS
  c1 = c1
  c2 = c2
  c3 = c3
  Clients <- TwoClients
  Tools <- NoClient
  Direct <- NoClient
  BatchCount = 1
  MaxBkt = 2
  AckTimeout = 1
  MaxRec = 2
  MaxBuckets = 3
  Ops <- ValidOps
  Faults <- SendFails
INVARIANTS
  PurgedReturned
