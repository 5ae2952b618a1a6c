SPECIFICATION LcapLiveSpec
CONSTANTS
  c1 = c1
  c2 = c2
  c3 = c3
  Clients <- TwoClients
  Tools <- TwoClients
  Direct <- NoClient
  BatchCount = 1
  MaxBkt = 1
  AckTimeout = 1
  MaxRec = 2
  MaxBuckets = 3
  Ops <- ValidOps
  Faults <- Survivable
PROPERTIES
  CallsReturn
  RecordsRead
