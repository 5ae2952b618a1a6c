SPECIFICATION LiveSpec
CONSTANTS
  c1 = c1
  c2 = c2
  Clients <- OneClient
  BatchCount = 1
  MaxBkt = 2
  AckTimeout = 1
  MaxRec = 2
  MaxBuckets = 3
  Ops <- ValidOps
  Faults <- NoFaults
PROPERTIES
  EofMeansEmpty
