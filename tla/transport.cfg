SPECIFICATION TransportLiveSpec
CONSTANTS
  c1 = c1
  c2 = c2
  c3 = c3
  m1 = m1
  m2 = m2
  Clients <- TwoClients
  Readers <- TwoReaders
  MaxReq = 2
  MaxFaults = 2
  NetFaults <- AllFaults
INVARIANTS
  HandledAsSent
  AnswersOwn
  FaultCostsOneCall
  LossesPaid
PROPERTIES
  RequestAnswered
CHECK_DEADLOCK FALSE
