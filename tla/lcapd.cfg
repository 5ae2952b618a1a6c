SPECIFICATION LcapdLiveSpec
CONSTANTS
  CmdLines <- MCCmdLines
  Files <- MCFiles
  Numeral <- MCNumeral
  TooLarge = "huge"
  Leftover <- MCLeftover
  MAX_MDT = 2
  LcapdFaults <- AllFaults
INVARIANTS
  LcapdTypeOK
  ConfigMeans
  ServesWhatIsConfigured
  RegistryCurrent
  LcapdIInv
  
PROPERTIES
  Terminates
  FailureNoticed
CHECK_DEADLOCK FALSE
