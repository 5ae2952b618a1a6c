SPECIFICATION LcapdLiveSpec
CONSTANTS
  CmdLines <- JustStart
  Files <- TwoMdts
  Numeral <- MCNumeral
  TooLarge = "huge"
  Leftover <- MCLeftover
  MAX_MDT = 2
  LcapdFaults <- LlapiFails
PROPERTIES
  AllOrNone
CHECK_DEADLOCK FALSE
