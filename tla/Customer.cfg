SPECIFICATION LiveSpec
CONSTANTS
  mine = mine
  other = other
  Mine = mine
  Others <- MCOthers
  Closed <- MCClosed
  MaxAdvance = 2
  BatchSize = 2
  RetryLimit = 1
  MaxSends = 2
  LastDay = 1
INVARIANTS TypeOK FormOffersWhatIsTaken UnmailedIsExplained
PROPERTIES MailIsSettled PageSettles
CHECK_DEADLOCK FALSE
