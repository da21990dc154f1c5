SPECIFICATION FairSpec
CONSTANTS
  a = a
  b = b
  Subjects = {a, b}
  NoSubject = NoSubject
  Loads <- AllLoads
  MaxVersion = 2
  MaxMoves = 3
  MaxGets = 3
  MaxFails = 1
INVARIANT LoadInv
INVARIANT AnswerIsOfSelected
INVARIANT RootCaIsOfSelected
PROPERTY LoadingEnds
PROPERTY PolledConverges
CHECK_DEADLOCK FALSE
