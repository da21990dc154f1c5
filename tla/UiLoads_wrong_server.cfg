SPECIFICATION Spec
CONSTANTS
  a = a
  b = b
  Subjects = {a, b}
  NoSubject = NoSubject
  Loads <- FirewallLoad
  MaxVersion = 2
  MaxMoves = 3
  MaxGets = 3
  MaxFails = 1
INVARIANT WritesOwnData
CHECK_DEADLOCK FALSE
