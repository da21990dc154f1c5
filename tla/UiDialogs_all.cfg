SPECIFICATION FairSpec
CONSTANTS
  A = A
  B = B
  a = a
  b = b
  Admins = {A, B}
  NoAdmin = NoAdmin
  MfaAdmins = {B}
  MaxTokens = 3
  MaxSteps = 3
  MaxFails = 1
  Subjects = {a, b}
  NoSubject = NoSubject
  Dialogs <- DialogsAndSession
  NoDialog = NoDialog
  MaxOpenings = 2
  MaxConfirms = 2
  MaxMoves = 2
  MaxLost = 1
  Start = a
  Undisturbed = 2
  MaxExpired = 1
INVARIANT DialogInv
INVARIANT LogoutHolds
INVARIANT OneAtATime
INVARIANT AwaitsOwnAnswer
INVARIANT TypedIsTarget
INVARIANT SuccessIsComplete
INVARIANT MarkedIsEnding
PROPERTY ExpiredEnds
PROPERTY BlockedLeaves
PROPERTY BusyEnds
CHECK_DEADLOCK FALSE
