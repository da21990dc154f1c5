SPECIFICATION FairSpec
CONSTANTS
  a = a
  b = b
  Subjects = {a, b}
  NoSubject = NoSubject
  Routes <- PageRoutes
  Keys = {"list", "more"}
  RouteKeys <- PageKeys
  Ops = {"save"}
  OpKeys <- SaveKeys
  Refreshed <- SaveKeys
  Forgotten = {"more"}
  Home = "home"
  List = "list"
  FormRoute = "form"
  SaveOp = "save"
  MaxVersion = 2
  MaxMoves = 3
  MaxFails = 1
  MaxFetches = 2
INVARIANT FormInv
INVARIANT UneditedFollowsList
INVARIANT DraftIsOfSelected
PROPERTY EditsSurvivePolls
PROPERTY ImplementsView
PROPERTY PageConverges
PROPERTY FormConverges
CHECK_DEADLOCK FALSE
