SPECIFICATION FairSpec
CONSTANTS
  n1 = n1
  n2 = n2
  s1 = s1
  s2 = s2
  list1 = list1
  view1 = view1
  kill1 = kill1
  Nodes = {n1, n2}
  Sessions = {s1, s2}
  NodeOf <- TwoNodes
  Listers = {list1}
  UserViews = {view1}
  Kills = {kill1}
  Freshness = 0
  MaxTime = 1
  MaxCrashes = 1
  Scenes <- WorkerAndRequests
INVARIANT SessionInv
INVARIANT EndedMeansGone
PROPERTY Converges
