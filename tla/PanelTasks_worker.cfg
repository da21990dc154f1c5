SPECIFICATION FairSpec
CONSTANTS
  worker = worker
  sync = sync
  n1 = n1
  n2 = n2
  r1 = r1
  r2 = r2
  q1 = q1
  NoNode = NoNode
  Nodes = {n1}
  Executors = {worker}
  HttpSyncs = {}
  Requests = {r1, r2}
  Kind <- CrlAndCaKind
  Retries = {q1}
  MaxTasks = 4
  MaxPerPoll = 2
  MaxCrashes = 1
INVARIANT DeployInv
INVARIANT CompletedMeansDeployed
PROPERTY EveryTaskEnds
