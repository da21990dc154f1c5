SPECIFICATION Spec
CONSTANTS
  worker = worker
  sync = sync
  n1 = n1
  n2 = n2
  r1 = r1
  r2 = r2
  q1 = q1
  NoNode = NoNode
  Nodes = {n1}
  Executors = {worker}
  HttpSyncs = {}
  Requests = {r1}
  Kind <- CrlKind
  Retries = {}
  MaxTasks = 2
  MaxPerPoll = 2
  MaxCrashes = 1
INVARIANT ProcessingMeansRunning
