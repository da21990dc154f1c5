SPECIFICATION Spec
CONSTANTS
  worker = worker
  sync = sync
  n1 = n1
  n2 = n2
  r1 = r1
  r2 = r2
  q1 = q1
  NoNode = NoNode
  Nodes = {n1}
  Executors = {worker, sync}
  HttpSyncs = {sync}
  Requests = {r1, r2}
  Kind <- CrlAndCaKind
  Retries = {q1}
  MaxTasks = 3
  MaxPerPoll = 1
  MaxCrashes = 0
INVARIANT RestartInv
INVARIANT ActivationRunsOnce
INVARIANT RestartFollowsWrite
