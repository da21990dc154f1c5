SPECIFICATION Spec
CONSTANTS
  r1 = r1
  r2 = r2
  r3 = r3
  n1 = n1
  c1 = c1
  ca1 = ca1
  ca2 = ca2
  NoNode = NoNode
  Requests = {r1, r2}
  Ops = {"create", "revoke"}
  CNs = {c1}
  Roots = {ca1}
  Nodes = {n1}
  NodeRoot <- FirstRoot
  worker = worker
  sync = sync
  Executors = {worker, sync}
  HttpSyncs = {sync}
INVARIANT CrlBuilds
CHECK_DEADLOCK FALSE
