SPECIFICATION Spec
CONSTANTS
  n1 = n1
  tick = tick
  run1 = run1
  run2 = run2
  set1 = set1
  del1 = del1
  res1 = res1
  Nodes = {n1}
  Procs = {run1, res1}
  Op <- OpOf
  Casts = {{run1, res1}}
  MaxRetain = 1
  MaxArchives = 1
  MaxGone = 0
  MaxCrashes = 0
INVARIANT ArchiveIsState
CHECK_DEADLOCK FALSE
