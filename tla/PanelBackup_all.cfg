SPECIFICATION FairSpec
CONSTANTS
  n1 = n1
  tick = tick
  run1 = run1
  run2 = run2
  set1 = set1
  del1 = del1
  res1 = res1
  Nodes = {n1}
  Procs = {tick, run1, run2, set1, del1, res1}
  Op <- OpOf
  Casts <- AllCasts
  MaxRetain = 2
  MaxArchives = 2
  MaxGone = 1
  MaxCrashes = 1
INVARIANT BackupInv
INVARIANT RowsWithinRetain
INVARIANT ListedIsDownloadable
INVARIANT DiskWithinRetain
PROPERTY DueIsServed
CHECK_DEADLOCK FALSE
