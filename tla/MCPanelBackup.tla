---------------------------- MODULE MCPanelBackup ----------------------------
(* Small instances of PanelBackup. *)
EXTENDS PanelBackup

CONSTANTS n1, tick, run1, run2, set1, del1, res1

\* tick is the scheduler, the others are requests.
OpOf == [p \in Procs |->
           CASE p = tick -> "scheduler"
             [] p = set1 -> "settings"
             [] p = del1 -> "delete"
             [] p = res1 -> "restore"
             [] OTHER -> "create"]

\* Requests among themselves, a restore among creations, and the scheduler.
AllCasts == {{run1, run2, set1}, {run1, run2, del1}, {run1, run2, res1}, {tick, set1}}
=============================================================================
