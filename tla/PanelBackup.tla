----------------------------- MODULE PanelBackup -----------------------------
(***************************************************************************)
(* Backups of the panel: rows of the table PanelAppBackup and files        *)
(* {id}.zip in the backup directory, with everybody who touches them: the  *)
(* scheduler and the requests that create an archive, change the settings, *)
(* delete an archive or restore the panel from an uploaded one.  Nothing   *)
(* ties the file to its row: every SQL statement and every file operation  *)
(* is a step of its own; only the wipe and the import of a restore share   *)
(* one transaction.                                                        *)
(*                                                                         *)
(* Panel data is abstracted to a table of nodes and a table of sessions    *)
(* with a foreign key to it, and the settings row of the backups.          *)
(***************************************************************************)
EXTENDS Naturals, FiniteSets

CONSTANTS
    Nodes,        \* rows that other rows refer to
    Procs,        \* the scheduler and the requests, each request is made once
    Op,           \* what each of them does
    Casts,        \* the sets of them that are looked at together
    MaxRetain,    \* bound: largest retainCount (500 in the code)
    MaxArchives,  \* bound: archives ever inserted
    MaxGone,      \* bound: clients that go away before the answer
    MaxCrashes    \* bound: crashes of the panel

ASSUME BackupAssumption ==
    /\ Op \in [Procs -> {"scheduler", "create", "settings", "delete",
                         "restore"}]
    /\ \A p, q \in Procs : Op[p] = "scheduler" /\ Op[q] = "scheduler" => p = q
    /\ Casts \subseteq SUBSET Procs
    /\ MaxRetain \in Nat \ {0}
    /\ MaxArchives \in Nat
    /\ MaxGone \in Nat
    /\ MaxCrashes \in Nat

Tables == {"AgentNode", "ClientIpAssignment", "PanelAppBackupSettings"}
\* enabled: intervalMinutes > 0
Data == [node: SUBSET Nodes, session: SUBSET Nodes, retain: 1 .. MaxRetain,
         enabled: BOOLEAN]
Empty == [node |-> {}, session |-> {}, retain |-> MaxRetain,
          enabled |-> FALSE]
ArchiveId == 1 .. MaxArchives

VARIABLES
    data,     \* the panel's tables, without PanelAppBackup
    due,      \* lastScheduledAt + intervalMinutes has passed
    rows,     \* ids in PanelAppBackup; ids are in createdAt order
    files,    \* ids with a file in the backup directory
    zip,      \* what the archive with this id contains
    nextId,   \* the id of the next INSERT
    held,     \* contents of the archives the operator has downloaded
    proc,     \* state of the scheduler and of every request
    cut,      \* history: an operation was cut short
    crashes

vars == <<data, due, rows, files, zip, nextId, held, proc, cut, crashes>>

Pc == {"new", "export", "insert", "write", "retain", "list", "remove",
       "unrow", "mark", "update", "commit", "readdir", "rmzip", "unrows",
       "done", "absent"}

\* gone: the client went away, every later SQL statement fails.
ProcState == [pc: Pc, todo: SUBSET Tables, got: Data, id: Nat, keep: Nat,
              victims: SUBSET ArchiveId, gone: BOOLEAN,
              prev: BOOLEAN]
NewProc == [pc |-> "new", todo |-> {}, got |-> Empty, id |-> 1, keep |-> 1,
            victims |-> {}, gone |-> FALSE, prev |-> FALSE]

\* A request that is never made in this behaviour.
AbsentProc == [NewProc EXCEPT !.pc = "absent"]
Present(p) == proc[p].pc # "absent"

TypeOK ==
    /\ data \in Data
    /\ due \in BOOLEAN
    /\ rows \subseteq ArchiveId
    /\ files \subseteq ArchiveId
    /\ zip \in [ArchiveId -> Data]
    /\ nextId \in 1 .. (MaxArchives + 1)
    /\ held \subseteq Data
    /\ proc \in [Procs -> ProcState]
    /\ cut \in BOOLEAN
    /\ crashes \in 0 .. MaxCrashes

Init ==
    /\ data = Empty
    /\ due = FALSE
    /\ rows = {}
    /\ files = {}
    /\ zip = [i \in ArchiveId |-> Empty]
    /\ nextId = 1
    /\ held = {}
    /\ \E cast \in Casts :
          proc = [p \in Procs |-> IF p \in cast THEN NewProc ELSE AbsentProc]
    /\ cut = FALSE
    /\ crashes = 0

-----------------------------------------------------------------------------
(* The rest of the panel, which goes on working *)

\* An INSERT, or a DELETE of a node that cascades to its sessions.  (Looked at
\* where a restore may follow.)
PanelWrites ==
    /\ \E p \in Procs : Op[p] = "restore" /\ Present(p)
    /\ \E n \in Nodes :
          \/ data' = [data EXCEPT !.node = @ \cup {n}]
          \/ /\ n \in data.node
             /\ data' = [data EXCEPT !.session = @ \cup {n}]
          \/ data' = [data EXCEPT !.node = @ \ {n}, !.session = @ \ {n}]
    /\ UNCHANGED <<due, rows, files, zip, nextId, held, proc,
                   cut, crashes>>

TimePasses ==
    /\ data.enabled
    /\ due' = TRUE
    /\ UNCHANGED <<data, rows, files, zip, nextId, held, proc,
                   cut, crashes>>

\* GET /archives/{id}/download
Download(i) ==
    /\ i \in rows \cap files
    /\ held' = held \cup {zip[i]}
    /\ UNCHANGED <<data, due, rows, files, zip, nextId, proc,
                   cut, crashes>>

-----------------------------------------------------------------------------
(* CreatePanelBackupZip *)

GoTo(p, pc) == proc' = [proc EXCEPT ![p].pc = pc]

\* Where a process ends: the scheduler waits for its next tick.
End(p) == IF Op[p] = "scheduler" THEN "new" ELSE "done"

\* What follows PruneOldBackups: the scheduler notes the time, but only when
\* the archive was made.
AfterPrune(p) == IF Op[p] = "scheduler" THEN "mark" ELSE "done"

\* Mutant: the scheduler goes by the last archive, and there is none yet.
StartCreateAfterFirst(p) ==
    /\ proc[p].pc = "new"
    /\ \/ Op[p] = "create"
       \/ Op[p] = "scheduler" /\ data.enabled /\ due /\ rows # {}
    /\ proc' = [proc EXCEPT ![p] = [NewProc EXCEPT !.pc = "export",
                                                   !.todo = Tables]]
    /\ UNCHANGED <<data, due, rows, files, zip, nextId, held,
                   cut, crashes>>

StartCreate(p) ==
    /\ proc[p].pc = "new"
    /\ \/ Op[p] = "create"
       \/ Op[p] = "scheduler" /\ data.enabled /\ due
    /\ proc' = [proc EXCEPT ![p] = [NewProc EXCEPT !.pc = "export",
                                                   !.todo = Tables]]
    /\ UNCHANGED <<data, due, rows, files, zip, nextId, held,
                   cut, crashes>>

\* Tables are exported by one query each, in the order of a Go map.
Export(p, t) ==
    LET got == proc[p].got IN
    /\ proc[p].pc = "export"
    /\ t \in proc[p].todo
    /\ ~proc[p].gone
    /\ proc' = [proc EXCEPT
         ![p].todo = @ \ {t},
         ![p].got = CASE t = "AgentNode" -> [got EXCEPT !.node = data.node]
                      [] t = "ClientIpAssignment" ->
                            [got EXCEPT !.session = data.session]
                      [] OTHER -> [got EXCEPT !.retain = data.retain,
                                              !.enabled = data.enabled],
         ![p].pc = IF proc[p].todo = {t} THEN "insert" ELSE "export"]
    /\ UNCHANGED <<data, due, rows, files, zip, nextId, held,
                   cut, crashes>>

InsertRow(p) ==
    /\ proc[p].pc = "insert"
    /\ ~proc[p].gone
    /\ nextId <= MaxArchives
    /\ rows' = rows \cup {nextId}
    /\ nextId' = nextId + 1
    /\ proc' = [proc EXCEPT ![p].pc = "write", ![p].id = nextId]
    /\ UNCHANGED <<data, due, files, zip, held, cut, crashes>>

WriteFile(p) ==
    /\ proc[p].pc = "write"
    /\ files' = files \cup {proc[p].id}
    /\ zip' = [zip EXCEPT ![proc[p].id] = proc[p].got]
    /\ GoTo(p, "retain")
    /\ UNCHANGED <<data, due, rows, nextId, held, cut, crashes>>

\* The disk is full: the row that was inserted before stays.
WriteFails(p) ==
    /\ proc[p].pc = "write"
    /\ GoTo(p, End(p))
    /\ cut' = TRUE
    /\ UNCHANGED <<data, due, rows, files, zip, nextId, held, crashes>>

\* A failing statement makes these return an error.
StatementFails(p) ==
    /\ proc[p].gone
    /\ proc[p].pc \in {"export", "insert", "retain", "list", "update",
                       "commit"}
    /\ GoTo(p, End(p))
    /\ UNCHANGED <<data, due, rows, files, zip, nextId, held,
                   cut, crashes>>

-----------------------------------------------------------------------------
(* PruneOldBackups *)

Newest(s, k) == {i \in s : Cardinality({j \in s : j > i}) < k}

clampInt(v, lo, hi) == IF v < lo THEN lo ELSE IF v > hi THEN hi ELSE v

\* retainCount as it is now, between 1 and the limit whatever the row says.
ReadRetain(p) ==
    /\ proc[p].pc = "retain"
    /\ ~proc[p].gone
    /\ proc' = [proc EXCEPT ![p].pc = "list",
                            ![p].keep = clampInt(data.retain, 1, MaxRetain)]
    /\ UNCHANGED <<data, due, rows, files, zip, nextId, held,
                   cut, crashes>>

\* Mutant: one archive too many is kept.
ListArchivesOffByOne(p) ==
    LET victims == rows \ Newest(rows, proc[p].keep + 1) IN
    /\ proc[p].pc = "list"
    /\ ~proc[p].gone
    /\ proc' = [proc EXCEPT ![p].victims = victims,
                            ![p].pc = IF victims = {} THEN AfterPrune(p)
                                      ELSE "remove"]
    /\ UNCHANGED <<data, due, rows, files, zip, nextId, held,
                   cut, crashes>>

\* SELECT id ... ORDER BY createdAt DESC, and the loop over ids[retain:]
ListArchives(p) ==
    LET victims == rows \ Newest(rows, proc[p].keep) IN
    /\ proc[p].pc = "list"
    /\ ~proc[p].gone
    /\ proc' = [proc EXCEPT ![p].victims = victims,
                            ![p].pc = IF victims = {} THEN AfterPrune(p)
                                      ELSE "remove"]
    /\ UNCHANGED <<data, due, rows, files, zip, nextId, held,
                   cut, crashes>>

\* os.Remove, in pruning and in DeleteArchive.
RemoveFile(p) ==
    /\ proc[p].pc = "remove"
    /\ \E i \in Newest(proc[p].victims, 1) :
          /\ files' = files \ {i}
          /\ proc' = [proc EXCEPT ![p].pc = "unrow", ![p].id = i,
                                  ![p].victims = @ \ {i}]
    /\ UNCHANGED <<data, due, rows, zip, nextId, held, cut, crashes>>

\* Mutant: pruning removes the files and leaves the rows.
DeleteRowForgotten(p) ==
    /\ proc[p].pc = "unrow"
    /\ GoTo(p, IF proc[p].victims = {} THEN AfterPrune(p) ELSE "remove")
    /\ UNCHANGED <<data, due, rows, files, zip, nextId, held,
                   cut, crashes>>

\* DELETE ... WHERE id; its error is ignored.
DeleteRow(p) ==
    /\ proc[p].pc = "unrow"
    /\ rows' = IF proc[p].gone THEN rows ELSE rows \ {proc[p].id}
    /\ GoTo(p, IF proc[p].victims = {} THEN AfterPrune(p) ELSE "remove")
    /\ UNCHANGED <<data, due, files, zip, nextId, held, cut, crashes>>

\* The scheduler's UPDATE of lastScheduledAt.
MarkScheduled(p) ==
    /\ proc[p].pc = "mark"
    /\ due' = FALSE
    /\ GoTo(p, "new")
    /\ UNCHANGED <<data, rows, files, zip, nextId, held, cut, crashes>>

-----------------------------------------------------------------------------
(* UpdateSettings, DeleteArchive, RestorePanelFromZipBuffer *)

ReadInterval(p) ==
    /\ proc[p].pc = "new"
    /\ Op[p] = "settings"
    /\ proc' = [proc EXCEPT ![p].pc = "update", ![p].prev = data.enabled]
    /\ UNCHANGED <<data, due, rows, files, zip, nextId, held, cut, crashes>>

\* Mutant: retainCount is stored as it was sent.
UpdateSettingsUnclamped(p, on, k) ==
    /\ proc[p].pc = "update"
    /\ ~proc[p].gone
    /\ data' = [data EXCEPT !.retain = k, !.enabled = on]
    /\ due' = IF on /\ ~proc[p].prev THEN FALSE ELSE due
    /\ GoTo(p, "retain")
    /\ UNCHANGED <<rows, files, zip, nextId, held, cut, crashes>>

\* Turning the schedule on starts its interval now.
UpdateSettings(p, on, k) ==
    /\ proc[p].pc = "update"
    /\ ~proc[p].gone
    /\ data' = [data EXCEPT !.retain = clampInt(k, 1, MaxRetain),
                             !.enabled = on]
    /\ due' = IF on /\ ~proc[p].prev THEN FALSE ELSE due
    /\ GoTo(p, "retain")
    /\ UNCHANGED <<rows, files, zip, nextId, held, cut, crashes>>

\* The archive exists, else 404.
DeleteArchive(p, i) ==
    /\ proc[p].pc = "new"
    /\ Op[p] = "delete"
    /\ i \in rows
    /\ proc' = [proc EXCEPT ![p].pc = "remove", ![p].victims = {i}]
    /\ UNCHANGED <<data, due, rows, files, zip, nextId, held,
                   cut, crashes>>

\* An archive the operator has at hand is uploaded.
StartRestore(p, d) ==
    /\ proc[p].pc = "new"
    /\ Op[p] = "restore"
    /\ proc' = [proc EXCEPT ![p].pc = "commit", ![p].got = d]
    /\ UNCHANGED <<data, due, rows, files, zip, nextId, held,
                   cut, crashes>>

Consistent(d) == d.session \subseteq d.node

\* The transaction: every table is wiped, PanelAppBackup too, and imported,
\* the settings with their lastScheduledAt of back then.
Import(p) ==
    /\ proc[p].pc = "commit"
    /\ ~proc[p].gone
    /\ Consistent(proc[p].got)
    /\ data' = proc[p].got
    /\ due' \in BOOLEAN
    /\ rows' = {}
    /\ GoTo(p, "readdir")
    /\ UNCHANGED <<files, zip, nextId, held, cut, crashes>>

\* A row violates a foreign key: everything is rolled back.
ImportFails(p) ==
    /\ proc[p].pc = "commit"
    /\ ~Consistent(proc[p].got)
    /\ GoTo(p, "done")
    /\ UNCHANGED <<data, due, rows, files, zip, nextId, held,
                   cut, crashes>>

ReadDir(p) ==
    /\ proc[p].pc = "readdir"
    /\ proc' = [proc EXCEPT ![p].pc = "rmzip", ![p].victims = files]
    /\ UNCHANGED <<data, due, rows, files, zip, nextId, held,
                   cut, crashes>>

RemoveZip(p) ==
    /\ proc[p].pc = "rmzip"
    /\ \E i \in proc[p].victims :
          /\ files' = files \ {i}
          /\ proc' = [proc EXCEPT ![p].victims = @ \ {i}]
    /\ UNCHANGED <<data, due, rows, zip, nextId, held, cut, crashes>>

\* DELETE FROM PanelAppBackup, again; its error is ignored.
DeleteAllRows(p) ==
    /\ proc[p].pc = "rmzip"
    /\ proc[p].victims = {}
    /\ rows' = IF proc[p].gone THEN rows ELSE {}
    /\ GoTo(p, "done")
    /\ UNCHANGED <<data, due, files, zip, nextId, held, cut, crashes>>

-----------------------------------------------------------------------------
(* What may happen at any time *)

ClientGone(p) ==
    /\ Op[p] # "scheduler"
    /\ proc[p].pc \notin {"new", "done", "absent"}
    /\ ~proc[p].gone
    /\ Cardinality({q \in Procs : proc[q].gone}) < MaxGone
    /\ proc' = [proc EXCEPT ![p].gone = TRUE]
    /\ cut' = TRUE
    /\ UNCHANGED <<data, due, rows, files, zip, nextId, held, crashes>>

\* Nothing of an operation survives a crash.  (Looked at with the scheduler,
\* which starts again; every other property is about operations that ended.)
Crash ==
    /\ crashes < MaxCrashes
    /\ \E p \in Procs : Op[p] = "scheduler" /\ Present(p)
    /\ crashes' = crashes + 1
    /\ proc' = [p \in Procs |->
                  IF proc[p].pc \in {"new", "absent"} THEN proc[p]
                  ELSE [NewProc EXCEPT !.pc = End(p)]]
    /\ cut' = TRUE
    /\ UNCHANGED <<data, due, rows, files, zip, nextId, held>>

\* The steps of one process inside its operation.
Step(p) ==
    \/ \E t \in Tables : Export(p, t)
    \/ InsertRow(p) \/ WriteFile(p) \/ WriteFails(p)
    \/ StatementFails(p)
    \/ ReadRetain(p) \/ ListArchives(p) \/ RemoveFile(p) \/ DeleteRow(p)
    \/ MarkScheduled(p)
    \/ \E on \in BOOLEAN, k \in 0 .. MaxRetain + 1 :
          UpdateSettings(p, on, k)
    \/ Import(p) \/ ImportFails(p)
    \/ ReadDir(p) \/ RemoveZip(p) \/ DeleteAllRows(p)

Next ==
    \/ PanelWrites
    \/ TimePasses
    \/ \E i \in ArchiveId : Download(i)
    \/ \E p \in Procs :
          \/ StartCreate(p)
          \/ ReadInterval(p)
          \/ \E i \in ArchiveId : DeleteArchive(p, i)
          \/ \E d \in held : StartRestore(p, d)
          \/ Step(p)
          \/ ClientGone(p)
    \/ Crash

Spec == Init /\ [][Next]_vars

\* The scheduler keeps running and its ticker keeps ticking; a disk that is
\* written to again and again is not always full.
Fairness ==
    \A p \in {q \in Procs : Op[q] = "scheduler"} :
        /\ WF_vars(Step(p))
        /\ SF_vars(WriteFile(p))
        /\ WF_vars(StartCreate(p))

FairSpec == Spec /\ Fairness

-----------------------------------------------------------------------------
(* Properties *)

\* No operation is under way and none was ever cut short by a crash, a full
\* disk or a client that went away.
Quiet == ~cut /\ \A p \in Procs : proc[p].pc \in {"new", "done", "absent"}

\* However creations, settings changes, deletions and restores interleave, the
\* list of archives is no longer than retainCount once they are over: who
\* inserts a row or lowers the count prunes after that.
RowsWithinRetain == Quiet => Cardinality(rows) <= data.retain

\* Every archive of the list can be downloaded once the operations are over,
\* although files and rows are created and removed separately.
ListedIsDownloadable == Quiet => rows \subseteq files

\* A scheduled backup that is due is made, an error in one attempt is followed
\* by another attempt.
DueIsServed ==
    due /\ data.enabled /\ (\E p \in Procs : Op[p] = "scheduler" /\ Present(p))
      ~> ~due \/ ~data.enabled \/ nextId > MaxArchives

\* The schema says of retainCount that this many archives are kept on disk:
\* there are no files beyond it, while the scheduler is the only creator,
\* nobody deletes the archive it is about to write and no restore brings back
\* other settings.
SchedulerAlone ==
    \A p \in Procs : Op[p] \in {"create", "delete", "restore"} => ~Present(p)
DiskWithinRetain == Quiet /\ SchedulerAlone => Cardinality(files) <= data.retain

\* The documentation calls an archive one of the panel's state, for a later
\* restore: its rows refer to rows it holds.
ArchiveIsState == \A i \in files : Consistent(zip[i])

\* The inductive invariant of these three.  Ids are those of rows inserted so
\* far, and a process is at a step of its own operation.
Doomed(p) == proc[p].victims \cup IF proc[p].pc = "unrow" THEN {proc[p].id} ELSE {}
IdsInserted ==
    /\ \A i \in rows \cup files : i < nextId
    /\ \A p \in Procs :
          /\ \A i \in Doomed(p) : i < nextId
          /\ proc[p].pc = "write" => proc[p].id \in 1 .. (nextId - 1)
OwnSteps ==
    \A p \in Procs :
        /\ proc[p].pc \in {"export", "insert", "write"} => Op[p] \in {"scheduler", "create"}
        /\ proc[p].pc \in {"commit", "readdir", "rmzip"} => Op[p] = "restore"
        /\ proc[p].pc = "remove" => proc[p].victims # {}
        /\ proc[p].pc = "list" => proc[p].keep >= 1

\* A row without a file is waiting for it, or somebody is to delete it.
RowsCovered ==
    \A i \in rows :
        \/ i \in files
        \/ \E p \in Procs : \/ proc[p].pc \in {"write", "unrow"} /\ proc[p].id = i
                           \/ proc[p].pc \in {"readdir", "rmzip"}

\* While there are too many rows somebody has yet to prune, or is pruning with
\* a list that leaves few enough.
Prunes(p) ==
    \/ proc[p].pc \in {"write", "retain"}
    \/ proc[p].pc = "list" /\ proc[p].keep <= data.retain
    \/ proc[p].pc \in {"remove", "unrow"} /\ Cardinality(rows \ Doomed(p)) <= data.retain

\* With the scheduler alone a file has its row, also the one that is to be
\* written: that is the newest, which nobody prunes.
FilesHaveRows ==
    /\ files \subseteq rows
    /\ \A p \in Procs :
          /\ proc[p].pc = "unrow" => proc[p].id \notin files
          /\ proc[p].pc = "write" =>
                /\ proc[p].id \in rows /\ proc[p].id + 1 = nextId
                /\ \A q \in Procs : proc[p].id \notin Doomed(q)

BackupInv ==
    /\ TypeOK
    /\ IdsInserted
    /\ OwnSteps
    /\ ~cut => /\ \A p \in Procs : ~proc[p].gone
               /\ RowsCovered
               /\ Cardinality(rows) <= data.retain \/ \E p \in Procs : Prunes(p)
               /\ SchedulerAlone => FilesHaveRows
=============================================================================
