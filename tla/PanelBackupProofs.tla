-------------------------- MODULE PanelBackupProofs --------------------------
(***************************************************************************)
(* Theorems about PanelBackup, for any casts of requests, any number of    *)
(* archives, any retainCount and any number of crashes and lost clients.   *)
(***************************************************************************)
EXTENDS PanelBackup, FiniteSetTheorems, WellFoundedInduction, TLAPS

-----------------------------------------------------------------------------
(* Archives that are kept *)

LEMMA ArchiveIds == ArchiveId \subseteq Nat /\ IsFiniteSet(ArchiveId)
  <1>1. MaxArchives \in Nat
    BY BackupAssumption
  <1>2. QED
    BY <1>1, FS_Interval DEF ArchiveId

\* A set of archives has an oldest one.
LEMMA OldestExists ==
  ASSUME NEW s \in SUBSET Nat, s # {}
  PROVE  \E m \in s : \A i \in s : m <= i
  <1> DEFINE R == {ss \in Nat \X Nat : ss[1] < ss[2]}
  <1>1. IsWellFoundedOn(R, Nat)
    BY NatLessThanWellFounded, Zenon DEF OpToRel
  <1>2. PICK m \in s : \A i \in s : ~(<<i, m>> \in R)
    <2> HIDE DEF R
    <2>1. QED
      BY <1>1, WFMin
  <1>3. \A i \in s : ~(i < m)
    BY <1>2
  <1>4. QED
    BY <1>3

\* The k newest of a set of archives are at most k.
LEMMA NewestBound ==
  ASSUME NEW s \in SUBSET ArchiveId, NEW k \in Nat
  PROVE  /\ IsFiniteSet(s) /\ Cardinality(s) \in Nat
         /\ Newest(s, k) \subseteq s
         /\ Cardinality(Newest(s, k)) <= k
  <1>1. IsFiniteSet(ArchiveId) /\ s \subseteq Nat
    BY ArchiveIds
  <1>2. IsFiniteSet(s) /\ Cardinality(s) \in Nat
    BY <1>1, FS_Subset, FS_CardinalityType
  <1>3. Newest(s, k) \subseteq s
    BY DEF Newest
  <1>4. CASE Newest(s, k) = {}
    BY <1>2, <1>3, <1>4, FS_EmptySet
  <1>5. CASE Newest(s, k) # {}
    <2>1. Newest(s, k) \subseteq Nat
      BY <1>1, <1>3
    <2>2. PICK m \in Newest(s, k) : \A i \in Newest(s, k) : m <= i
      BY <1>5, <2>1, OldestExists
    <2>3. \A i \in Newest(s, k) : i = m \/ i > m
      BY <2>1, <2>2
    <2> DEFINE later == {j \in s : j > m}
    <2>4. IsFiniteSet(later) /\ Cardinality(later) \in Nat /\ Cardinality(later) < k
      <3>1. IsFiniteSet(later)
        BY <1>2, FS_Subset
      <3>2. Cardinality(later) < k
        BY <2>2 DEF Newest
      <3>3. QED
        BY <3>1, <3>2, FS_CardinalityType
    <2>5. Newest(s, k) \subseteq later \cup {m}
      BY <1>3, <2>3
    <2> HIDE DEF later
    <2>6. IsFiniteSet(later \cup {m}) /\ Cardinality(later \cup {m}) <= Cardinality(later) + 1
      <3>1. /\ IsFiniteSet(later \cup {m})
            /\ Cardinality(later \cup {m}) = Cardinality(later)
               \/ Cardinality(later \cup {m}) = Cardinality(later) + 1
        BY <2>4, FS_AddElement, Zenon
      <3>2. QED
        BY <2>4, <3>1
    <2>7. Cardinality(Newest(s, k)) <= Cardinality(later \cup {m})
      BY <2>5, <2>6, FS_Subset
    <2>8. Cardinality(Newest(s, k)) \in Nat /\ Cardinality(later \cup {m}) \in Nat
      BY <2>5, <2>6, FS_Subset, FS_CardinalityType
    <2>9. QED
      BY <1>2, <1>3, <2>4, <2>6, <2>7, <2>8
  <1>6. QED
    BY <1>4, <1>5

\* The newest archive is among them.
LEMMA NewestKeepsLast ==
  ASSUME NEW s \in SUBSET ArchiveId, NEW k \in Nat, k >= 1, NEW i \in s, \A j \in s : j <= i
  PROVE  i \in Newest(s, k)
  <1>1. {j \in s : j > i} = {}
    <2>1. s \subseteq Nat
      BY ArchiveIds
    <2>2. \A j \in s : ~(j > i)
      <3> TAKE j \in s
      <3>1. j \in Nat /\ i \in Nat /\ j <= i
        BY <2>1
      <3>2. QED
        BY <3>1
    <2>3. QED
      BY <2>2
  <1>2. Cardinality({j \in s : j > i}) = 0
    BY <1>1, FS_EmptySet
  <1>3. QED
    BY <1>2 DEF Newest

\* Fewer archives are not more.
LEMMA FewerRows ==
  ASSUME NEW s \in SUBSET ArchiveId, NEW t \in SUBSET s
  PROVE  Cardinality(t) \in Nat /\ Cardinality(s) \in Nat /\ Cardinality(t) <= Cardinality(s)
  <1>2. QED
    BY ArchiveIds, FS_Subset, FS_CardinalityType

-----------------------------------------------------------------------------
(* Types *)

\* The processes other than p stay as they are.
Off(p) == \A q \in Procs : q # p => proc'[q] = proc[q]

LEMMA GoToFacts ==
  ASSUME TypeOK, NEW p \in Procs, NEW pc \in Pc, GoTo(p, pc)
  PROVE  /\ proc' \in [Procs -> ProcState] /\ Off(p)
         /\ proc'[p].pc = pc /\ proc'[p].id = proc[p].id /\ proc'[p].keep = proc[p].keep
         /\ proc'[p].victims = proc[p].victims /\ proc'[p].gone = proc[p].gone
  <1>1. proc \in [Procs -> ProcState]
    BY DEF TypeOK
  <1>2. [proc[p] EXCEPT !.pc = pc] \in ProcState
    BY <1>1 DEF ProcState
  <1>3. proc' = [proc EXCEPT ![p] = [proc[p] EXCEPT !.pc = pc]]
    BY DEF GoTo
  <1>4. proc'[p] = [proc[p] EXCEPT !.pc = pc]
    BY <1>1, <1>3
  <1>5. QED
    BY <1>1, <1>2, <1>3, <1>4 DEF Off, ProcState

LEMMA EmptyIsData == Empty \in Data
  BY BackupAssumption DEF Empty, Data

LEMMA NewProcType == NewProc \in ProcState
  BY EmptyIsData DEF NewProc, ProcState, Pc

LEMMA PcFacts ==
  ASSUME NEW p \in Procs
  PROVE  End(p) \in {"new", "done"} /\ AfterPrune(p) \in {"mark", "done"}
  BY DEF End, AfterPrune


-----------------------------------------------------------------------------
(* Steps *)

\* The parts of the invariant that do not ask whether something was cut short:
\* it is enough to look at the process that moves.
LEMMA OrderKept ==
  ASSUME BackupInv, TypeOK', NEW p \in Procs, Off(p), nextId' >= nextId,
         \A i \in rows' \cup files' : i < nextId',
         \A i \in Doomed(p)' : i < nextId',
         proc'[p].pc = "write" => proc'[p].id \in 1 .. (nextId' - 1),
         proc'[p].pc \in {"export", "insert", "write"} => Op[p] \in {"scheduler", "create"},
         proc'[p].pc \in {"commit", "readdir", "rmzip"} => Op[p] = "restore",
         proc'[p].pc = "remove" => proc'[p].victims # {},
         proc'[p].pc = "list" => proc'[p].keep >= 1
  PROVE  IdsInserted' /\ OwnSteps'
  <1>1. /\ nextId \in Nat /\ nextId' \in Nat /\ IdsInserted /\ OwnSteps
        /\ proc \in [Procs -> ProcState]
    BY BackupAssumption DEF BackupInv, TypeOK
  <1>2. ASSUME NEW q \in Procs, q # p
        PROVE  /\ \A i \in Doomed(q)' : i < nextId'
               /\ proc'[q].pc = "write" => proc'[q].id \in 1 .. (nextId' - 1)
    <2>1. proc'[q] = proc[q] /\ Doomed(q)' = Doomed(q)
      BY <1>2 DEF Off, Doomed
    <2>2. Doomed(q) \subseteq Nat
      BY <1>1, ArchiveIds DEF Doomed, ProcState
    <2>3. \A i \in Doomed(q) : i < nextId
      BY <1>1 DEF IdsInserted
    <2>4. proc[q].pc = "write" => proc[q].id \in 1 .. (nextId - 1)
      BY <1>1 DEF IdsInserted
    <2>5. QED
      BY <1>1, <2>1, <2>2, <2>3, <2>4
  <1>3. IdsInserted'
    BY <1>2 DEF IdsInserted
  <1>4. OwnSteps'
    BY <1>1 DEF OwnSteps, Off
  <1>5. QED
    BY <1>3, <1>4

LEMMA AloneKept ==
  ASSUME NEW p \in Procs, Off(p), proc'[p].pc # "absent", SchedulerAlone'
  PROVE  SchedulerAlone
  BY DEF Off, SchedulerAlone, Present

\* A step in which p changes neither rows nor files.
LEMMA LocalStep ==
  ASSUME BackupInv, TypeOK', NEW p \in Procs, Off(p), UNCHANGED <<rows, files, nextId, cut>>,
         data'.retain = data.retain,
         proc[p].pc \notin {"absent", "write", "remove", "unrow", "rmzip"},
         proc'[p].pc \notin {"absent", "write", "unrow"},
         proc[p].pc = "readdir" => proc'[p].pc = "rmzip",
         proc'[p].gone => proc[p].gone,
         proc'[p].pc \in {"export", "insert"} => Op[p] \in {"scheduler", "create"},
         proc'[p].pc \in {"commit", "readdir", "rmzip"} => Op[p] = "restore",
         proc'[p].pc = "remove" => proc'[p].victims # {},
         proc'[p].pc = "list" => proc'[p].keep >= 1,
         \A i \in proc'[p].victims : i < nextId,
         ~cut /\ Prunes(p) => Cardinality(rows) <= data.retain \/ Prunes(p)',
         ~cut /\ SchedulerAlone =>
            \A q \in Procs : proc[q].pc = "write" => proc[q].id \notin proc'[p].victims
  PROVE  BackupInv'
  <1>1. /\ TypeOK /\ IdsInserted /\ OwnSteps
        /\ nextId \in Nat
    BY BackupAssumption DEF BackupInv, TypeOK
  <1>2. Doomed(p)' = proc'[p].victims
    BY DEF Doomed
  <1>3. IdsInserted' /\ OwnSteps'
    BY <1>1, <1>2, OrderKept DEF IdsInserted
  <1>4. ASSUME ~cut
        PROVE  /\ \A q \in Procs : ~proc'[q].gone
               /\ RowsCovered'
               /\ Cardinality(rows') <= data'.retain \/ \E q \in Procs : Prunes(q)'
               /\ SchedulerAlone' => FilesHaveRows'
    <2>1. /\ \A q \in Procs : ~proc[q].gone
          /\ RowsCovered
          /\ Cardinality(rows) <= data.retain \/ \E q \in Procs : Prunes(q)
          /\ SchedulerAlone => FilesHaveRows
      BY <1>4 DEF BackupInv
    <2>2. \A q \in Procs : ~proc'[q].gone
      BY <2>1 DEF Off
    <2>3. RowsCovered'
      BY <2>1 DEF RowsCovered, Off
    <2>4. Cardinality(rows') <= data'.retain \/ \E q \in Procs : Prunes(q)'
      <3>1. \A q \in Procs : q # p /\ Prunes(q) => Prunes(q)'
        BY DEF Prunes, Off, Doomed
      <3>2. QED
        BY <1>4, <2>1, <3>1
    <2>5. ASSUME SchedulerAlone' PROVE FilesHaveRows'
      <3>1. SchedulerAlone
        BY <2>5, AloneKept
      <3>2. \A q \in Procs : q # p => Doomed(q)' = Doomed(q)
        BY DEF Off, Doomed
      <3>3. QED
        BY <1>2, <1>4, <2>1, <3>1, <3>2 DEF FilesHaveRows, Off
    <2>6. QED
      BY <2>2, <2>3, <2>4, <2>5
  <1>5. QED
    BY <1>3, <1>4 DEF BackupInv

\* A step in which something is cut short.
LEMMA CutStep ==
  ASSUME BackupInv, TypeOK', IdsInserted', OwnSteps', cut'
  PROVE  BackupInv'
  BY DEF BackupInv

\* The state of a process is replaced.
LEMMA ProcSet ==
  ASSUME TypeOK, NEW p \in Procs, NEW s \in ProcState, proc' = [proc EXCEPT ![p] = s]
  PROVE  proc' \in [Procs -> ProcState] /\ Off(p) /\ proc'[p] = s
  BY DEF TypeOK, Off

\* The steps by which an operation begins.
LEMMA BeginInv ==
  ASSUME BackupInv, NEW p \in Procs,
         \/ StartCreate(p) \/ ReadInterval(p)
         \/ \E i \in ArchiveId : DeleteArchive(p, i)
         \/ \E d \in held : StartRestore(p, d)
  PROVE  BackupInv'
  <1>1. TypeOK /\ IdsInserted /\ proc[p] \in ProcState /\ proc[p].pc = "new"
    BY DEF BackupInv, TypeOK, StartCreate, ReadInterval, DeleteArchive, StartRestore
  <1>2. ~Prunes(p)
    BY <1>1 DEF Prunes
  <1>3. UNCHANGED <<data, due, rows, files, zip, nextId, held, cut, crashes>>
    BY DEF StartCreate, ReadInterval, DeleteArchive, StartRestore
  <1>4. proc' \in [Procs -> ProcState] => TypeOK'
    BY <1>1, <1>3 DEF TypeOK
  <1>5. \A i \in proc[p].victims : i < nextId
    BY <1>1 DEF IdsInserted, Doomed
  <1>6. ~cut /\ SchedulerAlone =>
           \A q \in Procs : proc[q].pc = "write" => proc[q].id \notin proc[p].victims
    BY DEF BackupInv, FilesHaveRows, Doomed
  <1>7. CASE StartCreate(p)
    <2> DEFINE s == [NewProc EXCEPT !.pc = "export", !.todo = Tables]
    <2>1. s \in ProcState /\ s.pc = "export" /\ s.victims = {} /\ s.gone = FALSE
      BY NewProcType DEF NewProc, ProcState, Pc
    <2>2. proc' = [proc EXCEPT ![p] = s] /\ Op[p] \in {"scheduler", "create"}
      BY <1>7 DEF StartCreate
    <2> HIDE DEF s
    <2>3. TypeOK' /\ Off(p) /\ proc'[p] = s
      BY <1>1, <1>4, <2>1, <2>2, ProcSet
    <2>4. QED
      BY <1>1, <1>2, <1>3, <2>1, <2>2, <2>3, LocalStep
  <1>8. CASE ReadInterval(p)
    <2> DEFINE s == [proc[p] EXCEPT !.pc = "update", !.prev = data.enabled]
    <2>1. data.enabled \in BOOLEAN
      BY <1>1 DEF TypeOK, Data
    <2>2. s \in ProcState /\ s.pc = "update" /\ s.victims = proc[p].victims /\ s.gone = proc[p].gone
      BY <1>1, <2>1 DEF ProcState, Pc
    <2>3. proc' = [proc EXCEPT ![p] = s]
      BY <1>8 DEF ReadInterval
    <2> HIDE DEF s
    <2>4. TypeOK' /\ Off(p) /\ proc'[p] = s
      BY <1>1, <1>4, <2>2, <2>3, ProcSet
    <2>5. QED
      BY <1>1, <1>2, <1>3, <1>5, <1>6, <2>2, <2>4, LocalStep
  <1>9. ASSUME NEW i \in ArchiveId, DeleteArchive(p, i) PROVE BackupInv'
    <2> DEFINE s == [proc[p] EXCEPT !.pc = "remove", !.victims = {i}]
    <2>1. s \in ProcState /\ s.pc = "remove" /\ s.victims = {i} /\ s.gone = proc[p].gone
      BY <1>1 DEF ProcState, Pc
    <2>2. proc' = [proc EXCEPT ![p] = s] /\ i \in rows /\ Op[p] = "delete"
      BY <1>9 DEF DeleteArchive
    <2> HIDE DEF s
    <2>3. TypeOK' /\ Off(p) /\ proc'[p] = s
      BY <1>1, <1>4, <2>1, <2>2, ProcSet
    <2>4. ~SchedulerAlone /\ i < nextId
      BY <1>1, <2>2 DEF SchedulerAlone, Present, IdsInserted
    <2>5. QED
      BY <1>1, <1>2, <1>3, <2>1, <2>3, <2>4, LocalStep
  <1>10. ASSUME NEW d \in held, StartRestore(p, d) PROVE BackupInv'
    <2> DEFINE s == [proc[p] EXCEPT !.pc = "commit", !.got = d]
    <2>1. d \in Data
      BY <1>1 DEF TypeOK
    <2>2. s \in ProcState /\ s.pc = "commit" /\ s.victims = proc[p].victims /\ s.gone = proc[p].gone
      BY <1>1, <2>1 DEF ProcState, Pc
    <2>3. proc' = [proc EXCEPT ![p] = s] /\ Op[p] = "restore"
      BY <1>10 DEF StartRestore
    <2> HIDE DEF s
    <2>4. TypeOK' /\ Off(p) /\ proc'[p] = s
      BY <1>1, <1>4, <2>2, <2>3, ProcSet
    <2>5. QED
      BY <1>1, <1>2, <1>3, <1>5, <1>6, <2>2, <2>3, <2>4, LocalStep
  <1>11. QED
    BY <1>7, <1>8, <1>9, <1>10

\* Steps that read, fail or end.
LEMMA ReadInv ==
  ASSUME BackupInv, NEW p \in Procs,
         \/ \E t \in Tables : Export(p, t)
         \/ StatementFails(p) \/ ReadRetain(p) \/ ListArchives(p) \/ MarkScheduled(p)
         \/ ImportFails(p) \/ ReadDir(p)
  PROVE  BackupInv'
  <1>1. TypeOK /\ IdsInserted /\ OwnSteps /\ proc[p] \in ProcState
    BY DEF BackupInv, TypeOK
  <1>2. UNCHANGED <<data, rows, files, zip, nextId, held, cut, crashes>>
    BY DEF Export, StatementFails, ReadRetain, ListArchives, MarkScheduled, ImportFails, ReadDir
  <1>3. proc' \in [Procs -> ProcState] => TypeOK'
    <2>1. due' \in BOOLEAN
      BY <1>1 DEF Export, StatementFails, ReadRetain, ListArchives, MarkScheduled, ImportFails,
            ReadDir, TypeOK
    <2>2. QED
      BY <1>1, <1>2, <2>1 DEF TypeOK
  <1>4. \A i \in proc[p].victims : i < nextId
    BY <1>1 DEF IdsInserted, Doomed
  <1>5. ~cut /\ SchedulerAlone =>
           \A q \in Procs : proc[q].pc = "write" => proc[q].id \notin proc[p].victims
    BY DEF BackupInv, FilesHaveRows, Doomed
  <1>6. data.retain \in Nat /\ data.retain >= 1
    BY <1>1, BackupAssumption DEF TypeOK, Data
  <1>7. ASSUME NEW t \in Tables, Export(p, t) PROVE BackupInv'
    <2> DEFINE got == proc[p].got
               new == CASE t = "AgentNode" -> [got EXCEPT !.node = data.node]
                        [] t = "ClientIpAssignment" -> [got EXCEPT !.session = data.session]
                        [] OTHER -> [got EXCEPT !.retain = data.retain, !.enabled = data.enabled]
               pc == IF proc[p].todo = {t} THEN "insert" ELSE "export"
               s == [proc[p] EXCEPT !.todo = @ \ {t}, !.got = new, !.pc = pc]
    <2>1. new \in Data
      <3>1. got \in Data /\ data \in Data
        BY <1>1 DEF ProcState, TypeOK
      <3>2. QED
        BY <3>1 DEF Data
    <2>2. pc \in {"insert", "export"} /\ pc \in Pc
      BY DEF Pc
    <2>3. proc' = [proc EXCEPT ![p] = s] /\ proc[p].pc = "export"
      BY <1>7 DEF Export
    <2> HIDE DEF new, pc
    <2>4. s \in ProcState /\ s.pc = pc /\ s.victims = proc[p].victims /\ s.gone = proc[p].gone
      BY <1>1, <2>1, <2>2 DEF ProcState
    <2> HIDE DEF s
    <2>5. TypeOK' /\ Off(p) /\ proc'[p] = s
      BY <1>1, <1>3, <2>3, <2>4, ProcSet
    <2>6. Op[p] \in {"scheduler", "create"} /\ ~Prunes(p)
      BY <1>1, <2>3 DEF OwnSteps, Prunes
    <2>7. QED
      BY <1>1, <1>2, <1>4, <1>5, <2>2, <2>3, <2>4, <2>5, <2>6, LocalStep
  <1>8. CASE StatementFails(p) \/ MarkScheduled(p) \/ ImportFails(p)
    <2>1. PICK pc \in {"new", "done"} : GoTo(p, pc)
      BY <1>8, PcFacts DEF StatementFails, MarkScheduled, ImportFails
    <2>2. pc \in Pc
      BY DEF Pc
    <2>3. /\ TypeOK' /\ Off(p) /\ proc'[p].pc = pc
          /\ proc'[p].victims = proc[p].victims /\ proc'[p].gone = proc[p].gone
      BY <1>1, <1>3, <2>1, <2>2, GoToFacts
    <2>4. ~cut /\ Prunes(p) => Cardinality(rows) <= data.retain
      BY <1>8 DEF StatementFails, MarkScheduled, ImportFails, BackupInv, Prunes
    <2>5. proc[p].pc \in {"export", "insert", "retain", "list", "update", "commit", "mark"}
      BY <1>8 DEF StatementFails, MarkScheduled, ImportFails
    <2>6. QED
      BY <1>1, <1>2, <1>4, <1>5, <2>1, <2>3, <2>4, <2>5, LocalStep
  <1>9. CASE ReadRetain(p)
    <2> DEFINE s == [proc[p] EXCEPT !.pc = "list", !.keep = data.retain]
    <2>1. /\ s \in ProcState /\ s.pc = "list" /\ s.keep = data.retain
          /\ s.victims = proc[p].victims /\ s.gone = proc[p].gone
      BY <1>1, <1>6 DEF ProcState, Pc
    <2>2. proc' = [proc EXCEPT ![p] = s] /\ proc[p].pc = "retain"
      <3>1. data.retain \in 1 .. MaxRetain
        BY <1>1 DEF TypeOK, Data
      <3>2. clampInt(data.retain, 1, MaxRetain) = data.retain
        BY <3>1, BackupAssumption DEF clampInt
      <3>3. QED
        BY <1>9, <3>2 DEF ReadRetain
    <2> HIDE DEF s
    <2>3. TypeOK' /\ Off(p) /\ proc'[p] = s
      BY <1>1, <1>3, <2>1, <2>2, ProcSet
    <2>4. Prunes(p)'
      BY <1>2, <1>6, <2>1, <2>3 DEF Prunes
    <2>5. QED
      BY <1>1, <1>2, <1>4, <1>5, <1>6, <2>1, <2>2, <2>3, <2>4, LocalStep
  <1>10. CASE ListArchives(p)
    <2> DEFINE v == rows \ Newest(rows, proc[p].keep)
               pc == IF v = {} THEN AfterPrune(p) ELSE "remove"
               s == [proc[p] EXCEPT !.victims = v, !.pc = pc]
    <2>1. proc' = [proc EXCEPT ![p] = s] /\ proc[p].pc = "list"
      BY <1>10 DEF ListArchives
    <2>2. pc \in {"mark", "done", "remove"} /\ pc \in Pc /\ (pc = "remove" <=> v # {})
      BY PcFacts DEF Pc
    <2>3. v \subseteq rows /\ v \subseteq ArchiveId
      BY <1>1 DEF TypeOK
    <2>4. proc[p].keep \in Nat /\ proc[p].keep >= 1
      BY <1>1, <2>1 DEF ProcState, OwnSteps
    <2>5. rows \ v = Newest(rows, proc[p].keep) /\ Cardinality(rows \ v) <= proc[p].keep
          /\ Cardinality(rows \ v) \in Nat
      <3>1. rows \in SUBSET ArchiveId
        BY <1>1 DEF TypeOK
      <3>2. /\ Newest(rows, proc[p].keep) \subseteq rows
            /\ Cardinality(Newest(rows, proc[p].keep)) <= proc[p].keep
        BY <2>4, <3>1, NewestBound
      <3>3. rows \ v = Newest(rows, proc[p].keep)
        BY <3>2
      <3>4. Cardinality(rows \ v) \in Nat
        BY <3>1, FewerRows
      <3>5. QED
        BY <3>2, <3>3, <3>4
    <2>6. ASSUME ~cut, SchedulerAlone, NEW q \in Procs, proc[q].pc = "write"
          PROVE  proc[q].id \notin v
      <3>1. proc[q].id \in rows /\ proc[q].id + 1 = nextId
        BY <2>6 DEF BackupInv, FilesHaveRows
      <3>2. rows \subseteq Nat /\ rows \in SUBSET ArchiveId /\ nextId \in Nat
        BY <1>1, ArchiveIds, BackupAssumption DEF TypeOK
      <3>3. \A j \in rows : j < nextId
        BY <1>1 DEF IdsInserted
      <3>4. \A j \in rows : j <= proc[q].id
        BY <3>1, <3>2, <3>3
      <3>5. proc[q].id \in Newest(rows, proc[p].keep)
        BY <2>4, <3>1, <3>2, <3>4, NewestKeepsLast
      <3>6. QED
        BY <3>5
    <2> HIDE DEF v, pc
    <2>7. s \in ProcState /\ s.pc = pc /\ s.victims = v /\ s.gone = proc[p].gone
      BY <1>1, <2>2, <2>3 DEF ProcState
    <2> HIDE DEF s
    <2>8. TypeOK' /\ Off(p) /\ proc'[p] = s
      BY <1>1, <1>3, <2>1, <2>7, ProcSet
    <2>9. \A i \in v : i < nextId
      BY <1>1, <2>3 DEF IdsInserted
    <2>10. Prunes(p) => Cardinality(rows) <= data.retain \/ Prunes(p)'
      <3>1. Prunes(p) => Cardinality(rows \ v) <= data.retain
        BY <1>6, <2>1, <2>4, <2>5 DEF Prunes
      <3>2. CASE v = {}
        <4>1. rows \ v = rows
          BY <3>2
        <4>2. QED
          BY <3>1, <4>1
      <3>3. CASE v # {}
        <4>1. Doomed(p)' = v /\ proc'[p].pc = "remove"
          BY <2>2, <2>7, <2>8, <3>3 DEF Doomed
        <4>2. QED
          BY <1>2, <3>1, <4>1 DEF Prunes
      <3>4. QED
        BY <3>2, <3>3
    <2>11. QED
      BY <1>1, <1>2, <2>1, <2>2, <2>6, <2>7, <2>8, <2>9, <2>10, LocalStep
  <1>11. CASE ReadDir(p)
    <2> DEFINE s == [proc[p] EXCEPT !.pc = "rmzip", !.victims = files]
    <2>1. s \in ProcState /\ s.pc = "rmzip" /\ s.victims = files /\ s.gone = proc[p].gone
      BY <1>1 DEF ProcState, Pc, TypeOK
    <2>2. proc' = [proc EXCEPT ![p] = s] /\ proc[p].pc = "readdir"
      BY <1>11 DEF ReadDir
    <2> HIDE DEF s
    <2>3. TypeOK' /\ Off(p) /\ proc'[p] = s
      BY <1>1, <1>3, <2>1, <2>2, ProcSet
    <2>4. Op[p] = "restore" /\ ~SchedulerAlone /\ ~Prunes(p)
      BY <1>1, <2>2 DEF OwnSteps, SchedulerAlone, Present, Prunes
    <2>5. \A i \in files : i < nextId
      BY <1>1 DEF IdsInserted
    <2>6. QED
      BY <1>1, <1>2, <2>1, <2>2, <2>3, <2>4, <2>5, LocalStep
  <1>12. QED
    BY <1>7, <1>8, <1>9, <1>10, <1>11

\* What the invariant says as long as nothing was cut short.
Uncut ==
  /\ \A p \in Procs : ~proc[p].gone
  /\ RowsCovered
  /\ Cardinality(rows) <= data.retain \/ \E p \in Procs : Prunes(p)
  /\ SchedulerAlone => FilesHaveRows

LEMMA Others ==
  ASSUME NEW p \in Procs, Off(p)
  PROVE  \A q \in Procs : q # p => proc'[q] = proc[q] /\ Doomed(q)' = Doomed(q)
  BY DEF Off, Doomed

\* With the scheduler alone it is the only one that writes archives.
LEMMA OneWriter ==
  ASSUME SchedulerAlone, OwnSteps, NEW p \in Procs, NEW q \in Procs,
         proc[p].pc \in {"insert", "write"}, proc[q].pc \in {"insert", "write"}
  PROVE  p = q
  <1>1. Op[p] = "scheduler" /\ Op[q] = "scheduler"
    BY DEF OwnSteps, SchedulerAlone, Present
  <1>2. QED
    BY <1>1, BackupAssumption

\* CreatePanelBackupZip inserts its row.
LEMMA InsertInv ==
  ASSUME BackupInv, NEW p \in Procs, InsertRow(p) PROVE BackupInv'
  <1> DEFINE s == [proc[p] EXCEPT !.pc = "write", !.id = nextId]
  <1>1. /\ TypeOK /\ IdsInserted /\ OwnSteps /\ proc[p] \in ProcState
        /\ nextId \in Nat \ {0} /\ MaxArchives \in Nat
    BY BackupAssumption DEF BackupInv, TypeOK
  <1>2. /\ proc[p].pc = "insert" /\ nextId <= MaxArchives
        /\ rows' = rows \cup {nextId} /\ nextId' = nextId + 1
        /\ proc' = [proc EXCEPT ![p] = s]
        /\ UNCHANGED <<data, due, files, zip, held, cut, crashes>>
    BY DEF InsertRow
  <1>3. s \in ProcState /\ s.pc = "write" /\ s.id = nextId
        /\ s.victims = proc[p].victims /\ s.gone = proc[p].gone
    BY <1>1 DEF ProcState, Pc
  <1> HIDE DEF s
  <1>4. proc' \in [Procs -> ProcState] /\ Off(p) /\ proc'[p] = s
    BY <1>1, <1>2, <1>3, ProcSet
  <1>5. nextId' \in 1 .. (MaxArchives + 1) /\ nextId \in ArchiveId
    BY <1>1, <1>2 DEF ArchiveId
  <1>6. TypeOK'
    BY <1>1, <1>2, <1>4, <1>5 DEF TypeOK
  <1>7. Doomed(p)' = proc[p].victims /\ Doomed(p) = proc[p].victims
    BY <1>2, <1>3, <1>4 DEF Doomed
  <1>8. /\ \A i \in rows \cup files : i < nextId /\ i \in Nat
        /\ \A q \in Procs : \A i \in Doomed(q) : i < nextId /\ i \in Nat
    <2>1. \A q \in Procs : Doomed(q) \subseteq Nat
      BY <1>1, ArchiveIds DEF TypeOK, ProcState, Doomed
    <2>2. rows \cup files \subseteq Nat
      BY <1>1, ArchiveIds DEF TypeOK
    <2>3. QED
      BY <1>1, <2>1, <2>2 DEF IdsInserted
  <1>9. IdsInserted' /\ OwnSteps'
    <2>1. \A i \in rows' \cup files' : i < nextId'
      BY <1>1, <1>2, <1>8
    <2>2. \A i \in Doomed(p)' : i < nextId'
      BY <1>1, <1>2, <1>7, <1>8
    <2>3. proc'[p].id \in 1 .. (nextId' - 1)
      BY <1>1, <1>2, <1>3, <1>4
    <2>4. nextId' >= nextId
      BY <1>1, <1>2
    <2>5. Op[p] \in {"scheduler", "create"}
      BY <1>1, <1>2 DEF OwnSteps
    <2>6. QED
      BY <1>3, <1>4, <1>6, <2>1, <2>2, <2>3, <2>4, <2>5, OrderKept
  <1>10. ASSUME ~cut PROVE Uncut'
    <2>1. Uncut
      BY <1>10 DEF BackupInv, Uncut
    <2>2. \A q \in Procs : ~proc'[q].gone
      BY <1>3, <1>4, <2>1 DEF Off, Uncut
    <2>3. RowsCovered'
      BY <1>2, <1>3, <1>4, <2>1 DEF RowsCovered, Off, Uncut
    <2>4. Prunes(p)'
      BY <1>3, <1>4 DEF Prunes
    <2>5. ASSUME SchedulerAlone' PROVE FilesHaveRows'
      <3>1. SchedulerAlone
        BY <1>3, <1>4, <2>5, AloneKept
      <3>2. FilesHaveRows
        BY <2>1, <3>1 DEF Uncut
      <3>3. \A q \in Procs : q # p => proc'[q].pc # "write"
        BY <1>1, <1>2, <1>4, <3>1, OneWriter DEF Off
      <3>4. \A q \in Procs : nextId \notin Doomed(q)'
        BY <1>1, <1>4, <1>7, <1>8, Others
      <3>5. files' \subseteq rows'
        BY <1>2, <3>2 DEF FilesHaveRows
      <3>6. \A q \in Procs : proc'[q].pc = "unrow" => proc'[q].id \notin files'
        BY <1>2, <1>3, <1>4, <3>2 DEF FilesHaveRows, Off
      <3>7. QED
        BY <1>1, <1>2, <1>3, <1>4, <3>3, <3>4, <3>5, <3>6 DEF FilesHaveRows
    <2>6. QED
      BY <2>2, <2>3, <2>4, <2>5 DEF Uncut
  <1>11. QED
    BY <1>2, <1>6, <1>9, <1>10 DEF BackupInv, Uncut

\* It writes its file.
LEMMA WriteInv ==
  ASSUME BackupInv, NEW p \in Procs, WriteFile(p) PROVE BackupInv'
  <1>1. TypeOK /\ IdsInserted /\ OwnSteps /\ proc[p] \in ProcState
    BY DEF BackupInv, TypeOK
  <1>2. /\ proc[p].pc = "write" /\ files' = files \cup {proc[p].id}
        /\ zip' = [zip EXCEPT ![proc[p].id] = proc[p].got]
        /\ GoTo(p, "retain")
        /\ UNCHANGED <<data, due, rows, nextId, held, cut, crashes>>
    BY DEF WriteFile
  <1>3. /\ proc' \in [Procs -> ProcState] /\ Off(p)
        /\ proc'[p].pc = "retain" /\ proc'[p].id = proc[p].id
        /\ proc'[p].victims = proc[p].victims /\ proc'[p].gone = proc[p].gone
    BY <1>1, <1>2, GoToFacts DEF Pc
  <1>4. nextId \in Nat /\ nextId <= MaxArchives + 1 /\ MaxArchives \in Nat
    BY <1>1, BackupAssumption DEF TypeOK
  <1>5. proc[p].id \in 1 .. (nextId - 1)
    BY <1>1, <1>2 DEF IdsInserted
  <1>6. proc[p].id \in ArchiveId /\ proc[p].id < nextId
    BY <1>4, <1>5 DEF ArchiveId
  <1>7. TypeOK'
    <2>1. zip' \in [ArchiveId -> Data]
      BY <1>1, <1>2 DEF TypeOK, ProcState
    <2>2. QED
      BY <1>1, <1>2, <1>3, <1>6, <2>1 DEF TypeOK
  <1>8. Doomed(p)' = proc[p].victims /\ Doomed(p) = proc[p].victims
    BY <1>2, <1>3 DEF Doomed
  <1>9. IdsInserted' /\ OwnSteps'
    BY <1>1, <1>2, <1>3, <1>4, <1>6, <1>7, <1>8, OrderKept DEF IdsInserted
  <1>10. ASSUME ~cut PROVE Uncut'
    <2>1. Uncut
      BY <1>10 DEF BackupInv, Uncut
    <2>2. \A q \in Procs : ~proc'[q].gone
      BY <1>3, <2>1 DEF Off, Uncut
    <2>3. RowsCovered'
      BY <1>2, <1>3, <2>1 DEF RowsCovered, Off, Uncut
    <2>4. Prunes(p)'
      BY <1>3 DEF Prunes
    <2>5. ASSUME SchedulerAlone' PROVE FilesHaveRows'
      <3>1. SchedulerAlone
        BY <1>3, <2>5, AloneKept
      <3>2. FilesHaveRows
        BY <2>1, <3>1 DEF Uncut
      <3>3. /\ proc[p].id \in rows
            /\ \A q \in Procs : proc[p].id \notin Doomed(q)
        BY <1>2, <3>2 DEF FilesHaveRows
      <3>4. \A q \in Procs : Doomed(q)' = Doomed(q)
        BY <1>3, <1>8, Others
      <3>5. \A q \in Procs : proc'[q].pc \in {"write", "unrow"} => q # p /\ proc'[q] = proc[q]
        BY <1>3 DEF Off
      <3>6. \A q \in Procs : proc[q].pc = "unrow" => proc[q].id \in Doomed(q)
        BY DEF Doomed
      <3>7. QED
        BY <1>2, <3>2, <3>3, <3>4, <3>5, <3>6 DEF FilesHaveRows
    <2>6. QED
      BY <2>2, <2>3, <2>4, <2>5 DEF Uncut
  <1>11. QED
    BY <1>2, <1>7, <1>9, <1>10 DEF BackupInv, Uncut

\* PruneOldBackups or DeleteArchive removes a file.
LEMMA RemoveInv ==
  ASSUME BackupInv, NEW p \in Procs, RemoveFile(p) PROVE BackupInv'
  <1>1. TypeOK /\ IdsInserted /\ OwnSteps /\ proc[p] \in ProcState
    BY DEF BackupInv, TypeOK
  <1>2. PICK i \in Newest(proc[p].victims, 1) :
          /\ files' = files \ {i}
          /\ proc' = [proc EXCEPT ![p].pc = "unrow", ![p].id = i, ![p].victims = @ \ {i}]
    BY DEF RemoveFile
  <1>3. /\ proc[p].pc = "remove"
        /\ UNCHANGED <<data, due, rows, zip, nextId, held, cut, crashes>>
    BY DEF RemoveFile
  <1> DEFINE s == [proc[p] EXCEPT !.pc = "unrow", !.id = i, !.victims = @ \ {i}]
  <1>4. i \in proc[p].victims /\ i \in Nat
    BY <1>1, <1>2, ArchiveIds DEF Newest, ProcState
  <1>5. s \in ProcState /\ s.pc = "unrow" /\ s.id = i
        /\ s.victims = proc[p].victims \ {i} /\ s.gone = proc[p].gone
    BY <1>1, <1>4 DEF ProcState, Pc
  <1>6. proc' = [proc EXCEPT ![p] = s]
    BY <1>2
  <1> HIDE DEF s
  <1>7. proc' \in [Procs -> ProcState] /\ Off(p) /\ proc'[p] = s
    BY <1>1, <1>5, <1>6, ProcSet
  <1>8. TypeOK'
    BY <1>1, <1>2, <1>3, <1>7 DEF TypeOK
  <1>9. Doomed(p)' = Doomed(p)
    BY <1>3, <1>4, <1>5, <1>7 DEF Doomed
  <1>10. IdsInserted' /\ OwnSteps'
    <2>1. nextId \in Nat
      BY <1>1, BackupAssumption DEF TypeOK
    <2>2. QED
      BY <1>1, <1>2, <1>3, <1>5, <1>7, <1>8, <1>9, <2>1, OrderKept DEF IdsInserted
  <1>11. ASSUME ~cut PROVE Uncut'
    <2>1. Uncut
      BY <1>11 DEF BackupInv, Uncut
    <2>2. \A q \in Procs : ~proc'[q].gone
      BY <1>5, <1>7, <2>1 DEF Off, Uncut
    <2>3. RowsCovered'
      BY <1>2, <1>3, <1>5, <1>7, <2>1 DEF RowsCovered, Off, Uncut
    <2>4. \A q \in Procs : Doomed(q)' = Doomed(q)
      BY <1>7, <1>9, Others
    <2>5. \A q \in Procs : Prunes(q) => Prunes(q)'
      BY <1>3, <1>5, <1>7, <2>4 DEF Prunes, Off
    <2>6. ASSUME SchedulerAlone' PROVE FilesHaveRows'
      <3>1. FilesHaveRows
        BY <1>5, <1>7, <2>1, <2>6, AloneKept DEF Uncut
      <3>2. QED
        BY <1>2, <1>3, <1>5, <1>7, <2>4, <3>1 DEF FilesHaveRows, Off
    <2>7. QED
      BY <1>3, <2>1, <2>2, <2>3, <2>5, <2>6 DEF Uncut
  <1>12. QED
    BY <1>3, <1>8, <1>10, <1>11 DEF BackupInv, Uncut

\* It deletes the row.
LEMMA DeleteRowInv ==
  ASSUME BackupInv, NEW p \in Procs, DeleteRow(p) PROVE BackupInv'
  <1> DEFINE pc == IF proc[p].victims = {} THEN AfterPrune(p) ELSE "remove"
  <1>1. TypeOK /\ IdsInserted /\ OwnSteps /\ proc[p] \in ProcState
    BY DEF BackupInv, TypeOK
  <1>2. /\ proc[p].pc = "unrow" /\ GoTo(p, pc)
        /\ rows' = IF proc[p].gone THEN rows ELSE rows \ {proc[p].id}
        /\ UNCHANGED <<data, due, files, zip, nextId, held, cut, crashes>>
    BY DEF DeleteRow
  <1>3. /\ pc \in Pc /\ pc \in {"mark", "done", "remove"}
        /\ pc = "remove" <=> proc[p].victims # {}
    BY PcFacts DEF Pc
  <1> HIDE DEF pc
  <1>4. /\ proc' \in [Procs -> ProcState] /\ Off(p)
        /\ proc'[p].pc = pc /\ proc'[p].id = proc[p].id
        /\ proc'[p].victims = proc[p].victims /\ proc'[p].gone = proc[p].gone
    BY <1>1, <1>2, <1>3, GoToFacts
  <1>5. rows' \subseteq rows
    BY <1>2
  <1>6. TypeOK'
    BY <1>1, <1>2, <1>4, <1>5 DEF TypeOK
  <1>7. Doomed(p)' = proc[p].victims /\ Doomed(p) = proc[p].victims \cup {proc[p].id}
    BY <1>2, <1>3, <1>4 DEF Doomed
  <1>8. IdsInserted' /\ OwnSteps'
    <2>1. nextId \in Nat
      BY <1>1, BackupAssumption DEF TypeOK
    <2>2. QED
      BY <1>1, <1>2, <1>3, <1>4, <1>5, <1>6, <1>7, <2>1, OrderKept DEF IdsInserted
  <1>9. ASSUME ~cut PROVE Uncut'
    <2>1. Uncut /\ ~proc[p].gone
      BY <1>9 DEF BackupInv, Uncut
    <2>2. rows' = rows \ {proc[p].id}
      BY <1>2, <2>1
    <2>3. \A q \in Procs : ~proc'[q].gone
      BY <1>4, <2>1 DEF Off, Uncut
    <2>4. RowsCovered'
      BY <1>2, <1>4, <2>1, <2>2 DEF RowsCovered, Off, Uncut
    <2>5. Cardinality(rows') <= data'.retain \/ \E q \in Procs : Prunes(q)'
      <3>1. rows \in SUBSET ArchiveId /\ data.retain \in Nat
        BY <1>1, BackupAssumption DEF TypeOK, Data
      <3>2. CASE Cardinality(rows) <= data.retain
        <4>1. /\ Cardinality(rows') <= Cardinality(rows)
              /\ Cardinality(rows') \in Nat /\ Cardinality(rows) \in Nat
          BY <1>5, <3>1, FewerRows
        <4>2. QED
          BY <1>2, <3>1, <3>2, <4>1
      <3>3. ASSUME NEW q \in Procs, q # p, Prunes(q) PROVE Prunes(q)'
        <4>1. proc'[q] = proc[q] /\ Doomed(q)' = Doomed(q)
          BY <1>4, <3>3, Others
        <4>2. rows \ Doomed(q) \in SUBSET ArchiveId /\ rows' \ Doomed(q) \in SUBSET (rows \ Doomed(q))
          BY <1>5, <3>1
        <4>3. /\ Cardinality(rows' \ Doomed(q)) <= Cardinality(rows \ Doomed(q))
              /\ Cardinality(rows' \ Doomed(q)) \in Nat /\ Cardinality(rows \ Doomed(q)) \in Nat
          BY <4>2, FewerRows
        <4>4. QED
          BY <1>2, <3>1, <3>3, <4>1, <4>3 DEF Prunes
      <3>4. CASE Prunes(p)
        <4>1. Cardinality(rows \ Doomed(p)) <= data.retain
          BY <1>2, <3>4 DEF Prunes
        <4>2. rows' \ Doomed(p)' = rows \ Doomed(p)
          BY <1>7, <2>2
        <4>3. CASE proc[p].victims = {}
          <5>1. rows' \ Doomed(p)' = rows'
            BY <1>7, <4>3
          <5>2. QED
            BY <1>2, <4>1, <4>2, <5>1
        <4>4. CASE proc[p].victims # {}
          <5>1. proc'[p].pc = "remove"
            BY <1>3, <1>4, <4>4
          <5>2. Prunes(p)'
            BY <1>2, <4>1, <4>2, <5>1 DEF Prunes
          <5>3. QED
            BY <5>2
        <4>5. QED
          BY <4>3, <4>4
      <3>5. QED
        BY <2>1, <3>2, <3>3, <3>4 DEF Uncut
    <2>6. ASSUME SchedulerAlone' PROVE FilesHaveRows'
      <3>1. FilesHaveRows
        BY <1>3, <1>4, <2>1, <2>6, AloneKept DEF Uncut
      <3>2. files' \subseteq rows'
        BY <1>2, <2>2, <3>1 DEF FilesHaveRows
      <3>3. \A q \in Procs : Doomed(q)' \subseteq Doomed(q)
        BY <1>4, <1>7, Others
      <3>4. \A q \in Procs : proc'[q].pc \in {"write", "unrow"} => q # p /\ proc'[q] = proc[q]
        BY <1>3, <1>4 DEF Off
      <3>5. \A q \in Procs : proc[q].pc = "write" => proc[q].id # proc[p].id
        BY <1>7, <3>1 DEF FilesHaveRows
      <3>6. QED
        BY <1>2, <2>2, <3>1, <3>2, <3>3, <3>4, <3>5 DEF FilesHaveRows
    <2>7. QED
      BY <2>3, <2>4, <2>5, <2>6 DEF Uncut
  <1>10. QED
    BY <1>2, <1>6, <1>8, <1>9 DEF BackupInv, Uncut

\* UpdateSettings stores the new retainCount; it prunes after that.
LEMMA SettingsInv ==
  ASSUME BackupInv, NEW p \in Procs, NEW on \in BOOLEAN, NEW k \in 0 .. MaxRetain + 1,
         UpdateSettings(p, on, k)
  PROVE  BackupInv'
  <1>1. TypeOK /\ IdsInserted /\ OwnSteps /\ proc[p] \in ProcState /\ nextId \in Nat
    BY BackupAssumption DEF BackupInv, TypeOK
  <1>2. /\ proc[p].pc = "update" /\ GoTo(p, "retain")
        /\ data' = [data EXCEPT !.retain = clampInt(k, 1, MaxRetain), !.enabled = on]
        /\ due' \in {due, FALSE}
        /\ UNCHANGED <<rows, files, zip, nextId, held, cut, crashes>>
    BY DEF UpdateSettings
  <1>3. /\ proc' \in [Procs -> ProcState] /\ Off(p)
        /\ proc'[p].pc = "retain" /\ proc'[p].id = proc[p].id
        /\ proc'[p].victims = proc[p].victims /\ proc'[p].gone = proc[p].gone
    BY <1>1, <1>2, GoToFacts DEF Pc
  <1>4. clampInt(k, 1, MaxRetain) \in 1 .. MaxRetain
    BY BackupAssumption DEF clampInt
  <1>5. data' \in Data
    BY <1>1, <1>2, <1>4 DEF TypeOK, Data
  <1>6. TypeOK'
    BY <1>1, <1>2, <1>3, <1>5 DEF TypeOK
  <1>7. Doomed(p)' = Doomed(p)
    BY <1>2, <1>3 DEF Doomed
  <1>8. IdsInserted' /\ OwnSteps'
    BY <1>1, <1>2, <1>3, <1>6, <1>7, OrderKept DEF IdsInserted
  <1>9. ASSUME ~cut PROVE Uncut'
    <2>1. Uncut
      BY <1>9 DEF BackupInv, Uncut
    <2>2. \A q \in Procs : ~proc'[q].gone
      BY <1>3, <2>1 DEF Off, Uncut
    <2>3. RowsCovered'
      BY <1>2, <1>3, <2>1 DEF RowsCovered, Off, Uncut
    <2>4. Prunes(p)'
      BY <1>3 DEF Prunes
    <2>5. \A q \in Procs : Doomed(q)' = Doomed(q)
      BY <1>3, <1>7, Others
    <2>6. ASSUME SchedulerAlone' PROVE FilesHaveRows'
      <3>1. FilesHaveRows
        BY <1>3, <2>1, <2>6, AloneKept DEF Uncut
      <3>2. QED
        BY <1>2, <1>3, <2>5, <3>1 DEF FilesHaveRows, Off
    <2>7. QED
      BY <2>2, <2>3, <2>4, <2>6 DEF Uncut
  <1>10. QED
    BY <1>2, <1>6, <1>8, <1>9 DEF BackupInv, Uncut

\* A restore wipes the table and the directory.
LEMMA RestoreInv ==
  ASSUME BackupInv, NEW p \in Procs, Import(p) \/ RemoveZip(p) \/ DeleteAllRows(p)
  PROVE  BackupInv'
  <1>1. /\ TypeOK /\ IdsInserted /\ OwnSteps /\ proc[p] \in ProcState /\ nextId \in Nat
        /\ data.retain \in Nat
    BY BackupAssumption DEF BackupInv, TypeOK, Data
  <1>2. Op[p] = "restore" /\ UNCHANGED <<zip, nextId, held, cut, crashes>>
        /\ rows' \subseteq rows /\ files' \subseteq files
    BY <1>1 DEF Import, RemoveZip, DeleteAllRows, OwnSteps
  <1>3. /\ proc' \in [Procs -> ProcState] /\ Off(p)
        /\ proc'[p].pc \in {"readdir", "rmzip", "done"} /\ proc'[p].gone = proc[p].gone
        /\ proc'[p].victims \subseteq proc[p].victims
    <2>1. CASE Import(p) \/ DeleteAllRows(p)
      BY <1>1, <2>1, GoToFacts DEF Import, DeleteAllRows, Pc
    <2>2. CASE RemoveZip(p)
      <3>1. PICK i \in proc[p].victims : proc' = [proc EXCEPT ![p].victims = @ \ {i}]
        BY <2>2 DEF RemoveZip
      <3> DEFINE s == [proc[p] EXCEPT !.victims = @ \ {i}]
      <3>2. s \in ProcState /\ s.pc = proc[p].pc /\ s.gone = proc[p].gone
            /\ s.victims = proc[p].victims \ {i}
        BY <1>1 DEF ProcState
      <3>3. proc' = [proc EXCEPT ![p] = s] /\ proc[p].pc = "rmzip"
        BY <2>2, <3>1 DEF RemoveZip
      <3> HIDE DEF s
      <3>4. proc' \in [Procs -> ProcState] /\ Off(p) /\ proc'[p] = s
        BY <1>1, <3>2, <3>3, ProcSet
      <3>5. QED
        BY <3>2, <3>3, <3>4
    <2>3. QED
      BY <2>1, <2>2
  <1>4. data' \in Data /\ due' \in BOOLEAN
    BY <1>1 DEF Import, RemoveZip, DeleteAllRows, TypeOK, ProcState
  <1>5. TypeOK'
    BY <1>1, <1>2, <1>3, <1>4 DEF TypeOK
  <1>6. Doomed(p)' = proc'[p].victims /\ proc[p].victims \subseteq Doomed(p)
    BY <1>3 DEF Doomed
  <1>7. IdsInserted' /\ OwnSteps'
    BY <1>1, <1>2, <1>3, <1>5, <1>6, OrderKept DEF IdsInserted
  <1>8. ~SchedulerAlone'
    BY <1>2, <1>3 DEF SchedulerAlone, Present
  <1>9. ASSUME ~cut PROVE Uncut'
    <2>1. Uncut /\ ~proc[p].gone
      BY <1>9 DEF BackupInv, Uncut
    <2>2. \A q \in Procs : ~proc'[q].gone
      BY <1>3, <2>1 DEF Off, Uncut
    <2>3. CASE Import(p) \/ DeleteAllRows(p)
      <3>1. rows' = {}
        BY <2>1, <2>3 DEF Import, DeleteAllRows
      <3>2. Cardinality(rows') = 0 /\ data'.retain \in Nat
        BY <1>4, <3>1, FS_EmptySet, BackupAssumption DEF Data
      <3>3. QED
        BY <1>8, <2>2, <3>1, <3>2 DEF Uncut, RowsCovered
    <2>4. CASE RemoveZip(p)
      <3>1. proc[p].pc = "rmzip" /\ proc'[p].pc = "rmzip" /\ rows' = rows /\ data' = data
        BY <1>1, <2>4 DEF RemoveZip, TypeOK, ProcState
      <3>2. RowsCovered'
        BY <3>1 DEF RowsCovered
      <3>3. \A q \in Procs : Prunes(q) => Prunes(q)'
        BY <1>3, <3>1, Others DEF Prunes
      <3>4. QED
        BY <1>8, <2>1, <2>2, <3>1, <3>2, <3>3 DEF Uncut
    <2>5. QED
      BY <2>3, <2>4
  <1>10. QED
    BY <1>2, <1>5, <1>7, <1>9 DEF BackupInv, Uncut

\* Operations are cut short.
LEMMA CutInv ==
  ASSUME BackupInv, Crash \/ \E p \in Procs : WriteFails(p) \/ ClientGone(p)
  PROVE  BackupInv'
  <1>1. TypeOK /\ IdsInserted /\ OwnSteps /\ nextId \in Nat
    BY BackupAssumption DEF BackupInv, TypeOK
  <1>2. cut' /\ UNCHANGED <<data, due, rows, files, zip, nextId, held>>
    BY DEF Crash, WriteFails, ClientGone
  <1>3. ASSUME NEW p \in Procs, WriteFails(p) PROVE BackupInv'
    <2>1. /\ proc' \in [Procs -> ProcState] /\ Off(p)
          /\ proc'[p].pc \in {"new", "done"} /\ proc'[p].victims = proc[p].victims
      BY <1>1, <1>3, PcFacts, GoToFacts DEF WriteFails, Pc
    <2>2. TypeOK'
      BY <1>1, <1>2, <1>3, <2>1 DEF TypeOK, WriteFails
    <2>3. Doomed(p)' = proc[p].victims /\ proc[p].victims \subseteq Doomed(p)
      BY <2>1 DEF Doomed
    <2>4. IdsInserted' /\ OwnSteps'
      BY <1>1, <1>2, <2>1, <2>2, <2>3, OrderKept DEF IdsInserted
    <2>5. QED
      BY <1>2, <2>2, <2>4, CutStep
  <1>4. ASSUME NEW p \in Procs, ClientGone(p) PROVE BackupInv'
    <2> DEFINE s == [proc[p] EXCEPT !.gone = TRUE]
    <2>1. s \in ProcState /\ s.pc = proc[p].pc /\ s.victims = proc[p].victims
          /\ s.id = proc[p].id /\ s.keep = proc[p].keep
      BY <1>1 DEF TypeOK, ProcState
    <2>2. proc' = [proc EXCEPT ![p] = s]
      BY <1>4 DEF ClientGone
    <2> HIDE DEF s
    <2>3. proc' \in [Procs -> ProcState] /\ Off(p) /\ proc'[p] = s
      BY <1>1, <2>1, <2>2, ProcSet
    <2>4. TypeOK'
      BY <1>1, <1>2, <1>4, <2>3 DEF TypeOK, ClientGone
    <2>5. Doomed(p)' = Doomed(p)
      BY <2>1, <2>3 DEF Doomed
    <2>6. IdsInserted' /\ OwnSteps'
      BY <1>1, <1>2, <2>1, <2>3, <2>4, <2>5, OrderKept DEF IdsInserted, OwnSteps
    <2>7. QED
      BY <1>2, <2>4, <2>6, CutStep
  <1>5. CASE Crash
    <2>1. \A p \in Procs : [NewProc EXCEPT !.pc = End(p)] \in ProcState
      BY NewProcType, PcFacts DEF ProcState, Pc
    <2>2. proc' \in [Procs -> ProcState]
      BY <1>1, <1>5, <2>1 DEF Crash, TypeOK
    <2>3. \A p \in Procs : \/ proc'[p] = proc[p] /\ proc[p].pc \in {"new", "absent"}
                           \/ proc'[p] = [NewProc EXCEPT !.pc = End(p)]
      BY <1>5 DEF Crash
    <2>4. \A p \in Procs : proc'[p].pc \in {"new", "absent", "done"}
      BY <2>3, PcFacts DEF NewProc
    <2>5. \A p \in Procs : Doomed(p)' \subseteq Doomed(p)
      BY <2>3, <2>4, ZenonT(40) DEF Doomed, NewProc
    <2>6. crashes' \in 0 .. MaxCrashes
      BY <1>1, <1>5, BackupAssumption DEF TypeOK, Crash
    <2>7. TypeOK'
      BY <1>1, <1>2, <2>2, <2>6 DEF TypeOK
    <2>8. IdsInserted'
      BY <1>1, <1>2, <2>4, <2>5 DEF IdsInserted
    <2>9. OwnSteps'
      BY <2>4 DEF OwnSteps
    <2>10. QED
      BY <1>2, <2>7, <2>8, <2>9, CutStep
  <1>6. QED
    BY <1>3, <1>4, <1>5

\* The rest of the panel, time and downloads.
LEMMA OutsideInv ==
  ASSUME BackupInv, TypeOK', data'.retain = data.retain,
         UNCHANGED <<rows, files, nextId, proc, cut>>
  PROVE  BackupInv'
  <1>1. IdsInserted' /\ OwnSteps'
    BY DEF BackupInv, IdsInserted, OwnSteps, Doomed
  <1>2. ASSUME ~cut PROVE Uncut'
    <2>1. Uncut
      BY <1>2 DEF BackupInv, Uncut
    <2>2. \A q \in Procs : Doomed(q)' = Doomed(q) /\ (Prunes(q) => Prunes(q)')
      BY DEF Prunes, Doomed
    <2>3. RowsCovered' /\ (SchedulerAlone' => SchedulerAlone)
      BY <2>1 DEF Uncut, RowsCovered, SchedulerAlone, Present
    <2>4. SchedulerAlone => FilesHaveRows'
      BY <2>1, <2>2 DEF Uncut, FilesHaveRows
    <2>5. QED
      BY <2>1, <2>2, <2>3, <2>4 DEF Uncut
  <1>3. QED
    BY <1>1, <1>2 DEF BackupInv, Uncut

LEMMA PanelInv ==
  ASSUME BackupInv, PanelWrites \/ TimePasses \/ \E i \in ArchiveId : Download(i)
  PROVE  BackupInv'
  <1>1. TypeOK /\ data \in Data
    BY DEF BackupInv, TypeOK
  <1>2. CASE PanelWrites
    <2>1. data' \in Data /\ data'.retain = data.retain
      <3>1. PICK n \in Nodes :
              \/ data' = [data EXCEPT !.node = @ \cup {n}]
              \/ data' = [data EXCEPT !.session = @ \cup {n}]
              \/ data' = [data EXCEPT !.node = @ \ {n}, !.session = @ \ {n}]
        BY <1>2, Zenon DEF PanelWrites
      <3>2. CASE data' = [data EXCEPT !.node = @ \cup {n}]
        BY <1>1, <3>2 DEF Data
      <3>3. CASE data' = [data EXCEPT !.session = @ \cup {n}]
        BY <1>1, <3>3 DEF Data
      <3>4. CASE data' = [data EXCEPT !.node = @ \ {n}, !.session = @ \ {n}]
        BY <1>1, <3>4 DEF Data
      <3>5. QED
        BY <3>1, <3>2, <3>3, <3>4
    <2>2. QED
      BY <1>1, <1>2, <2>1, OutsideInv DEF PanelWrites, TypeOK
  <1>3. CASE TimePasses
    BY <1>1, <1>3, OutsideInv DEF TimePasses, TypeOK
  <1>4. ASSUME NEW i \in ArchiveId, Download(i) PROVE BackupInv'
    <2>1. zip[i] \in Data
      BY <1>1 DEF TypeOK
    <2>2. QED
      BY <1>1, <1>4, <2>1, OutsideInv DEF Download, TypeOK
  <1>5. QED
    BY <1>2, <1>3, <1>4

LEMMA InitBackupInv == ASSUME Init PROVE BackupInv
  <1>1. PICK cast \in Casts :
          proc = [p \in Procs |-> IF p \in cast THEN NewProc ELSE AbsentProc]
    BY DEF Init
  <1>2. AbsentProc \in ProcState /\ AbsentProc.pc = "absent" /\ AbsentProc.victims = {}
        /\ AbsentProc.gone = FALSE
    BY NewProcType DEF AbsentProc, NewProc, ProcState, Pc
  <1>3. NewProc.pc = "new" /\ NewProc.victims = {} /\ NewProc.gone = FALSE
    BY DEF NewProc
  <1>4. proc \in [Procs -> ProcState]
    BY <1>1, <1>2, NewProcType
  <1>5. \A p \in Procs : proc[p].pc \in {"new", "absent"} /\ proc[p].victims = {} /\ ~proc[p].gone
    BY <1>1, <1>2, <1>3
  <1>6. zip \in [ArchiveId -> Data] /\ data \in Data
    BY EmptyIsData DEF Init
  <1>7. nextId \in 1 .. (MaxArchives + 1) /\ crashes \in 0 .. MaxCrashes
    BY BackupAssumption DEF Init
  <1>8. TypeOK
    BY <1>4, <1>6, <1>7 DEF Init, TypeOK
  <1>9. \A p \in Procs : Doomed(p) = {}
    BY <1>5 DEF Doomed
  <1>10. IdsInserted /\ OwnSteps /\ RowsCovered /\ FilesHaveRows
    BY <1>5, <1>9 DEF Init, IdsInserted, OwnSteps, RowsCovered, FilesHaveRows
  <1>11. Cardinality(rows) <= data.retain
    <2>1. Cardinality(rows) = 0 /\ data.retain \in Nat
      BY <1>6, FS_EmptySet, BackupAssumption DEF Init, Data
    <2>2. QED
      BY <2>1
  <1>12. QED
    BY <1>5, <1>8, <1>10, <1>11 DEF BackupInv

LEMMA NextBackupInv == ASSUME BackupInv, [Next]_vars PROVE BackupInv'
  <1>1. CASE PanelWrites \/ TimePasses \/ \E i \in ArchiveId : Download(i)
    BY <1>1, PanelInv
  <1>2. ASSUME NEW p \in Procs, Step(p) PROVE BackupInv'
    <2>1. ASSUME NEW on \in BOOLEAN, NEW k \in 0 .. MaxRetain + 1, UpdateSettings(p, on, k)
          PROVE  BackupInv'
      BY <2>1, SettingsInv
    <2>2. CASE \/ \E t \in Tables : Export(p, t)
               \/ StatementFails(p) \/ ReadRetain(p) \/ ListArchives(p) \/ MarkScheduled(p)
               \/ ImportFails(p) \/ ReadDir(p)
      BY <2>2, ReadInv
    <2>3. CASE \/ InsertRow(p) \/ WriteFile(p) \/ WriteFails(p) \/ RemoveFile(p) \/ DeleteRow(p)
               \/ Import(p) \/ RemoveZip(p) \/ DeleteAllRows(p)
      BY <2>3, InsertInv, WriteInv, CutInv, RemoveInv, DeleteRowInv, RestoreInv
    <2>4. QED
      BY <1>2, <2>1, <2>2, <2>3 DEF Step
  <1>3. ASSUME NEW p \in Procs,
               \/ StartCreate(p) \/ ReadInterval(p)
               \/ \E i \in ArchiveId : DeleteArchive(p, i)
               \/ \E d \in held : StartRestore(p, d)
        PROVE  BackupInv'
    BY <1>3, BeginInv
  <1>4. CASE Crash \/ \E p \in Procs : ClientGone(p)
    BY <1>4, CutInv
  <1>5. CASE UNCHANGED vars
    <2>1. TypeOK'
      BY <1>5 DEF BackupInv, TypeOK, vars
    <2>2. QED
      BY <1>5, <2>1, OutsideInv DEF vars
  <1>6. QED
    BY <1>1, <1>2, <1>3, <1>4, <1>5 DEF Next

\* The inductive invariant of rows, files and prunings holds.
THEOREM BackupInvariant == Spec => []BackupInv
  <1>1. Init => BackupInv
    BY InitBackupInv
  <1>2. BackupInv /\ [Next]_vars => BackupInv'
    BY NextBackupInv
  <1>3. QED
    BY <1>1, <1>2, PTL DEF Spec

\* The list of archives is no longer than retainCount once all operations are
\* over, however they interleaved.  (PruneOldBackups after CreatePanelBackupZip
\* and UpdateSettings.)
THEOREM RowsStayWithinRetain == Spec => []RowsWithinRetain
  <1>1. BackupInv => RowsWithinRetain
    BY DEF BackupInv, RowsWithinRetain, Quiet, Prunes
  <1>2. QED
    BY <1>1, BackupInvariant, PTL

\* Every archive of the list has its file once all operations are over.
\* (The row before the file in CreatePanelBackupZip, the file before the row in
\* PruneOldBackups and DeleteArchive.)
THEOREM ListedAreDownloadable == Spec => []ListedIsDownloadable
  <1>1. BackupInv => ListedIsDownloadable
    BY DEF BackupInv, ListedIsDownloadable, Quiet, RowsCovered
  <1>2. QED
    BY <1>1, BackupInvariant, PTL

\* With the scheduler as the only creator there are no more files than
\* retainCount says.  (PruneOldBackups.)
THEOREM DiskStaysWithinRetain == Spec => []DiskWithinRetain
  <1>1. BackupInv => DiskWithinRetain
    <2> SUFFICES ASSUME BackupInv, Quiet, SchedulerAlone
                 PROVE  Cardinality(files) <= data.retain
      BY DEF DiskWithinRetain
    <2>1. Cardinality(rows) <= data.retain
      BY DEF BackupInv, Quiet, Prunes
    <2>2. files \subseteq rows /\ rows \in SUBSET ArchiveId /\ data.retain \in Nat
      BY BackupAssumption DEF BackupInv, Quiet, FilesHaveRows, TypeOK, Data
    <2>3. /\ Cardinality(files) <= Cardinality(rows)
          /\ Cardinality(files) \in Nat /\ Cardinality(rows) \in Nat
      BY <2>2, FewerRows
    <2>4. QED
      BY <2>1, <2>2, <2>3
  <1>2. QED
    BY <1>1, BackupInvariant, PTL
=============================================================================
