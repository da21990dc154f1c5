------------------------ MODULE ClientSessionsProofs ------------------------
(***************************************************************************)
(* Theorems about ClientSessions: the types of its state, and that a       *)
(* session recorded as ended is over as long as the worker and disconnects *)
(* are the only writers, for any nodes, sessions, requests and bounds.     *)
(***************************************************************************)
EXTENDS ClientSessions, TLAPS

LEMMA Times == /\ 0 \in 0 .. MaxTime /\ 0 \in 0 .. MaxCrashes
               /\ 0 .. MaxTime \subseteq Nat
  BY SessionsAssumption

LEMMA IdleSyncType == IdleSync \in SyncState
  BY Times DEF IdleSync, SyncState

LEMMA NewReaderType == NewReader \in ReaderState
  BY Times DEF NewReader, ReaderState

\* The statements keep the types of the tables.
LEMMA Statements ==
  ASSUME NEW table \in [Sessions -> RowState], NEW ids
  PROVE  /\ Ended(table, ids) \in [Sessions -> RowState]
         /\ Upserted(table, ids) \in [Sessions -> RowState]
  BY DEF Ended, Upserted, RowState

LEMMA SeenAtType ==
  ASSUME seenAt \in [Sessions -> 0 .. MaxTime], NEW ids, NEW at \in 0 .. MaxTime
  PROVE  SeenAt(ids, at) \in [Sessions -> 0 .. MaxTime]
  BY DEF SeenAt

LEMMA InitSessionInv == ASSUME Init PROVE SessionInv
  <1>1. sync \in SyncState
    BY IdleSyncType DEF Init
  <1>2. reader \in [Readers -> ReaderState]
    BY NewReaderType DEF Init
  <1>3. kill \in [Kills -> KillState] /\ \A k \in Kills : kill[k].of = {} /\ kill[k].work = {}
    BY DEF Init, KillState
  <1>4. TypeOK
    BY <1>1, <1>2, <1>3, Times DEF Init, TypeOK, RowState
  <1>5. sync.pc = "idle" /\ sync.list = {} /\ sync.cur = {} /\ sync.node = {}
    BY DEF Init, IdleSync
  <1>6. LifeInv /\ ListInv
    BY <1>5 DEF Init, LifeInv, ListInv, Unrecorded
  <1>7. WorkInv /\ SeenInv
    BY <1>5 DEF WorkInv, SeenInv
  <1>8. KillInv
    BY <1>3 DEF KillInv
  <1>9. EndedMeansGone
    BY DEF Init, EndedMeansGone
  <1>10. QED
    BY <1>4, <1>6, <1>7, <1>8, <1>9 DEF SessionInv

-----------------------------------------------------------------------------
(* Requests that list sessions: from then on nothing is said of the rows *)

LEMMA AfterReader ==
  ASSUME SessionInv, TypeOK', UNCHANGED <<env, sync, kill>>, ~NoReader'
  PROVE  SessionInv'
  <1>1. LifeInv' /\ ListInv' /\ SeenInv' /\ EndedMeansGone'
    BY DEF SessionInv, LifeInv, ListInv, SeenInv, EndedMeansGone, env
  <1>2. WorkInv' /\ KillInv'
    BY DEF SessionInv, WorkInv, KillInv, env
  <1>3. QED
    BY <1>1, <1>2 DEF SessionInv

LEMMA ReaderInv ==
  ASSUME SessionInv, NEW r \in Readers, ReaderStep(r)
  PROVE  SessionInv'
  <1>1. TypeOK
    BY DEF SessionInv
  <1>2. reader[r] \in ReaderState
    BY <1>1 DEF TypeOK
  <1>3. ASSUME NEW st \in ReaderState, reader' = [reader EXCEPT ![r] = st], st.pc # "new",
               UNCHANGED <<env, sync, kill, activity>>,
               assign' \in [Sessions -> RowState], source' \in [Sessions -> RowState],
               seenAt' \in [Sessions -> 0 .. MaxTime]
        PROVE  SessionInv'
    <2>1. TypeOK'
      BY <1>1, <1>3 DEF TypeOK, env
    <2>2. ~NoReader'
      BY <1>1, <1>3 DEF TypeOK, NoReader
    <2>3. QED
      BY <1>3, <2>1, <2>2, AfterReader
  <1>4. CASE StartLister(r)
    <2> DEFINE st == [NewReader EXCEPT
           !.pc = "poll", !.todo = scene.nodes, !.at = clock,
           !.skip = {s \in Open(assign) : seenAt[s] + Freshness >= clock}]
    <2>1. st \in ReaderState /\ st.pc # "new"
      BY <1>1, SessionsAssumption DEF TypeOK, NewReader, ReaderState, Open
    <2>2. reader' = [reader EXCEPT ![r] = st] /\ UNCHANGED <<env, tables, sync, kill>>
      BY <1>4 DEF StartLister
    <2> HIDE DEF st
    <2>3. QED
      BY <1>1, <1>3, <2>1, <2>2 DEF TypeOK, tables
  <1>5. CASE StartUserView(r)
    <2> DEFINE st == [NewReader EXCEPT !.pc = "poll", !.todo = scene.nodes, !.at = clock]
    <2>1. st \in ReaderState /\ st.pc # "new"
      BY <1>1, SessionsAssumption DEF TypeOK, NewReader, ReaderState
    <2>2. reader' = [reader EXCEPT ![r] = st] /\ UNCHANGED <<env, tables, sync, kill>>
      BY <1>5 DEF StartUserView
    <2> HIDE DEF st
    <2>3. QED
      BY <1>1, <1>3, <2>1, <2>2 DEF TypeOK, tables
  <1>6. ASSUME NEW n \in Nodes, ReaderPoll(r, n) PROVE SessionInv'
    <2> DEFINE st == [[[reader[r] EXCEPT !.pc = "upsert"] EXCEPT !.todo = @ \ {n}]
                        EXCEPT !.work = ClientsList(n) \ reader[r].skip]
    <2>1. st \in ReaderState /\ st.pc # "new"
      BY <1>1, <1>2 DEF ReaderState, ClientsList, TypeOK
    <2>2. reader' = [reader EXCEPT ![r] = st] /\ UNCHANGED <<env, tables, sync, kill>>
      BY <1>1, <1>2, <1>6 DEF ReaderPoll, TypeOK, ReaderState
    <2> HIDE DEF st
    <2>3. QED
      BY <1>1, <1>3, <2>1, <2>2 DEF TypeOK, tables
  <1>7. ASSUME NEW n \in Nodes, ReaderSkips(r, n) PROVE SessionInv'
    <2> DEFINE st == [reader[r] EXCEPT !.todo = @ \ {n}]
    <2>1. st \in ReaderState /\ st.pc # "new"
      BY <1>2, <1>7 DEF ReaderState, ReaderSkips
    <2>2. reader' = [reader EXCEPT ![r] = st] /\ UNCHANGED <<env, tables, sync, kill>>
      BY <1>1, <1>7 DEF ReaderSkips, TypeOK
    <2> HIDE DEF st
    <2>3. QED
      BY <1>1, <1>3, <2>1, <2>2 DEF TypeOK, tables
  <1>8. ASSUME NEW s \in Sessions, ReaderPasses(r, s) PROVE SessionInv'
    <2> DEFINE st == [reader[r] EXCEPT !.work = @ \ {s}]
    <2>1. st \in ReaderState /\ st.pc # "new"
      BY <1>2, <1>8 DEF ReaderState, ReaderPasses
    <2>2. reader' = [reader EXCEPT ![r] = st] /\ UNCHANGED <<env, tables, sync, kill>>
      BY <1>1, <1>8 DEF ReaderPasses, TypeOK
    <2> HIDE DEF st
    <2>3. QED
      BY <1>1, <1>3, <2>1, <2>2 DEF TypeOK, tables
  <1>9. ASSUME NEW s \in Sessions, ReaderUpsertSource(r, s) PROVE SessionInv'
    <2> DEFINE st == [[[reader[r] EXCEPT !.pc = "row"] EXCEPT !.cur = {s}]
                        EXCEPT !.work = @ \ {s}]
    <2>1. st \in ReaderState /\ st.pc # "new"
      BY <1>2 DEF ReaderState
    <2>2. reader' = [reader EXCEPT ![r] = st] /\ UNCHANGED <<env, sync, kill, activity>>
      BY <1>1, <1>2, <1>9 DEF ReaderUpsertSource, TypeOK, ReaderState
    <2>3. /\ assign' \in [Sessions -> RowState] /\ source' \in [Sessions -> RowState]
          /\ seenAt' \in [Sessions -> 0 .. MaxTime]
      BY <1>1, <1>9, Statements DEF ReaderUpsertSource, TypeOK
    <2> HIDE DEF st
    <2>4. QED
      BY <1>3, <2>1, <2>2, <2>3
  <1>10. CASE ReaderUpsertRow(r)
    <2> DEFINE st == [[reader[r] EXCEPT !.pc = "upsert"] EXCEPT !.cur = {}]
    <2>1. st \in ReaderState /\ st.pc # "new" /\ reader[r].at \in 0 .. MaxTime
      BY <1>2 DEF ReaderState
    <2>2. reader' = [reader EXCEPT ![r] = st] /\ UNCHANGED <<env, sync, kill, activity>>
      BY <1>1, <1>2, <1>10 DEF ReaderUpsertRow, TypeOK, ReaderState
    <2>3. /\ assign' \in [Sessions -> RowState] /\ source' \in [Sessions -> RowState]
          /\ seenAt' \in [Sessions -> 0 .. MaxTime]
      BY <1>1, <1>10, <2>1, Statements, SeenAtType DEF ReaderUpsertRow, TypeOK
    <2> HIDE DEF st
    <2>4. QED
      BY <1>3, <2>1, <2>2, <2>3
  <1>11. CASE ReaderNext(r)
    <2> DEFINE st == [reader[r] EXCEPT !.pc = "poll"]
    <2>1. st \in ReaderState /\ st.pc # "new"
      BY <1>2 DEF ReaderState
    <2>2. reader' = [reader EXCEPT ![r] = st] /\ UNCHANGED <<env, tables, sync, kill>>
      BY <1>1, <1>11 DEF ReaderNext, TypeOK
    <2> HIDE DEF st
    <2>3. QED
      BY <1>1, <1>3, <2>1, <2>2 DEF TypeOK, tables
  <1>12. CASE ReaderEnds(r)
    <2> DEFINE st == [NewReader EXCEPT !.pc = "done"]
    <2>1. st \in ReaderState /\ st.pc # "new"
      BY NewReaderType DEF ReaderState, NewReader
    <2>2. reader' = [reader EXCEPT ![r] = st] /\ UNCHANGED <<env, tables, sync, kill>>
      BY <1>12 DEF ReaderEnds
    <2> HIDE DEF st
    <2>3. QED
      BY <1>1, <1>3, <2>1, <2>2 DEF TypeOK, tables
  <1>13. QED
    BY <1>4, <1>5, <1>6, <1>7, <1>8, <1>9, <1>10, <1>11, <1>12 DEF ReaderStep

-----------------------------------------------------------------------------
(* The steps of the worker *)

\* A step of the worker: the environment and the requests stay as they are.
LEMMA WorkerKeeps ==
  ASSUME SessionInv, UNCHANGED <<env, reader, kill>>, sync' \in SyncState,
         assign' \in [Sessions -> RowState], source' \in [Sessions -> RowState],
         seenAt' \in [Sessions -> 0 .. MaxTime],
         activity' \in [Sessions -> {"never", "set", "cleared"}],
         NoReader => \A s \in Sessions \ (live \cup past) : Unrecorded(s)' /\ s \notin sync'.list,
         ListInv', WorkInv', SeenInv', EndedMeansGone'
  PROVE  SessionInv'
  <1>1. TypeOK'
    BY DEF SessionInv, TypeOK, env
  <1>2. LifeInv' /\ KillInv'
    BY DEF SessionInv, LifeInv, KillInv, NoReader, env
  <1>3. QED
    BY <1>1, <1>2 DEF SessionInv

\* One that leaves the tables alone and learns of no session.
LEMMA WorkerReads ==
  ASSUME SessionInv, UNCHANGED <<env, reader, kill, tables>>, sync' \in SyncState,
         sync'.list \subseteq sync.list, sync'.ok \subseteq sync.ok,
         sync'.list = sync.list \/ sync'.ok = {},
         WorkInv', SeenInv'
  PROVE  SessionInv'
  <1>1. ListInv'
    BY DEF SessionInv, ListInv, Unrecorded, NoReader, env, tables
  <1>2. EndedMeansGone'
    BY DEF SessionInv, EndedMeansGone, NoReader, env, tables
  <1>3. NoReader => \A s \in Sessions \ (live \cup past) : Unrecorded(s)' /\ s \notin sync'.list
    BY DEF SessionInv, LifeInv, Unrecorded, tables
  <1>4. QED
    BY <1>1, <1>2, <1>3, WorkerKeeps DEF SessionInv, TypeOK, tables

LEMMA PollInv ==
  ASSUME SessionInv,
         \/ StartSync \/ EndSync \/ PollEnds
         \/ \E n \in Nodes : PollOk(n) \/ PollFails(n)
  PROVE  SessionInv'
  <1>1. TypeOK /\ sync \in SyncState /\ WorkInv
    BY DEF SessionInv, TypeOK
  <1>2. CASE StartSync
    <2>1. sync' \in SyncState
      BY <1>1, <1>2, IdleSyncType, SessionsAssumption DEF StartSync, SyncState, TypeOK, IdleSync
    <2>2. /\ sync'.pc = "poll" /\ sync'.list = {} /\ sync'.ok = {} /\ sync'.cur = {}
          /\ sync'.node = {} /\ UNCHANGED <<env, reader, kill, tables>>
      BY <1>2 DEF StartSync, IdleSync
    <2>3. WorkInv' /\ SeenInv'
      BY <2>2 DEF WorkInv, SeenInv
    <2>4. QED
      BY <2>1, <2>2, <2>3, WorkerReads
  <1>3. CASE EndSync
    <2>1. /\ sync'.pc = "idle" /\ sync'.list = {} /\ sync'.ok = {} /\ sync'.cur = {}
          /\ sync'.node = {} /\ UNCHANGED <<env, reader, kill, tables>>
      BY <1>3 DEF EndSync, IdleSync
    <2>2. WorkInv' /\ SeenInv'
      BY <2>1 DEF WorkInv, SeenInv
    <2>3. QED
      BY <1>3, <2>1, <2>2, IdleSyncType, WorkerReads DEF EndSync
  <1>4. CASE PollEnds
    <2>1. /\ sync' \in SyncState /\ UNCHANGED <<env, reader, kill, tables>>
          /\ sync'.pc = "upsert" /\ sync'.list = sync.list /\ sync'.ok = sync.ok
          /\ sync'.cur = sync.cur /\ sync'.node = sync.node
          /\ sync'.work = sync.list /\ sync'.todo = sync.ok
      BY <1>1, <1>4 DEF PollEnds, SyncState, TypeOK
    <2>2. WorkInv' /\ SeenInv'
      BY <1>1, <2>1 DEF WorkInv, SeenInv
    <2>3. QED
      BY <2>1, <2>2, WorkerReads
  <1>5. ASSUME NEW n \in Nodes, PollFails(n) PROVE SessionInv'
    <2>1. /\ sync' \in SyncState /\ UNCHANGED <<env, reader, kill, tables>>
          /\ sync'.pc = "poll" /\ sync'.list = sync.list /\ sync'.ok = sync.ok
          /\ sync'.cur = sync.cur /\ sync'.node = sync.node
      BY <1>1, <1>5 DEF PollFails, SyncState
    <2>2. WorkInv' /\ SeenInv'
      BY <1>1, <2>1 DEF WorkInv, SeenInv
    <2>3. QED
      BY <2>1, <2>2, WorkerReads
  <1>6. ASSUME NEW n \in Nodes, PollOk(n) PROVE SessionInv'
    <2>1. ClientsList(n) \subseteq live /\ live \subseteq Sessions
      BY <1>1 DEF ClientsList, TypeOK
    <2>2. /\ sync' \in SyncState /\ UNCHANGED <<env, reader, kill, tables>>
          /\ sync'.pc = "poll" /\ sync'.list = sync.list \cup ClientsList(n)
          /\ sync'.ok = sync.ok \cup {n}
          /\ sync'.cur = sync.cur /\ sync'.node = sync.node
      BY <1>1, <1>6, <2>1 DEF PollOk, SyncState
    <2>3. WorkInv' /\ SeenInv'
      BY <1>1, <2>2 DEF WorkInv, SeenInv
    <2>4. ListInv'
      BY <2>2 DEF SessionInv, ListInv, Unrecorded, NoReader, ClientsList, env, tables
    <2>5. EndedMeansGone'
      BY <2>2 DEF SessionInv, EndedMeansGone, NoReader, env, tables
    <2>6. NoReader => \A s \in Sessions \ (live \cup past) : Unrecorded(s)' /\ s \notin sync'.list
      BY <2>1, <2>2 DEF SessionInv, LifeInv, Unrecorded, tables
    <2>7. QED
      BY <1>1, <2>2, <2>3, <2>4, <2>5, <2>6, WorkerKeeps DEF TypeOK, tables
  <1>7. QED
    BY <1>2, <1>3, <1>4, <1>5, <1>6

LEMMA UpsertInv ==
  ASSUME SessionInv,
         \/ \E s \in Sessions : SyncUpsertSource(s)
         \/ SyncUpsertRow \/ UpsertEnds
  PROVE  SessionInv'
  <1>1. TypeOK /\ sync \in SyncState /\ WorkInv /\ SeenInv /\ LifeInv /\ ListInv /\ EndedMeansGone
    BY DEF SessionInv, TypeOK
  <1>2. ASSUME NEW s \in Sessions, SyncUpsertSource(s) PROVE SessionInv'
    <2>1. /\ sync' \in SyncState /\ UNCHANGED <<env, reader, kill, assign, seenAt, activity>>
          /\ sync.pc = "upsert" /\ s \in sync.work
          /\ sync'.pc = "row" /\ sync'.list = sync.list /\ sync'.ok = sync.ok
          /\ sync'.cur = {s} /\ sync'.node = sync.node /\ sync'.work = sync.work \ {s}
          /\ sync'.todo = sync.todo /\ sync'.at = sync.at
      BY <1>1, <1>2 DEF SyncUpsertSource, SyncState
    <2>2. /\ source' \in [Sessions -> RowState]
          /\ source'[s] = "open" /\ \A t \in Sessions : t # s => source'[t] = source[t]
      <3>1. source \in [Sessions -> RowState] /\ source' = Upserted(source, {s})
        BY <1>1, <1>2 DEF SyncUpsertSource, TypeOK
      <3>2. Upserted(source, {s}) \in [Sessions -> RowState]
        BY <3>1, Statements
      <3>3. QED
        BY <3>1, <3>2 DEF Upserted
    <2>3. s \in sync.list
      BY <1>1, <2>1 DEF WorkInv
    <2>4. WorkInv' /\ SeenInv'
      BY <1>1, <2>1, <2>3 DEF WorkInv, SeenInv, NoReader
    <2>5. ListInv' /\ EndedMeansGone'
      BY <1>1, <2>1, <2>2, <2>3 DEF ListInv, EndedMeansGone, Unrecorded, NoReader, TypeOK, env
    <2>6. NoReader => \A t \in Sessions \ (live \cup past) : Unrecorded(t)' /\ t \notin sync'.list
      BY <1>1, <2>1, <2>2, <2>3 DEF LifeInv, Unrecorded
    <2>7. QED
      BY <1>1, <2>1, <2>2, <2>4, <2>5, <2>6, WorkerKeeps DEF TypeOK
  <1>3. CASE SyncUpsertRow
    <2>1. /\ sync' \in SyncState /\ UNCHANGED <<env, reader, kill, source, activity>>
          /\ sync.pc = "row"
          /\ sync'.pc = "upsert" /\ sync'.list = sync.list /\ sync'.ok = sync.ok
          /\ sync'.cur = {} /\ sync'.node = sync.node /\ sync'.work = sync.work
          /\ sync'.todo = sync.todo /\ sync'.at = sync.at
      BY <1>1, <1>3 DEF SyncUpsertRow, SyncState
    <2>2. /\ assign' \in [Sessions -> RowState]
          /\ \A t \in Sessions : assign'[t] = IF t \in sync.cur THEN "open" ELSE assign[t]
      BY <1>1, <1>3, Statements DEF SyncUpsertRow, Upserted, TypeOK
    <2>3. /\ seenAt' \in [Sessions -> 0 .. MaxTime]
          /\ \A t \in Sessions : seenAt'[t] = IF t \in sync.cur THEN sync.at ELSE seenAt[t]
      BY <1>1, <1>3, SeenAtType DEF SyncUpsertRow, SeenAt, TypeOK, SyncState
    <2>4. sync.cur \subseteq sync.list /\ sync.list \subseteq Sessions
      BY <1>1 DEF WorkInv, SyncState
    <2>5. WorkInv' /\ SeenInv'
      BY <1>1, <2>1, <2>3, <2>4 DEF WorkInv, SeenInv, NoReader
    <2>6. ListInv' /\ EndedMeansGone'
      BY <1>1, <2>1, <2>2, <2>4 DEF ListInv, EndedMeansGone, Unrecorded, NoReader, TypeOK, env
    <2>7. NoReader => \A t \in Sessions \ (live \cup past) : Unrecorded(t)' /\ t \notin sync'.list
      BY <1>1, <2>1, <2>2, <2>4 DEF LifeInv, Unrecorded
    <2>8. QED
      BY <1>1, <2>1, <2>2, <2>3, <2>5, <2>6, <2>7, WorkerKeeps DEF TypeOK
  <1>4. CASE UpsertEnds
    <2>1. /\ sync' \in SyncState /\ UNCHANGED <<env, reader, kill, tables>>
          /\ sync.pc = "upsert" /\ sync.work = {}
          /\ sync'.pc = "close" /\ sync'.list = sync.list /\ sync'.ok = sync.ok
          /\ sync'.cur = sync.cur /\ sync'.node = sync.node
          /\ sync'.todo = sync.todo /\ sync'.at = sync.at
      BY <1>1, <1>4 DEF UpsertEnds, SyncState
    <2>2. WorkInv' /\ SeenInv'
      BY <1>1, <2>1 DEF WorkInv, SeenInv, NoReader, tables
    <2>3. QED
      BY <2>1, <2>2, WorkerReads
  <1>5. QED
    BY <1>2, <1>3, <1>4

\* What is closed for a node that answered is over or has no row.
LEMMA UnlistedGone ==
  ASSUME SessionInv, NoReader, NEW ns \in SUBSET sync.ok, NEW s \in Unlisted(ns)
  PROVE  s \in past \/ Unrecorded(s)
  BY DEF SessionInv, LifeInv, ListInv, Unlisted

LEMMA CloseInv ==
  ASSUME SessionInv,
         \/ \E n \in Nodes : CloseStale(n)
         \/ SelectSources \/ EndSourcesEnds \/ SelectOpenRows \/ EndOpenEnds
         \/ \E s \in Sessions : EndSource(s)
  PROVE  SessionInv'
  <1>1. TypeOK /\ sync \in SyncState /\ WorkInv /\ SeenInv /\ LifeInv /\ ListInv /\ EndedMeansGone
    BY DEF SessionInv, TypeOK
  <1>2. ASSUME NEW n \in Nodes, CloseStale(n) PROVE SessionInv'
    <2>1. /\ sync' \in SyncState /\ UNCHANGED <<env, reader, kill, source, seenAt, activity>>
          /\ sync.pc = "close" /\ n \in sync.todo
          /\ sync'.pc = "select" /\ sync'.list = sync.list /\ sync'.ok = sync.ok
          /\ sync'.cur = sync.cur /\ sync'.node = {n} /\ sync'.work = sync.work
          /\ sync'.todo = sync.todo \ {n} /\ sync'.at = sync.at
      BY <1>1, <1>2 DEF CloseStale, SyncState
    <2>2. n \in sync.ok
      BY <1>1, <2>1 DEF WorkInv
    <2>3. /\ assign' \in [Sessions -> RowState]
          /\ \A s \in Sessions : \/ assign'[s] = assign[s]
                                 \/ assign[s] = "open" /\ s \in Unlisted({n})
      BY <1>1, <1>2, Statements DEF CloseStale, Ended, TypeOK
    <2>4. NoReader => \A s \in live : assign'[s] = assign[s]
      BY <1>1, <2>2, <2>3, UnlistedGone DEF Unrecorded, TypeOK, LifeInv
    <2>5. WorkInv' /\ SeenInv'
      BY <1>1, <2>1, <2>2 DEF WorkInv, SeenInv, NoReader
    <2>6. ListInv' /\ EndedMeansGone'
      BY <1>1, <2>1, <2>3, <2>4 DEF ListInv, EndedMeansGone, Unrecorded, NoReader, TypeOK, env
    <2>7. NoReader => \A t \in Sessions \ (live \cup past) : Unrecorded(t)' /\ t \notin sync'.list
      BY <1>1, <2>1, <2>3 DEF LifeInv, Unrecorded
    <2>8. QED
      BY <1>1, <2>1, <2>3, <2>5, <2>6, <2>7, WorkerKeeps DEF TypeOK
  <1>3. CASE SelectSources
    <2>1. Open(source) \cap Unlisted(sync.node) \subseteq Sessions
      BY DEF Open
    <2>2. /\ sync' \in SyncState /\ UNCHANGED <<env, reader, kill, tables>>
          /\ sync.pc = "select"
          /\ sync'.pc = "endsrc" /\ sync'.list = sync.list /\ sync'.ok = sync.ok
          /\ sync'.cur = sync.cur /\ sync'.node = sync.node
          /\ sync'.work = Open(source) \cap Unlisted(sync.node)
          /\ sync'.todo = sync.todo /\ sync'.at = sync.at
      BY <1>1, <1>3, <2>1 DEF SelectSources, SyncState
    <2>3. sync.node \in SUBSET sync.ok
      BY <1>1 DEF WorkInv
    <2>4. NoReader => sync'.work \subseteq past
      BY <2>2, <2>3, UnlistedGone DEF Open, Unrecorded
    <2>5. WorkInv' /\ SeenInv'
      BY <1>1, <2>2, <2>4 DEF WorkInv, SeenInv, NoReader, env, tables
    <2>6. QED
      BY <2>2, <2>5, WorkerReads
  <1>4. CASE SelectOpenRows
    <2>1. Open(source) \cap Unlisted(sync.ok) \subseteq Sessions
      BY DEF Open
    <2>2. /\ sync' \in SyncState /\ UNCHANGED <<env, reader, kill, tables>>
          /\ sync.pc = "close"
          /\ sync'.pc = "endopen" /\ sync'.list = sync.list /\ sync'.ok = sync.ok
          /\ sync'.cur = sync.cur /\ sync'.node = sync.node
          /\ sync'.work = Open(source) \cap Unlisted(sync.ok)
          /\ sync'.todo = sync.todo /\ sync'.at = sync.at
      BY <1>1, <1>4, <2>1 DEF SelectOpenRows, SyncState
    <2>3. NoReader => sync'.work \subseteq past
      BY <2>2, UnlistedGone DEF Open, Unrecorded
    <2>4. WorkInv' /\ SeenInv'
      BY <1>1, <2>2, <2>3 DEF WorkInv, SeenInv, NoReader, env, tables
    <2>5. QED
      BY <2>2, <2>4, WorkerReads
  <1>5. CASE EndSourcesEnds
    <2>1. /\ sync' \in SyncState /\ UNCHANGED <<env, reader, kill, tables>>
          /\ sync.pc = "endsrc"
          /\ sync'.pc = "close" /\ sync'.list = sync.list /\ sync'.ok = sync.ok
          /\ sync'.cur = sync.cur /\ sync'.node = {}
          /\ sync'.todo = sync.todo /\ sync'.at = sync.at
      BY <1>1, <1>5 DEF EndSourcesEnds, SyncState
    <2>2. WorkInv' /\ SeenInv'
      BY <1>1, <2>1 DEF WorkInv, SeenInv, NoReader, tables
    <2>3. QED
      BY <2>1, <2>2, WorkerReads
  <1>6. CASE EndOpenEnds
    <2>1. /\ sync' \in SyncState /\ UNCHANGED <<env, reader, kill, tables>>
          /\ sync.pc = "endopen"
          /\ sync'.pc \in {"fresh", "clear"} /\ sync'.list = sync.list /\ sync'.ok = sync.ok
          /\ sync'.cur = sync.cur /\ sync'.node = sync.node
          /\ sync'.todo = sync.ok /\ sync'.at = sync.at
      BY <1>1, <1>6 DEF EndOpenEnds, SyncState
    <2>2. WorkInv' /\ SeenInv'
      BY <1>1, <2>1 DEF WorkInv, SeenInv, NoReader, tables
    <2>3. QED
      BY <2>1, <2>2, WorkerReads
  <1>7. ASSUME NEW s \in Sessions, EndSource(s) PROVE SessionInv'
    <2>1. /\ sync' \in SyncState /\ UNCHANGED <<env, reader, kill, assign, seenAt, activity>>
          /\ sync.pc \in {"endsrc", "endopen"} /\ s \in sync.work
          /\ sync'.pc = sync.pc /\ sync'.list = sync.list /\ sync'.ok = sync.ok
          /\ sync'.cur = sync.cur /\ sync'.node = sync.node /\ sync'.work = sync.work \ {s}
          /\ sync'.todo = sync.todo /\ sync'.at = sync.at
      BY <1>1, <1>7 DEF EndSource, SyncState
    <2>2. /\ source' \in [Sessions -> RowState]
          /\ source'[s] = "ended" /\ \A t \in Sessions : t # s => source'[t] = source[t]
      BY <1>1, <1>7 DEF EndSource, TypeOK, RowState
    <2>3. NoReader => s \in past /\ s \notin live
      BY <1>1, <2>1 DEF WorkInv, LifeInv
    <2>4. WorkInv' /\ SeenInv'
      BY <1>1, <2>1 DEF WorkInv, SeenInv, NoReader, env
    <2>5. ListInv' /\ EndedMeansGone'
      BY <1>1, <2>1, <2>2, <2>3 DEF ListInv, EndedMeansGone, Unrecorded, NoReader, TypeOK, env
    <2>6. NoReader => \A t \in Sessions \ (live \cup past) : Unrecorded(t)' /\ t \notin sync'.list
      BY <1>1, <2>1, <2>2, <2>3 DEF LifeInv, Unrecorded
    <2>7. QED
      BY <1>1, <2>1, <2>2, <2>4, <2>5, <2>6, WorkerKeeps DEF TypeOK
  <1>8. QED
    BY <1>2, <1>3, <1>4, <1>5, <1>6, <1>7

LEMMA FinishInv ==
  ASSUME SessionInv,
         \/ ClearActivity \/ MarkActivity
         \/ \E n \in Nodes : CloseUnfresh(n)
  PROVE  SessionInv'
  <1>1. TypeOK /\ sync \in SyncState /\ WorkInv /\ SeenInv /\ LifeInv /\ ListInv /\ EndedMeansGone
    BY DEF SessionInv, TypeOK
  <1>2. CASE ClearActivity \/ MarkActivity
    <2>1. /\ sync' \in SyncState /\ UNCHANGED <<env, reader, kill, assign, source, seenAt>>
          /\ sync.pc \in {"clear", "mark"}
          /\ sync'.pc \in {"mark", "fresh"} /\ sync'.list = sync.list /\ sync'.ok = sync.ok
          /\ sync'.cur = sync.cur /\ sync'.node = sync.node
          /\ sync'.todo = sync.todo /\ sync'.at = sync.at
      BY <1>1, <1>2 DEF ClearActivity, MarkActivity, SyncState
    <2>2. activity' \in [Sessions -> {"never", "set", "cleared"}]
      BY <1>1, <1>2 DEF ClearActivity, MarkActivity, TypeOK
    <2>3. WorkInv' /\ SeenInv'
      BY <1>1, <2>1 DEF WorkInv, SeenInv, NoReader
    <2>4. ListInv' /\ EndedMeansGone'
      BY <1>1, <2>1 DEF ListInv, EndedMeansGone, Unrecorded, NoReader, env
    <2>5. NoReader => \A t \in Sessions \ (live \cup past) : Unrecorded(t)' /\ t \notin sync'.list
      BY <1>1, <2>1 DEF LifeInv, Unrecorded
    <2>6. QED
      BY <1>1, <2>1, <2>2, <2>3, <2>4, <2>5, WorkerKeeps DEF TypeOK
  <1>3. ASSUME NEW n \in Nodes, CloseUnfresh(n) PROVE SessionInv'
    <2>1. /\ sync' \in SyncState /\ UNCHANGED <<env, reader, kill, source, seenAt, activity>>
          /\ sync.pc = "fresh" /\ n \in sync.todo
          /\ sync'.pc = sync.pc /\ sync'.list = sync.list /\ sync'.ok = sync.ok
          /\ sync'.cur = sync.cur /\ sync'.node = sync.node /\ sync'.work = sync.work
          /\ sync'.todo = sync.todo \ {n} /\ sync'.at = sync.at
      BY <1>1, <1>3 DEF CloseUnfresh, SyncState
    <2>2. n \in sync.ok
      BY <1>1, <2>1 DEF WorkInv
    <2>3. /\ assign' \in [Sessions -> RowState]
          /\ \A s \in Sessions : \/ assign'[s] = assign[s]
                                 \/ /\ assign[s] = "open" /\ NodeOf[s] = n
                                    /\ seenAt[s] + Freshness < sync.at
      BY <1>1, <1>3, Statements DEF CloseUnfresh, Ended, TypeOK
    <2>4. ASSUME NoReader, NEW s \in live PROVE assign'[s] = assign[s]
      <3>1. s \in Sessions /\ seenAt[s] \in Nat /\ sync.at \in Nat
        BY <1>1, Times DEF TypeOK, SyncState
      <3>2. CASE s \in sync.list
        <4>1. seenAt[s] = sync.at
          BY <1>1, <2>1, <2>4, <3>2 DEF SeenInv
        <4>2. QED
          BY <2>3, <3>1, <4>1, SessionsAssumption
      <3>3. CASE s \notin sync.list
        BY <1>1, <2>2, <2>3, <2>4, <3>1, <3>3 DEF ListInv, Unrecorded
      <3>4. QED
        BY <3>2, <3>3
    <2>5. WorkInv' /\ SeenInv'
      BY <1>1, <2>1 DEF WorkInv, SeenInv, NoReader
    <2>6. ListInv' /\ EndedMeansGone'
      BY <1>1, <2>1, <2>3, <2>4 DEF ListInv, EndedMeansGone, Unrecorded, NoReader, TypeOK, env
    <2>7. NoReader => \A t \in Sessions \ (live \cup past) : Unrecorded(t)' /\ t \notin sync'.list
      BY <1>1, <2>1, <2>3 DEF LifeInv, Unrecorded
    <2>8. QED
      BY <1>1, <2>1, <2>3, <2>5, <2>6, <2>7, WorkerKeeps DEF TypeOK
  <1>4. QED
    BY <1>2, <1>3

-----------------------------------------------------------------------------
(* OpenVPN, time, disconnects and crashes *)

LEMMA EnvInv ==
  ASSUME SessionInv,
         \/ \E s \in Sessions : Connect(s) \/ Leave(s)
         \/ Tick
  PROVE  SessionInv'
  <1>1. TypeOK /\ WorkInv /\ SeenInv /\ LifeInv /\ ListInv /\ EndedMeansGone /\ KillInv
    BY DEF SessionInv
  <1>2. ASSUME NEW s \in Sessions, Connect(s) PROVE SessionInv'
    <2>1. /\ s \notin live /\ s \notin past /\ live' = live \cup {s}
          /\ UNCHANGED <<clock, past, tables, sync, reader, kill, crashes, scene>>
      BY <1>2 DEF Connect
    <2>2. TypeOK'
      BY <1>1, <2>1 DEF TypeOK, tables
    <2>3. NoReader => Unrecorded(s)
      BY <1>1, <2>1 DEF LifeInv
    <2>4. LifeInv' /\ ListInv'
      BY <1>1, <2>1, <2>3 DEF LifeInv, ListInv, Unrecorded, NoReader, tables
    <2>5. WorkInv' /\ SeenInv' /\ KillInv'
      BY <1>1, <2>1 DEF WorkInv, SeenInv, KillInv, NoReader, tables
    <2>6. EndedMeansGone'
      BY <1>1, <2>1, <2>3 DEF EndedMeansGone, Unrecorded, NoReader, tables
    <2>7. QED
      BY <2>2, <2>4, <2>5, <2>6 DEF SessionInv
  <1>3. ASSUME NEW s \in Sessions, Leave(s) PROVE SessionInv'
    <2>1. /\ s \in live /\ live' = live \ {s} /\ past' = past \cup {s}
          /\ UNCHANGED <<clock, tables, sync, reader, kill, crashes, scene>>
      BY <1>3 DEF Leave
    <2>2. TypeOK'
      BY <1>1, <2>1 DEF TypeOK, tables
    <2>3. LifeInv' /\ ListInv'
      BY <1>1, <2>1 DEF LifeInv, ListInv, Unrecorded, NoReader, tables
    <2>4. WorkInv' /\ SeenInv' /\ KillInv'
      BY <1>1, <2>1 DEF WorkInv, SeenInv, KillInv, NoReader, tables
    <2>5. EndedMeansGone'
      BY <1>1, <2>1 DEF EndedMeansGone, NoReader, tables
    <2>6. QED
      BY <2>2, <2>3, <2>4, <2>5 DEF SessionInv
  <1>4. CASE Tick
    <2>1. clock' \in 0 .. MaxTime
          /\ UNCHANGED <<live, past, tables, sync, reader, kill, crashes, scene>>
      BY <1>1, <1>4, SessionsAssumption DEF Tick, TypeOK
    <2>2. TypeOK'
      BY <1>1, <2>1 DEF TypeOK, tables
    <2>3. LifeInv' /\ ListInv' /\ EndedMeansGone'
      BY <1>1, <2>1 DEF LifeInv, ListInv, EndedMeansGone, Unrecorded, NoReader, tables
    <2>4. WorkInv' /\ SeenInv' /\ KillInv'
      BY <1>1, <2>1 DEF WorkInv, SeenInv, KillInv, NoReader, tables
    <2>5. QED
      BY <2>2, <2>3, <2>4 DEF SessionInv
  <1>5. QED
    BY <1>2, <1>3, <1>4

\* A step of a disconnect that closes rows of sessions that are over.
LEMMA KillCloses ==
  ASSUME SessionInv, UNCHANGED <<env, seenAt, activity, sync, reader>>,
         kill' \in [Kills -> KillState], KillInv',
         assign' \in [Sessions -> RowState], source' \in [Sessions -> RowState],
         \A s \in Sessions \ past : assign'[s] = assign[s] /\ source'[s] = source[s]
  PROVE  SessionInv'
  <1>1. TypeOK /\ WorkInv /\ SeenInv /\ LifeInv /\ ListInv /\ EndedMeansGone
    BY DEF SessionInv
  <1>2. TypeOK'
    BY <1>1 DEF TypeOK, env
  <1>3. LifeInv' /\ ListInv' /\ EndedMeansGone'
    BY <1>1 DEF LifeInv, ListInv, EndedMeansGone, Unrecorded, NoReader, TypeOK, env
  <1>4. WorkInv' /\ SeenInv'
    BY <1>1 DEF WorkInv, SeenInv, NoReader, env
  <1>5. QED
    BY <1>2, <1>3, <1>4 DEF SessionInv

LEMMA KillStepInv ==
  ASSUME SessionInv, NEW k \in Kills, KillStep(k)
  PROVE  SessionInv'
  <1>1. TypeOK /\ KillInv /\ WorkInv /\ SeenInv /\ LifeInv /\ ListInv /\ EndedMeansGone
    BY DEF SessionInv
  <1>2. kill[k] \in KillState
    BY <1>1 DEF TypeOK
  <1>3. ASSUME NEW s \in Sessions, KillCall(k, s) PROVE SessionInv'
    <2>1. /\ s \in live /\ live' = live \ {s} /\ past' = past \cup {s}
          /\ kill' = [kill EXCEPT ![k].pc = "row", ![k].of = {s}]
          /\ UNCHANGED <<clock, tables, sync, reader, crashes, scene>>
      BY <1>3 DEF KillCall
    <2>2. kill[k].pc = "new" /\ kill[k].work \subseteq kill[k].of
      BY <1>1, <1>3 DEF KillCall, KillInv
    <2>3. kill' \in [Kills -> KillState]
      BY <1>1, <1>2, <2>1 DEF TypeOK, KillState
    <2>4. TypeOK'
      BY <1>1, <2>1, <2>3 DEF TypeOK, tables
    <2>5. KillInv'
      BY <1>1, <1>2, <1>3, <2>1, <2>2 DEF KillInv, TypeOK, KillState
    <2>6. LifeInv' /\ ListInv' /\ EndedMeansGone'
      BY <1>1, <2>1 DEF LifeInv, ListInv, EndedMeansGone, Unrecorded, NoReader, tables
    <2>7. WorkInv' /\ SeenInv'
      BY <1>1, <2>1 DEF WorkInv, SeenInv, NoReader, tables
    <2>8. QED
      BY <2>4, <2>5, <2>6, <2>7 DEF SessionInv
  <1>4. CASE KillRow(k)
    <2>1. kill' = [kill EXCEPT ![k].pc = "select"] /\ assign' = Ended(assign, kill[k].of)
          /\ UNCHANGED <<env, seenAt, source, activity, sync, reader>>
      BY <1>4 DEF KillRow
    <2>2. kill' \in [Kills -> KillState] /\ KillInv'
      BY <1>1, <1>2, <2>1 DEF TypeOK, KillState, KillInv, env
    <2>3. /\ assign' \in [Sessions -> RowState]
          /\ \A s \in Sessions \ past : assign'[s] = assign[s]
      BY <1>1, <2>1, Statements DEF TypeOK, KillInv, Ended
    <2>4. QED
      BY <1>1, <2>1, <2>2, <2>3, KillCloses DEF TypeOK
  <1>5. CASE KillSelect(k)
    <2>1. kill' = [kill EXCEPT ![k].pc = "endsrc", ![k].work = Open(source) \cap kill[k].of]
          /\ UNCHANGED <<env, tables, sync, reader>>
      BY <1>5 DEF KillSelect
    <2>2. Open(source) \cap kill[k].of \in SUBSET Sessions
      BY DEF Open
    <2>3. kill' \in [Kills -> KillState]
      BY <1>1, <1>2, <2>1, <2>2 DEF TypeOK, KillState
    <2>4. KillInv'
      BY <1>1, <1>2, <2>1, <2>2 DEF TypeOK, KillState, KillInv, env
    <2>5. QED
      BY <1>1, <2>1, <2>3, <2>4, KillCloses DEF TypeOK, tables
  <1>6. CASE KillEndSource(k)
    <2>1. /\ kill' = [kill EXCEPT ![k].pc = "done", ![k].work = {}]
          /\ source' = [s \in Sessions |-> IF s \in kill[k].work THEN "ended" ELSE source[s]]
          /\ UNCHANGED <<env, assign, seenAt, activity, sync, reader>>
      BY <1>6 DEF KillEndSource
    <2>2. kill' \in [Kills -> KillState] /\ KillInv'
      BY <1>1, <1>2, <2>1 DEF TypeOK, KillState, KillInv, env
    <2>3. /\ source' \in [Sessions -> RowState]
          /\ \A s \in Sessions \ past : source'[s] = source[s]
      BY <1>1, <2>1 DEF TypeOK, KillInv, RowState
    <2>4. QED
      BY <1>1, <2>1, <2>2, <2>3, KillCloses DEF TypeOK
  <1>7. CASE KillGone(k)
    <2>1. kill' = [kill EXCEPT ![k].pc = "done", ![k].work = {}]
          /\ UNCHANGED <<env, tables, sync, reader>>
      BY <1>7 DEF KillGone
    <2>2. kill' \in [Kills -> KillState] /\ KillInv'
      BY <1>1, <1>2, <2>1 DEF TypeOK, KillState, KillInv, env
    <2>3. QED
      BY <1>1, <2>1, <2>2, KillCloses DEF TypeOK, tables
  <1>8. QED
    BY <1>3, <1>4, <1>5, <1>6, <1>7 DEF KillStep

LEMMA CrashInv == ASSUME SessionInv, Crash PROVE SessionInv'
  <1>1. TypeOK /\ LifeInv /\ EndedMeansGone /\ KillInv
    BY DEF SessionInv
  <1>2. sync' = IdleSync /\ UNCHANGED <<clock, live, past, tables, scene>>
    BY DEF Crash
  <1>3. crashes' \in 0 .. MaxCrashes
    <2>1. scene.crashes \in 0 .. MaxCrashes
      BY <1>1, SessionsAssumption DEF TypeOK
    <2>2. crashes \in 0 .. MaxCrashes /\ crashes < scene.crashes /\ crashes' = crashes + 1
      BY <1>1 DEF Crash, TypeOK
    <2>3. QED
      BY <2>1, <2>2, SessionsAssumption
  <1>4. /\ reader' \in [Readers -> ReaderState]
        /\ \A r \in Readers : reader'[r].pc = "new" => reader[r].pc = "new"
    <2>1. [NewReader EXCEPT !.pc = "done"] \in ReaderState
          /\ [NewReader EXCEPT !.pc = "done"].pc = "done"
      BY NewReaderType DEF ReaderState, NewReader
    <2>2. QED
      BY <1>1, <2>1 DEF Crash, TypeOK
  <1>5. /\ kill' \in [Kills -> KillState]
        /\ \A k \in Kills : kill'[k].of = kill[k].of /\ kill'[k].work \in {{}, kill[k].work}
    <2>1. ASSUME NEW k \in Kills
          PROVE  /\ [kill[k] EXCEPT !.pc = "done", !.work = {}] \in KillState
                 /\ [kill[k] EXCEPT !.pc = "done", !.work = {}].of = kill[k].of
                 /\ [kill[k] EXCEPT !.pc = "done", !.work = {}].work = {}
      BY <1>1 DEF TypeOK, KillState
    <2>2. QED
      BY <1>1, <2>1 DEF Crash, TypeOK
  <1>6. NoReader' => NoReader
    BY <1>4 DEF NoReader
  <1>7. TypeOK'
    BY <1>1, <1>2, <1>3, <1>4, <1>5, IdleSyncType DEF TypeOK, tables
  <1>8. sync'.pc = "idle" /\ sync'.list = {} /\ sync'.ok = {} /\ sync'.cur = {} /\ sync'.node = {}
    BY <1>2 DEF IdleSync
  <1>9. LifeInv' /\ ListInv' /\ EndedMeansGone'
    BY <1>1, <1>2, <1>6, <1>8 DEF LifeInv, ListInv, EndedMeansGone, Unrecorded, tables
  <1>10. WorkInv' /\ SeenInv' /\ KillInv'
    BY <1>1, <1>2, <1>5, <1>8 DEF WorkInv, SeenInv, KillInv
  <1>11. QED
    BY <1>7, <1>9, <1>10 DEF SessionInv

-----------------------------------------------------------------------------
LEMMA NextSessionInv == ASSUME SessionInv, [Next]_vars PROVE SessionInv'
  <1>1. CASE SyncStep
    BY <1>1, PollInv, UpsertInv, CloseInv, FinishInv DEF SyncStep
  <1>2. CASE UNCHANGED vars
    <2>1. UNCHANGED <<env, seenAt, activity, sync, reader, kill, assign, source>>
      BY <1>2 DEF vars, env
    <2>2. KillInv'
      BY <2>1 DEF SessionInv, KillInv, env
    <2>3. QED
      BY <2>1, <2>2, KillCloses DEF SessionInv, TypeOK
  <1>3. QED
    BY <1>1, <1>2, PollInv, EnvInv, ReaderInv, KillStepInv, CrashInv DEF Next

\* In every state: types, and what the worker and the disconnects are about to
\* close is over.  (SyncClientsSnapshot, CloseClientSessionInDB.)
THEOREM SessionInvariant == Spec => []SessionInv
  BY InitSessionInv, NextSessionInv, PTL DEF Spec

\* Until the first listing request, a session with endedAt in one of the two
\* tables is over, however polls, connects, disconnects and crashes interleave.
\* (ClientIpAssignment.endedAt and ClientSourceIpHistory.endedAt.)
THEOREM EndedSessionsAreGone == Spec => []EndedMeansGone
  <1>1. SessionInv => EndedMeansGone
    BY DEF SessionInv
  <1>2. QED
    BY <1>1, SessionInvariant, PTL
=============================================================================
