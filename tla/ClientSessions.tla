--------------------------- MODULE ClientSessions ---------------------------
(***************************************************************************)
(* The panel's record of VPN sessions: the tables ClientIpAssignment and   *)
(* ClientSourceIpHistory and VpnUser.lastVpnActivityAt.  They are written  *)
(* by the worker, which polls every agent and compares, by the requests    *)
(* that list sessions, which poll the agents too and add what is missing,  *)
(* and by the request that disconnects a client.  The answer of an agent   *)
(* is used some statements later; there is no lock and no transaction.     *)
(*                                                                         *)
(* A session has one source address and its own user.  The deletion of     *)
(* ended rows after 30 and 90 days is beyond the time modelled.            *)
(***************************************************************************)
EXTENDS Naturals, FiniteSets

CONSTANTS
    Nodes,
    Sessions,    \* session ids; an id is never used again
    NodeOf,      \* the node a session is on
    Listers,     \* requests GET /clients
    UserViews,   \* requests GET /vpn-users/{id}/vpn-sessions
    Kills,       \* requests POST /clients/{nodeId}/{id}/disconnect
    Freshness,   \* ClientSessionFreshness
    MaxTime,     \* bound: clock
    MaxCrashes,  \* bound: crashes of the panel
    Scenes       \* bound: which of all these are looked at together

Readers == Listers \cup UserViews

ASSUME SessionsAssumption ==
    /\ NodeOf \in [Sessions -> Nodes]
    /\ Listers \cap UserViews = {}
    /\ Freshness \in Nat
    /\ MaxTime \in Nat
    /\ MaxCrashes \in Nat
    /\ Scenes \subseteq [nodes: SUBSET Nodes, sessions: SUBSET Sessions,
                        requests: SUBSET (Readers \cup Kills),
                        crashes: 0 .. MaxCrashes]

VARIABLES
    clock,
    live,      \* sessions OpenVPN has now
    past,      \* sessions that are over
    assign,    \* ClientIpAssignment of each session: "none", "open", "ended"
    seenAt,    \* its lastSeenAt
    source,    \* ClientSourceIpHistory of each session
    activity,  \* lastVpnActivityAt: "never", "set", and "cleared" for NULL again
    sync,      \* the worker in SyncClientsSnapshot
    reader,    \* progress of every listing request
    kill,      \* progress of every disconnect request
    crashes,
    scene

env == <<clock, live, past, crashes, scene>>
tables == <<assign, seenAt, source, activity>>
vars == <<clock, live, past, assign, seenAt, source, activity, sync, reader,
          kill, crashes, scene>>

RowState == {"none", "open", "ended"}
SyncState == [pc: {"idle", "poll", "upsert", "row", "close", "select",
                   "endsrc", "openrows", "endopen", "clear", "mark", "fresh"},
              todo: SUBSET Nodes,       \* nodes left in the loop at hand
              ok: SUBSET Nodes,         \* nodes that answered
              list: SUBSET Sessions,    \* what they answered
              work: SUBSET Sessions,    \* rows left in the loop at hand
              cur: SUBSET Sessions,     \* the session being upserted
              node: SUBSET Nodes,       \* the node being closed
              at: 0 .. MaxTime]         \* now
IdleSync == [pc |-> "idle", todo |-> {}, ok |-> {}, list |-> {}, work |-> {},
             cur |-> {}, node |-> {}, at |-> 0]

ReaderState == [pc: {"new", "poll", "upsert", "row", "done"},
                todo: SUBSET Nodes, skip: SUBSET Sessions,
                work: SUBSET Sessions, cur: SUBSET Sessions, at: 0 .. MaxTime]
NewReader == [pc |-> "new", todo |-> {}, skip |-> {}, work |-> {}, cur |-> {},
              at |-> 0]

KillState == [pc: {"new", "row", "select", "endsrc", "done"},
              of: SUBSET Sessions, work: SUBSET Sessions]

TypeOK ==
    /\ clock \in 0 .. MaxTime
    /\ live \subseteq Sessions
    /\ past \subseteq Sessions
    /\ assign \in [Sessions -> RowState]
    /\ seenAt \in [Sessions -> 0 .. MaxTime]
    /\ source \in [Sessions -> RowState]
    /\ activity \in [Sessions -> {"never", "set", "cleared"}]
    /\ sync \in SyncState
    /\ reader \in [Readers -> ReaderState]
    /\ kill \in [Kills -> KillState]
    /\ crashes \in 0 .. MaxCrashes
    /\ scene \in Scenes

Init ==
    /\ clock = 0
    /\ live = {}
    /\ past = {}
    /\ assign = [s \in Sessions |-> "none"]
    /\ seenAt = [s \in Sessions |-> 0]
    /\ source = [s \in Sessions |-> "none"]
    /\ activity = [s \in Sessions |-> "never"]
    /\ sync = IdleSync
    /\ reader = [r \in Readers |-> NewReader]
    /\ kill = [k \in Kills |-> [pc |-> "new", of |-> {}, work |-> {}]]
    /\ crashes = 0
    /\ scene \in Scenes

-----------------------------------------------------------------------------
(* OpenVPN and time *)

Connect(s) ==
    /\ s \in scene.sessions \ (live \cup past)
    /\ live' = live \cup {s}
    /\ UNCHANGED <<clock, past, tables, sync, reader, kill, crashes, scene>>

Leave(s) ==
    /\ s \in live
    /\ live' = live \ {s}
    /\ past' = past \cup {s}
    /\ UNCHANGED <<clock, tables, sync, reader, kill, crashes, scene>>

Tick ==
    /\ clock < MaxTime
    /\ clock' = clock + 1
    /\ UNCHANGED <<live, past, tables, sync, reader, kill, crashes, scene>>

\* GET /clients of the agent of node n
ClientsList(n) == {s \in live : NodeOf[s] = n}

-----------------------------------------------------------------------------
(* Statements *)

Open(table) == {s \in Sessions : table[s] = "open"}

\* UPDATE ... SET endedAt WHERE endedAt IS NULL AND s in the set
Ended(table, ids) ==
    [s \in Sessions |-> IF s \in ids /\ table[s] = "open" THEN "ended"
                        ELSE table[s]]

\* INSERT ... ON CONFLICT DO UPDATE SET endedAt = NULL
Upserted(table, ids) ==
    [s \in Sessions |-> IF s \in ids THEN "open" ELSE table[s]]

\* Mutant: lastSeenAt is ahead of the clock.
SeenAtAhead(ids, at) ==
    [s \in Sessions |-> IF s \in ids THEN at + 1 ELSE seenAt[s]]

SeenAt(ids, at) == [s \in Sessions |-> IF s \in ids THEN at ELSE seenAt[s]]

\* The sessions of these nodes that the agents did not list.
Unlisted(nodes) == {s \in Sessions : NodeOf[s] \in nodes /\ s \notin sync.list}

-----------------------------------------------------------------------------
(* The worker: SyncClientsSnapshot *)

StartSync ==
    /\ sync.pc = "idle"
    /\ sync' = [IdleSync EXCEPT !.pc = "poll", !.todo = scene.nodes]
    /\ UNCHANGED <<env, tables, reader, kill>>

PollOk(n) ==
    /\ sync.pc = "poll"
    /\ n \in sync.todo
    /\ sync' = [sync EXCEPT !.todo = @ \ {n}, !.ok = @ \cup {n},
                            !.list = @ \cup ClientsList(n)]
    /\ UNCHANGED <<env, tables, reader, kill>>

\* Mutant: a failed poll counts as an empty list.
PollFailsAsEmpty(n) ==
    /\ sync.pc = "poll"
    /\ n \in sync.todo
    /\ sync' = [sync EXCEPT !.todo = @ \ {n}, !.ok = @ \cup {n}]
    /\ UNCHANGED <<env, tables, reader, kill>>

PollFails(n) ==
    /\ sync.pc = "poll"
    /\ n \in sync.todo
    /\ sync' = [sync EXCEPT !.todo = @ \ {n}]
    /\ UNCHANGED <<env, tables, reader, kill>>

\* Mutant: a round that lists nobody ends there.
PollEndsEarly ==
    /\ sync.pc = "poll"
    /\ sync.todo = {}
    /\ sync' = IF sync.list = {} THEN IdleSync
               ELSE [sync EXCEPT !.pc = "upsert", !.work = sync.list,
                                 !.todo = sync.ok, !.at = clock]
    /\ UNCHANGED <<env, tables, reader, kill>>

\* now is read after the polls
PollEnds ==
    /\ sync.pc = "poll"
    /\ sync.todo = {}
    /\ sync' = [sync EXCEPT !.pc = "upsert", !.work = sync.list,
                            !.todo = sync.ok, !.at = clock]
    /\ UNCHANGED <<env, tables, reader, kill>>

\* UpsertClientFromAgent: the source address, then the assignment
SyncUpsertSource(s) ==
    /\ sync.pc = "upsert"
    /\ s \in sync.work
    /\ source' = Upserted(source, {s})
    /\ sync' = [sync EXCEPT !.pc = "row", !.cur = {s}, !.work = @ \ {s}]
    /\ UNCHANGED <<env, assign, seenAt, activity, reader, kill>>

SyncUpsertRow ==
    /\ sync.pc = "row"
    /\ assign' = Upserted(assign, sync.cur)
    /\ seenAt' = SeenAt(sync.cur, sync.at)
    /\ sync' = [sync EXCEPT !.pc = "upsert", !.cur = {}]
    /\ UNCHANGED <<env, source, activity, reader, kill>>

UpsertEnds ==
    /\ sync.pc = "upsert"
    /\ sync.work = {}
    /\ sync' = [sync EXCEPT !.pc = "close"]
    /\ UNCHANGED <<env, tables, reader, kill>>

\* CloseStaleAssignmentsForNode
CloseStale(n) ==
    /\ sync.pc = "close"
    /\ n \in sync.todo
    /\ assign' = Ended(assign, Unlisted({n}))
    /\ sync' = [sync EXCEPT !.pc = "select", !.node = {n}, !.todo = @ \ {n}]
    /\ UNCHANGED <<env, seenAt, source, activity, reader, kill>>

SelectSources ==
    /\ sync.pc = "select"
    /\ sync' = [sync EXCEPT !.pc = "endsrc",
                            !.work = Open(source) \cap Unlisted(sync.node)]
    /\ UNCHANGED <<env, tables, reader, kill>>

\* UPDATE ... WHERE id, whatever has become of the row since the SELECT
EndSource(s) ==
    /\ sync.pc \in {"endsrc", "endopen"}
    /\ s \in sync.work
    /\ source' = [source EXCEPT ![s] = "ended"]
    /\ sync' = [sync EXCEPT !.work = @ \ {s}]
    /\ UNCHANGED <<env, assign, seenAt, activity, reader, kill>>

EndSourcesEnds ==
    /\ sync.pc = "endsrc"
    /\ sync.work = {}
    /\ sync' = [sync EXCEPT !.pc = "close", !.node = {}]
    /\ UNCHANGED <<env, tables, reader, kill>>

\* Once more for the open rows of all nodes that answered
SelectOpenRows ==
    /\ sync.pc = "close"
    /\ sync.todo = {}
    /\ sync' = [sync EXCEPT !.pc = "endopen",
                            !.work = Open(source) \cap Unlisted(sync.ok)]
    /\ UNCHANGED <<env, tables, reader, kill>>

EndOpenEnds ==
    /\ sync.pc = "endopen"
    /\ sync.work = {}
    /\ sync' = [sync EXCEPT !.pc = IF sync.list = {} THEN "fresh" ELSE "clear",
                            !.todo = sync.ok]
    /\ UNCHANGED <<env, tables, reader, kill>>

\* UPDATE VpnUser SET lastVpnActivityAt = NULL for users without a listed
\* session, and SET now for the others: only if some session is listed.
ClearActivity ==
    /\ sync.pc = "clear"
    /\ activity' = [s \in Sessions |->
                      IF s \notin sync.list /\ activity[s] = "set"
                        THEN "cleared" ELSE activity[s]]
    /\ sync' = [sync EXCEPT !.pc = "mark"]
    /\ UNCHANGED <<env, assign, seenAt, source, reader, kill>>

MarkActivity ==
    /\ sync.pc = "mark"
    /\ activity' = [s \in Sessions |-> IF s \in sync.list THEN "set"
                                       ELSE activity[s]]
    /\ sync' = [sync EXCEPT !.pc = "fresh"]
    /\ UNCHANGED <<env, assign, seenAt, source, reader, kill>>

\* UPDATE ... SET endedAt WHERE lastSeenAt < now - ClientSessionFreshness
CloseUnfresh(n) ==
    /\ sync.pc = "fresh"
    /\ n \in sync.todo
    /\ assign' = Ended(assign, {s \in Sessions :
                                  /\ NodeOf[s] = n
                                  /\ seenAt[s] + Freshness < sync.at})
    /\ sync' = [sync EXCEPT !.todo = @ \ {n}]
    /\ UNCHANGED <<env, seenAt, source, activity, reader, kill>>

EndSync ==
    /\ sync.pc = "fresh"
    /\ sync.todo = {}
    /\ sync' = IdleSync
    /\ UNCHANGED <<env, tables, reader, kill>>

-----------------------------------------------------------------------------
(* Requests that list sessions *)

\* GET /clients starts from the open and fresh rows ...
StartLister(r) ==
    /\ r \in Listers \cap scene.requests
    /\ reader[r].pc = "new"
    /\ reader' = [reader EXCEPT
         ![r] = [NewReader EXCEPT
           !.pc = "poll", !.todo = scene.nodes, !.at = clock,
           !.skip = {s \in Open(assign) : seenAt[s] + Freshness >= clock}]]
    /\ UNCHANGED <<env, tables, sync, kill>>

\* ... the sessions of a user start from nothing.
StartUserView(r) ==
    /\ r \in UserViews \cap scene.requests
    /\ reader[r].pc = "new"
    /\ reader' = [reader EXCEPT ![r] = [NewReader EXCEPT
                    !.pc = "poll", !.todo = scene.nodes, !.at = clock]]
    /\ UNCHANGED <<env, tables, sync, kill>>

ReaderPoll(r, n) ==
    /\ reader[r].pc = "poll"
    /\ n \in reader[r].todo
    /\ reader' = [reader EXCEPT
         ![r].pc = "upsert", ![r].todo = @ \ {n},
         ![r].work = ClientsList(n) \ reader[r].skip]
    /\ UNCHANGED <<env, tables, sync, kill>>

\* The poll fails, or GET /clients sees activeClients = 0 for the node
ReaderSkips(r, n) ==
    /\ reader[r].pc = "poll"
    /\ n \in reader[r].todo
    /\ reader' = [reader EXCEPT ![r].todo = @ \ {n}]
    /\ UNCHANGED <<env, tables, sync, kill>>

\* Sessions of other users are passed over by the view of one user.
ReaderPasses(r, s) ==
    /\ r \in UserViews
    /\ reader[r].pc = "upsert"
    /\ s \in reader[r].work
    /\ reader' = [reader EXCEPT ![r].work = @ \ {s}]
    /\ UNCHANGED <<env, tables, sync, kill>>

ReaderUpsertSource(r, s) ==
    /\ reader[r].pc = "upsert"
    /\ s \in reader[r].work
    /\ source' = Upserted(source, {s})
    /\ reader' = [reader EXCEPT ![r].pc = "row", ![r].cur = {s},
                                ![r].work = @ \ {s}]
    /\ UNCHANGED <<env, assign, seenAt, activity, sync, kill>>

ReaderUpsertRow(r) ==
    /\ reader[r].pc = "row"
    /\ assign' = Upserted(assign, reader[r].cur)
    /\ seenAt' = SeenAt(reader[r].cur, reader[r].at)
    /\ reader' = [reader EXCEPT ![r].pc = "upsert", ![r].cur = {}]
    /\ UNCHANGED <<env, source, activity, sync, kill>>

ReaderNext(r) ==
    /\ reader[r].pc = "upsert"
    /\ reader[r].work = {}
    /\ reader' = [reader EXCEPT ![r].pc = "poll"]
    /\ UNCHANGED <<env, tables, sync, kill>>

\* The answer is sent, or the client goes away before.
ReaderEnds(r) ==
    /\ reader[r].pc \in {"poll", "upsert", "row"}
    /\ reader' = [reader EXCEPT ![r] = [NewReader EXCEPT !.pc = "done"]]
    /\ UNCHANGED <<env, tables, sync, kill>>

-----------------------------------------------------------------------------
(* Disconnect *)

\* The agent drops the session; on an error nothing is closed.
KillCall(k, s) ==
    /\ kill[k].pc = "new"
    /\ k \in scene.requests
    /\ s \in live
    /\ live' = live \ {s}
    /\ past' = past \cup {s}
    /\ kill' = [kill EXCEPT ![k].pc = "row", ![k].of = {s}]
    /\ UNCHANGED <<clock, tables, sync, reader, crashes, scene>>

\* CloseClientSessionInDB
KillRow(k) ==
    /\ kill[k].pc = "row"
    /\ assign' = Ended(assign, kill[k].of)
    /\ kill' = [kill EXCEPT ![k].pc = "select"]
    /\ UNCHANGED <<env, seenAt, source, activity, sync, reader>>

KillSelect(k) ==
    /\ kill[k].pc = "select"
    /\ kill' = [kill EXCEPT ![k].pc = "endsrc",
                            ![k].work = Open(source) \cap kill[k].of]
    /\ UNCHANGED <<env, tables, sync, reader>>

KillEndSource(k) ==
    /\ kill[k].pc = "endsrc"
    /\ source' = [s \in Sessions |-> IF s \in kill[k].work THEN "ended"
                                     ELSE source[s]]
    /\ kill' = [kill EXCEPT ![k].pc = "done", ![k].work = {}]
    /\ UNCHANGED <<env, assign, seenAt, activity, sync, reader>>

KillGone(k) ==
    /\ kill[k].pc \in {"row", "select", "endsrc"}
    /\ kill' = [kill EXCEPT ![k].pc = "done", ![k].work = {}]
    /\ UNCHANGED <<env, tables, sync, reader>>

Crash ==
    /\ crashes < scene.crashes
    /\ crashes' = crashes + 1
    /\ sync' = IdleSync
    /\ reader' = [r \in Readers |->
                    IF reader[r].pc = "new" THEN reader[r]
                    ELSE [NewReader EXCEPT !.pc = "done"]]
    /\ kill' = [k \in Kills |->
                  IF kill[k].pc = "new" THEN kill[k]
                  ELSE [kill[k] EXCEPT !.pc = "done", !.work = {}]]
    /\ UNCHANGED <<clock, live, past, tables, scene>>

-----------------------------------------------------------------------------
\* A step of the worker inside SyncClientsSnapshot.
SyncStep ==
    \/ \E n \in Nodes : PollOk(n) \/ PollFails(n) \/ CloseStale(n)
                        \/ CloseUnfresh(n)
    \/ PollEnds \/ UpsertEnds
    \/ \E s \in Sessions : SyncUpsertSource(s) \/ EndSource(s)
    \/ SyncUpsertRow
    \/ SelectSources \/ EndSourcesEnds \/ SelectOpenRows \/ EndOpenEnds
    \/ ClearActivity \/ MarkActivity
    \/ EndSync

ReaderStep(r) ==
    \/ StartLister(r) \/ StartUserView(r)
    \/ \E n \in Nodes : ReaderPoll(r, n) \/ ReaderSkips(r, n)
    \/ \E s \in Sessions : ReaderPasses(r, s) \/ ReaderUpsertSource(r, s)
    \/ ReaderUpsertRow(r) \/ ReaderNext(r) \/ ReaderEnds(r)

KillStep(k) ==
    \/ \E s \in Sessions : KillCall(k, s)
    \/ KillRow(k) \/ KillSelect(k) \/ KillEndSource(k) \/ KillGone(k)

Next ==
    \/ \E s \in Sessions : Connect(s) \/ Leave(s)
    \/ Tick
    \/ StartSync \/ SyncStep
    \/ \E r \in Readers : ReaderStep(r)
    \/ \E k \in Kills : KillStep(k)
    \/ Crash

Spec == Init /\ [][Next]_vars

\* The worker's ticker and its goroutine keep going, and an agent that is
\* polled again and again answers some time.
FairSpec ==
    /\ Spec
    /\ WF_vars(StartSync)
    /\ WF_vars(SyncStep)
    /\ \A n \in Nodes : SF_vars(PollOk(n))

-----------------------------------------------------------------------------
(* Properties *)

NoReader == \A r \in Readers : reader[r].pc = "new"

\* The schema says of endedAt that the session has disappeared from the agent:
\* a session recorded as ended is not there any more.  Holds as long as the
\* worker and disconnects are the only writers: until a listing request starts.
EndedMeansGone ==
    NoReader =>
    \A s \in Sessions : assign[s] = "ended" \/ source[s] = "ended"
                        => s \notin live

\* The worker has seen nothing of the session.
Unrecorded(s) == assign[s] = "none" /\ source[s] = "none"

\* A session is there or over, and one that was never there has no rows.
LifeInv ==
    /\ live \cap past = {}
    /\ NoReader => \A s \in Sessions \ (live \cup past) :
                      Unrecorded(s) /\ s \notin sync.list

\* A session of a node that answered is listed or came after the answer, and
\* then it has no rows.
ListInv ==
    NoReader => \A s \in live : NodeOf[s] \in sync.ok /\ s \notin sync.list
                                 => Unrecorded(s)

\* Progress of the worker: whom it upserts, closes and ends.
WorkInv ==
    /\ sync.pc \in {"upsert", "row"} => sync.work \subseteq sync.list
    /\ sync.cur \subseteq sync.list
    /\ sync.pc \notin {"idle", "poll"} => sync.todo \subseteq sync.ok
    /\ sync.node \subseteq sync.ok
    /\ NoReader /\ sync.pc \in {"endsrc", "endopen"} => sync.work \subseteq past

\* The listed sessions that have been upserted were last seen now.
SeenInv ==
    NoReader /\ sync.pc \notin {"idle", "poll"} =>
        \A s \in sync.list :
            \/ seenAt[s] = sync.at
            \/ sync.pc \in {"upsert", "row"} /\ s \in sync.work
            \/ sync.pc = "row" /\ s \in sync.cur

\* A disconnect closes the session it has ended.
KillInv == \A k \in Kills : kill[k].work \subseteq kill[k].of /\ kill[k].of \subseteq past

\* Types; the rows of a session until the first listing request; what the
\* worker and the disconnects are about to close is over; and therefore an
\* ended row is one of a session that is over.  (SyncClientsSnapshot,
\* CloseClientSessionInDB.)
SessionInv ==
    TypeOK /\ LifeInv /\ ListInv /\ WorkInv /\ SeenInv /\ KillInv /\ EndedMeansGone

\* However the worker, the listing requests and disconnects interleave, both
\* tables end up with exactly the sessions that are there: none is shown for
\* good after it is over, none is missing for good.  The users of the sessions
\* are shown as active in the end when there is one node; with more, the users
\* of a node that does not answer are cleared whenever another one answers.
Converges ==
    <>[](/\ Open(assign) = live
         /\ Open(source) = live
         /\ Cardinality(scene.nodes) = 1 =>
              \A s \in live : activity[s] = "set")
=============================================================================
