----------------------------- MODULE UiPanelData -----------------------------
(***************************************************************************)
(* The lists of the panel in the browser (src/frontend/src/panelData.ts    *)
(* and refreshPanelData in App.tsx).  A page polls the lists it shows; a   *)
(* request of the operator refreshes the lists it changed.  One fetch of   *)
(* lists runs at a time: a refresh that finds one under way is dropped.    *)
(* A fetch is several GETs, each answered from the database at its own     *)
(* time, and is applied as a whole or not at all.                          *)
(***************************************************************************)
EXTENDS Naturals, FiniteSets

CONSTANTS
  Routes,       \* pages
  Keys,         \* lists (PanelDataKey)
  RouteKeys,    \* RouteKeys[r]: the lists page r polls
  Ops,          \* requests of the operator that change lists
  OpKeys,       \* OpKeys[o]: the lists o changes
  Refreshed,    \* Refreshed[o]: the lists the handler of o asks for afterwards
  Forgotten,    \* lists cleared by a logout
  Home,         \* the page a logout leads to
  MaxVersion,   \* bound: changes of each list
  MaxMoves,     \* bound: navigations, logins, logouts, tab switches, requests
  MaxFails,     \* bound: failed fetches
  MaxFetches    \* bound: fetches in flight (one, unless the guard is lost)

ASSUME TablesAssumption ==
  /\ RouteKeys \in [Routes -> SUBSET Keys]
  /\ OpKeys \in [Ops -> SUBSET Keys]
  /\ Refreshed \in [Ops -> SUBSET Keys]
  /\ Forgotten \subseteq Keys
  /\ Home \in Routes

ASSUME BoundsAssumption ==
  /\ MaxVersion \in Nat
  /\ MaxMoves \in Nat
  /\ MaxFails \in Nat
  /\ MaxFetches \in Nat

VARIABLES
  token,     \* somebody is logged in
  route,     \* the page
  hidden,    \* document.hidden
  inFlight,  \* panelDataFetchInFlightRef
  fetches,   \* calls of fetchPanelDataKeys that have not returned
  shown,     \* the lists in the component's state
  db,        \* the lists in the panel's database
  sent,      \* requests of the operator that are not answered
  moves,     \* steps of the operator so far
  fails      \* failed fetches so far

panelVars == <<token, route, hidden, inFlight, fetches, shown, db, sent, moves, fails>>

-----------------------------------------------------------------------------
\* A fetch: the lists asked for, those answered so far, and the answers.
Fetch == [id : 1..MaxFetches, keys : SUBSET Keys, served : SUBSET Keys, got : [Keys -> Nat]]

\* A request: what it does, the page it was made on, and the lists as it wrote them.
Sent == [op : Ops, on : Routes, done : BOOLEAN, wrote : [Keys -> Nat]]

TypeOK ==
  /\ token \in BOOLEAN
  /\ route \in Routes
  /\ hidden \in BOOLEAN
  /\ inFlight \in BOOLEAN
  /\ fetches \in SUBSET Fetch
  /\ shown \in [Keys -> Nat]
  /\ db \in [Keys -> Nat]
  /\ sent \in SUBSET Sent
  /\ moves \in Nat
  /\ fails \in Nat

PanelInit ==
  /\ token = TRUE
  /\ route \in Routes
  /\ hidden = FALSE
  /\ inFlight = FALSE
  /\ fetches = {}
  /\ shown = [k \in Keys |-> 0]
  /\ db = [k \in Keys |-> 1]
  /\ sent = {}
  /\ moves = 0
  /\ fails = 0

-----------------------------------------------------------------------------
\* fetchPanelDataKeys: one GET for each list.
FreeIds == {i \in 1..MaxFetches : \A f \in fetches : f.id # i}

NewFetch(keys) ==
  \E i \in FreeIds :
    fetches' = fetches \cup {[id |-> i, keys |-> keys, served |-> {}, got |-> [k \in Keys |-> 0]]}

\* Mutant: the guard of the flag is lost.
RefreshAlways(keys) ==
  IF keys = {} \/ FreeIds = {}
  THEN UNCHANGED <<inFlight, fetches>>
  ELSE inFlight' = TRUE /\ NewFetch(keys)

\* refreshPanelData(keys): nothing while a fetch is under way or without lists.
refreshPanelData(keys) ==
  IF inFlight \/ keys = {}
  THEN UNCHANGED <<inFlight, fetches>>
  ELSE inFlight' = TRUE /\ NewFetch(keys)

\* The poll effect of a page: one tick when it is mounted, hidden tabs skip it.
MountTick(r, logged) ==
  IF logged /\ ~hidden THEN refreshPanelData(RouteKeys[r])
                       ELSE UNCHANGED <<inFlight, fetches>>

Move == moves < MaxMoves /\ moves' = moves + 1

Navigate(r) ==
  /\ Move
  /\ r # route
  /\ route' = r
  /\ MountTick(r, token)
  /\ UNCHANGED <<token, hidden, shown, db, sent, fails>>

\* The interval of the poll effect.
Poll ==
  /\ token
  /\ ~hidden
  /\ RouteKeys[route] # {}
  /\ ~inFlight
  /\ refreshPanelData(RouteKeys[route])
  /\ UNCHANGED <<token, route, hidden, shown, db, sent, moves, fails>>

Hide ==
  /\ Move
  /\ ~hidden
  /\ hidden' = TRUE
  /\ UNCHANGED <<token, route, inFlight, fetches, shown, db, sent, fails>>

\* visibilitychange ticks at once.
Unhide ==
  /\ hidden
  /\ hidden' = FALSE
  /\ IF token THEN refreshPanelData(RouteKeys[route]) ELSE UNCHANGED <<inFlight, fetches>>
  /\ UNCHANGED <<token, route, shown, db, sent, moves, fails>>

\* logout: the overview is dropped, the other lists stay in memory, and a
\* fetch under way is applied all the same.
Logout ==
  /\ Move
  /\ token
  /\ token' = FALSE
  /\ route' = Home
  /\ shown' = [k \in Keys |-> IF k \in Forgotten THEN 0 ELSE shown[k]]
  /\ UNCHANGED <<hidden, inFlight, fetches, db, sent, fails>>

Login ==
  /\ ~token
  /\ token' = TRUE
  /\ MountTick(route, TRUE)
  /\ UNCHANGED <<route, hidden, shown, db, sent, moves, fails>>

-----------------------------------------------------------------------------
(* The panel answers the GETs of a fetch.                                  *)

Serve(f, k) ==
  /\ k \in f.keys \ f.served
  /\ fetches' = (fetches \ {f}) \cup
                  {[f EXCEPT !.served = @ \cup {k}, !.got = [@ EXCEPT ![k] = db[k]]]}
  /\ UNCHANGED <<token, route, hidden, inFlight, shown, db, sent, moves, fails>>

\* applyPanelDataPatch: every list of the fetch is replaced.
Patched(f) == [k \in Keys |-> IF k \in f.keys THEN f.got[k] ELSE shown[k]]

\* Deliver is the return of fetchPanelDataKeys; the flag is reset in finally.
Deliver(f) ==
  /\ f.served = f.keys
  /\ shown' = Patched(f)
  /\ fetches' = fetches \ {f}
  /\ inFlight' = FALSE
  /\ UNCHANGED <<token, route, hidden, db, sent, moves, fails>>

\* Mutant: the flag is reset only when the fetch succeeds.
FetchFailsStuck(f) ==
  /\ fails < MaxFails
  /\ fails' = fails + 1
  /\ fetches' = fetches \ {f}
  /\ UNCHANGED <<token, route, hidden, inFlight, shown, db, sent, moves>>

\* One GET fails: Promise.all rejects and the other answers are thrown away.
FetchFails(f) ==
  /\ fails < MaxFails
  /\ fails' = fails + 1
  /\ fetches' = fetches \ {f}
  /\ inFlight' = FALSE
  /\ UNCHANGED <<token, route, hidden, shown, db, sent, moves>>

-----------------------------------------------------------------------------
(* Requests of the operator, and of everybody else.                        *)

Send(o) ==
  /\ Move
  /\ token
  /\ \A s \in sent : s.op # o
  /\ sent' = sent \cup {[op |-> o, on |-> route, done |-> FALSE, wrote |-> [k \in Keys |-> 0]]}
  /\ UNCHANGED <<token, route, hidden, inFlight, fetches, shown, db, fails>>

Execute(s) ==
  /\ ~s.done
  /\ \A k \in OpKeys[s.op] : db[k] < MaxVersion
  /\ db' = [k \in Keys |-> IF k \in OpKeys[s.op] THEN db[k] + 1 ELSE db[k]]
  /\ sent' = (sent \ {s}) \cup {[s EXCEPT !.done = TRUE, !.wrote = db']}
  /\ UNCHANGED <<token, route, hidden, inFlight, fetches, shown, moves, fails>>

\* loadData(keys) in the handler: the lists of the page the handler was made
\* on and the lists it changed; some handlers then lead to another page.
Answer(s, to) ==
  /\ s.done
  /\ sent' = sent \ {s}
  /\ route' = to
  /\ refreshPanelData(RouteKeys[s.on] \cup Refreshed[s.op])
  /\ UNCHANGED <<token, hidden, shown, db, moves, fails>>

\* A handler that asks for no lists: the next poll brings the change.
AnswerQuietly(s) ==
  /\ s.done
  /\ sent' = sent \ {s}
  /\ UNCHANGED <<token, route, hidden, inFlight, fetches, shown, db, moves, fails>>

Refuse(s) ==
  /\ ~s.done
  /\ sent' = sent \ {s}
  /\ UNCHANGED <<token, route, hidden, inFlight, fetches, shown, db, moves, fails>>

\* Another administrator, an agent or the worker changes a list.
Elsewhere(k) ==
  /\ db[k] < MaxVersion
  /\ db' = [db EXCEPT ![k] = @ + 1]
  /\ UNCHANGED <<token, route, hidden, inFlight, fetches, shown, sent, moves, fails>>

PanelStep ==
  \/ \E r \in Routes : Navigate(r)
  \/ Poll
  \/ Hide
  \/ Unhide
  \/ Logout
  \/ Login
  \/ \E f \in fetches : \/ \E k \in Keys : Serve(f, k)
                        \/ Deliver(f)
                        \/ FetchFails(f)
  \/ \E o \in Ops : Send(o)
  \/ \E s \in sent : \/ Execute(s) \/ Refuse(s) \/ AnswerQuietly(s)
                     \/ \E to \in Routes : Answer(s, to)
  \/ \E k \in Keys : Elsewhere(k)

PanelSpec == PanelInit /\ [][PanelStep]_panelVars

-----------------------------------------------------------------------------
(* Properties.                                                             *)

\* The refinement: what is on the screen is a view of the database that
\* never goes back to an older list, although GETs of one fetch are answered
\* at different times and a fetch may be applied long after the page that
\* asked for it was left.  (refreshPanelData, App.tsx:3157-3176.)
View == INSTANCE PanelView WITH data <- db, view <- shown
ImplementsView == View!Spec

\* The inductive invariant of the refinement: the flag says whether a fetch
\* is under way, there is one at most, and what it has been answered is not
\* older than the screen.
OneFetch ==
  /\ inFlight <=> fetches # {}
  /\ \A f, g \in fetches : f = g
FetchedNotOlder ==
  \A f \in fetches : \A k \in f.served : shown[k] <= f.got[k] /\ f.got[k] <= db[k]
ShownExisted == \A k \in Keys : shown[k] <= db[k]
PanelInv == TypeOK /\ OneFetch /\ FetchedNotOlder /\ ShownExisted
=============================================================================
