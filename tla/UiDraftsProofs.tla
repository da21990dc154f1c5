--------------------------- MODULE UiDraftsProofs ---------------------------
(***************************************************************************)
(* Proofs about UiPanelData and UiDrafts for any pages, lists, requests,   *)
(* rows and bounds: the invariant of the polling, and that the screen      *)
(* implements PanelView whatever the operator, the panel and the other     *)
(* writers do.                                                             *)
(***************************************************************************)
EXTENDS UiDrafts, TLAPS

USE TablesAssumption, BoundsAssumption, FormAssumption

-----------------------------------------------------------------------------
(* The polling.                                                            *)

\* The initial state of the lists satisfies the invariant.
LEMMA InitPanelInv == PanelInit => PanelInv
  <1> SUFFICES ASSUME PanelInit PROVE PanelInv
    OBVIOUS
  <1>1. TypeOK
    <2>1. token \in BOOLEAN /\ hidden \in BOOLEAN /\ inFlight \in BOOLEAN
      BY Zenon DEF PanelInit
    <2>2. QED
      BY <2>1 DEF PanelInit, TypeOK
  <1>2. OneFetch
    BY DEF PanelInit, OneFetch
  <1>3. FetchedNotOlder /\ ShownExisted
    BY DEF PanelInit, FetchedNotOlder, ShownExisted
  <1>4. QED
    BY <1>1, <1>2, <1>3 DEF PanelInv

\* A refresh leaves one fetch, which has been answered nothing yet.
LEMMA RefreshKeepsOne ==
  ASSUME PanelInv, NEW keys \in SUBSET Keys, refreshPanelData(keys),
         shown' = shown, db' = db
  PROVE  /\ inFlight' \in BOOLEAN
         /\ fetches' \in SUBSET Fetch
         /\ OneFetch'
         /\ FetchedNotOlder'
  <1>1. CASE inFlight \/ keys = {}
    BY <1>1 DEF refreshPanelData, PanelInv, TypeOK, OneFetch, FetchedNotOlder
  <1>2. CASE ~(inFlight \/ keys = {})
    <2>1. fetches = {} /\ inFlight' = TRUE /\ NewFetch(keys)
      BY <1>2 DEF refreshPanelData, PanelInv, TypeOK, OneFetch
    <2>2. PICK i \in FreeIds :
            fetches' = {[id |-> i, keys |-> keys, served |-> {}, got |-> [k \in Keys |-> 0]]}
      BY <2>1 DEF NewFetch
    <2>3. fetches' \in SUBSET Fetch
      BY <2>2 DEF Fetch, FreeIds
    <2>4. OneFetch' /\ FetchedNotOlder'
      BY <2>1, <2>2 DEF OneFetch, FetchedNotOlder
    <2>5. QED
      BY <2>1, <2>3, <2>4
  <1>3. QED
    BY <1>1, <1>2

\* A step that only may start a fetch keeps the invariant.
LEMMA StartInv ==
  ASSUME PanelInv, NEW keys \in SUBSET Keys,
         refreshPanelData(keys) \/ UNCHANGED <<inFlight, fetches>>,
         token' \in BOOLEAN, route' \in Routes, hidden' \in BOOLEAN,
         sent' \in SUBSET Sent, moves' \in Nat, fails' \in Nat,
         UNCHANGED <<shown, db>>
  PROVE  PanelInv'
  <1>1. /\ inFlight' \in BOOLEAN /\ fetches' \in SUBSET Fetch
        /\ OneFetch' /\ FetchedNotOlder'
    <2>1. CASE refreshPanelData(keys)
      BY <2>1, RefreshKeepsOne
    <2>2. CASE UNCHANGED <<inFlight, fetches>>
      BY <2>2 DEF PanelInv, TypeOK, OneFetch, FetchedNotOlder
    <2>3. QED
      BY <2>1, <2>2
  <1>2. TypeOK' /\ ShownExisted'
    BY <1>1 DEF PanelInv, TypeOK, ShownExisted
  <1>3. QED
    BY <1>1, <1>2 DEF PanelInv

\* The steps of the operator and the timers that may start a fetch.
LEMMA NavigateInv == ASSUME PanelInv, NEW r \in Routes, Navigate(r) PROVE PanelInv'
  <1>1. refreshPanelData(RouteKeys[r]) \/ UNCHANGED <<inFlight, fetches>>
    BY DEF Navigate, MountTick
  <1>2. /\ route' \in Routes /\ moves' \in Nat /\ fails' \in Nat
        /\ token' \in BOOLEAN /\ hidden' \in BOOLEAN /\ sent' \in SUBSET Sent
        /\ UNCHANGED <<shown, db>>
    BY DEF Navigate, Move, PanelInv, TypeOK
  <1>3. RouteKeys[r] \in SUBSET Keys
    OBVIOUS
  <1>4. QED
    BY <1>1, <1>2, <1>3, StartInv

LEMMA PollInv == ASSUME PanelInv, Poll PROVE PanelInv'
  <1>1. RouteKeys[route] \in SUBSET Keys
    BY DEF PanelInv, TypeOK
  <1>2. QED
    BY <1>1, StartInv DEF Poll, PanelInv, TypeOK

LEMMA HideInv == ASSUME PanelInv, Hide \/ Unhide PROVE PanelInv'
  <1>1. RouteKeys[route] \in SUBSET Keys
    BY DEF PanelInv, TypeOK
  <1>2. refreshPanelData(RouteKeys[route]) \/ UNCHANGED <<inFlight, fetches>>
    BY DEF Hide, Unhide
  <1>3. hidden' \in BOOLEAN
    BY Zenon DEF Hide, Unhide
  <1>4. /\ route' \in Routes /\ moves' \in Nat /\ fails' \in Nat
        /\ token' \in BOOLEAN /\ sent' \in SUBSET Sent
        /\ UNCHANGED <<shown, db>>
    BY DEF Hide, Unhide, Move, PanelInv, TypeOK
  <1>5. QED
    BY <1>1, <1>2, <1>3, <1>4, StartInv

LEMMA LoginInv == ASSUME PanelInv, Login PROVE PanelInv'
  <1>1. RouteKeys[route] \in SUBSET Keys
    BY DEF PanelInv, TypeOK
  <1>2. refreshPanelData(RouteKeys[route]) \/ UNCHANGED <<inFlight, fetches>>
    BY DEF Login, MountTick
  <1>3. token' \in BOOLEAN
    BY Zenon DEF Login
  <1>4. QED
    BY <1>1, <1>2, <1>3, StartInv DEF Login, PanelInv, TypeOK

\* A logout takes lists off the screen: what is left is not newer than before.
LEMMA LogoutInv == ASSUME PanelInv, Logout PROVE PanelInv'
  <1>1. /\ token' \in BOOLEAN
        /\ UNCHANGED <<hidden, inFlight, fetches, db, sent, fails>>
        /\ route' = Home
        /\ moves' = moves + 1
        /\ shown' = [k \in Keys |-> IF k \in Forgotten THEN 0 ELSE shown[k]]
    BY Zenon DEF Logout, Move
  <1>2. /\ shown' \in [Keys -> Nat]
        /\ \A k \in Keys : shown'[k] <= shown[k]
    BY <1>1 DEF PanelInv, TypeOK
  <1>3. TypeOK'
    BY <1>1, <1>2 DEF PanelInv, TypeOK
  <1>4. OneFetch'
    BY <1>1 DEF PanelInv, OneFetch
  <1>5. FetchedNotOlder'
    <2> SUFFICES ASSUME NEW f \in fetches, NEW k \in f.served
                 PROVE  shown'[k] <= f.got[k] /\ f.got[k] <= db[k]
      BY <1>1 DEF FetchedNotOlder
    <2>1. k \in Keys /\ f.got[k] \in Nat /\ shown[k] \in Nat /\ shown'[k] \in Nat
      BY <1>2 DEF PanelInv, TypeOK, Fetch
    <2>2. shown[k] <= f.got[k] /\ f.got[k] <= db[k]
      BY DEF PanelInv, FetchedNotOlder
    <2>3. QED
      BY <1>2, <2>1, <2>2
  <1>6. ShownExisted'
    BY <1>1, <1>2 DEF PanelInv, TypeOK, ShownExisted
  <1>7. QED
    BY <1>3, <1>4, <1>5, <1>6 DEF PanelInv

\* A GET is answered from the database, which is not older than the screen.
LEMMA ServeInv ==
  ASSUME PanelInv, NEW f \in fetches, NEW k \in Keys, Serve(f, k) PROVE PanelInv'
  <1> DEFINE g == [f EXCEPT !.served = @ \cup {k}, !.got = [@ EXCEPT ![k] = db[k]]]
  <1>1. fetches' = {g}
    <2>1. fetches = {f}
      BY DEF PanelInv, OneFetch
    <2>2. QED
      BY <2>1 DEF Serve
  <1>2. f \in Fetch /\ db \in [Keys -> Nat] /\ shown \in [Keys -> Nat]
    BY DEF PanelInv, TypeOK
  <1>3. /\ g \in Fetch
        /\ g.served = f.served \cup {k}
        /\ g.got = [f.got EXCEPT ![k] = db[k]]
    BY <1>2 DEF Fetch
  <1>4. inFlight /\ UNCHANGED <<token, route, hidden, inFlight, shown, db, sent, moves, fails>>
    BY DEF Serve, PanelInv, OneFetch
  <1>5. TypeOK'
    BY <1>1, <1>3, <1>4 DEF PanelInv, TypeOK
  <1>6. OneFetch'
    BY <1>1, <1>4 DEF OneFetch
  <1>7. \A j \in g.served : shown[j] <= g.got[j] /\ g.got[j] <= db[j]
    <2> SUFFICES ASSUME NEW j \in f.served \cup {k}
                 PROVE  shown[j] <= g.got[j] /\ g.got[j] <= db[j]
      BY <1>3
    <2>1. j \in Keys /\ f.got \in [Keys -> Nat]
      BY <1>2 DEF Fetch
    <2>2. CASE j = k
      BY <1>2, <1>3, <2>1, <2>2 DEF PanelInv, ShownExisted
    <2>3. CASE j # k
      BY <1>3, <2>1, <2>3 DEF PanelInv, FetchedNotOlder
    <2>4. QED
      BY <2>2, <2>3
  <1>8. FetchedNotOlder'
    BY <1>1, <1>4, <1>7 DEF FetchedNotOlder
  <1>9. ShownExisted'
    BY <1>4 DEF PanelInv, ShownExisted
  <1>10. QED
    BY <1>5, <1>6, <1>8, <1>9 DEF PanelInv

\* A fetch that is delivered replaces no list by an older one, and none by a
\* list the database has not held.
LEMMA DeliverShows ==
  ASSUME PanelInv, NEW f \in fetches, Deliver(f)
  PROVE  /\ shown' \in [Keys -> Nat]
         /\ \A k \in Keys : shown[k] <= shown'[k] /\ shown'[k] <= db[k]
  <1>1. /\ f \in Fetch
        /\ shown \in [Keys -> Nat]
        /\ db \in [Keys -> Nat]
    BY DEF PanelInv, TypeOK
  <1>2. /\ f.served = f.keys
        /\ f.got \in [Keys -> Nat]
        /\ shown' = [k \in Keys |-> IF k \in f.keys THEN f.got[k] ELSE shown[k]]
    BY <1>1 DEF Deliver, Patched, Fetch
  <1>3. \A k \in f.keys : shown[k] <= f.got[k] /\ f.got[k] <= db[k]
    BY <1>2 DEF PanelInv, FetchedNotOlder
  <1>4. \A k \in Keys : shown[k] <= db[k]
    BY DEF PanelInv, ShownExisted
  <1>5. QED
    BY <1>1, <1>2, <1>3, <1>4

LEMMA DeliverInv == ASSUME PanelInv, NEW f \in fetches, Deliver(f) PROVE PanelInv'
  <1>1. fetches' = {}
    BY DEF PanelInv, OneFetch, Deliver
  <1>2. inFlight' = FALSE /\ UNCHANGED <<token, route, hidden, db, sent, moves, fails>>
    BY DEF Deliver
  <1>3. inFlight' \in BOOLEAN
    BY <1>2, Zenon
  <1>4. TypeOK'
    BY <1>1, <1>2, <1>3, DeliverShows DEF PanelInv, TypeOK
  <1>5. OneFetch' /\ FetchedNotOlder'
    BY <1>1, <1>2 DEF OneFetch, FetchedNotOlder
  <1>6. ShownExisted'
    BY <1>2, DeliverShows DEF ShownExisted
  <1>7. QED
    BY <1>4, <1>5, <1>6 DEF PanelInv

\* A fetch that fails frees the flag.
LEMMA FetchFailsInv == ASSUME PanelInv, NEW f \in fetches, FetchFails(f) PROVE PanelInv'
  <1>1. fetches' = {}
    BY DEF PanelInv, OneFetch, FetchFails
  <1>2. /\ inFlight' = FALSE /\ fails' = fails + 1
        /\ UNCHANGED <<token, route, hidden, shown, db, sent, moves>>
    BY DEF FetchFails
  <1>3. inFlight' \in BOOLEAN
    BY <1>2, Zenon
  <1>4. TypeOK'
    BY <1>1, <1>2, <1>3 DEF PanelInv, TypeOK
  <1>5. OneFetch' /\ FetchedNotOlder'
    BY <1>1, <1>2 DEF OneFetch, FetchedNotOlder
  <1>6. ShownExisted'
    BY <1>2 DEF PanelInv, ShownExisted
  <1>7. QED
    BY <1>4, <1>5, <1>6 DEF PanelInv

\* A step of the panel or of others that only makes lists newer.
LEMMA WriteInv ==
  ASSUME PanelInv, db' \in [Keys -> Nat], \A k \in Keys : db[k] <= db'[k],
         sent' \in SUBSET Sent,
         UNCHANGED <<token, route, hidden, inFlight, fetches, shown, moves, fails>>
  PROVE  PanelInv'
  <1>1. TypeOK' /\ OneFetch'
    BY DEF PanelInv, TypeOK, OneFetch
  <1>2. FetchedNotOlder'
    <2> SUFFICES ASSUME NEW f \in fetches, NEW k \in f.served
                 PROVE  shown[k] <= f.got[k] /\ f.got[k] <= db'[k]
      BY DEF FetchedNotOlder
    <2>1. k \in Keys /\ f.got[k] \in Nat /\ db[k] \in Nat /\ db'[k] \in Nat
      BY DEF PanelInv, TypeOK, Fetch
    <2>2. shown[k] <= f.got[k] /\ f.got[k] <= db[k]
      BY DEF PanelInv, FetchedNotOlder
    <2>3. QED
      BY <2>1, <2>2
  <1>3. ShownExisted'
    BY DEF PanelInv, TypeOK, ShownExisted
  <1>4. QED
    BY <1>1, <1>2, <1>3 DEF PanelInv

\* Writes of the panel: a list becomes one version newer or stays.
LEMMA ExecuteWrites ==
  ASSUME PanelInv, NEW s \in sent, Execute(s)
  PROVE  /\ db' \in [Keys -> Nat]
         /\ \A k \in Keys : db'[k] \in {db[k], db[k] + 1}
  <1>1. db' = [k \in Keys |-> IF k \in OpKeys[s.op] THEN db[k] + 1 ELSE db[k]]
    BY DEF Execute
  <1>2. db \in [Keys -> Nat]
    BY DEF PanelInv, TypeOK
  <1>3. QED
    BY <1>1, <1>2

LEMMA ElsewhereWrites ==
  ASSUME PanelInv, NEW k \in Keys, Elsewhere(k)
  PROVE  /\ db' \in [Keys -> Nat]
         /\ \A j \in Keys : db'[j] \in {db[j], db[j] + 1}
  BY DEF PanelInv, TypeOK, Elsewhere

LEMMA ExecuteInv == ASSUME PanelInv, NEW s \in sent, Execute(s) PROVE PanelInv'
  <1>1. db' \in [Keys -> Nat] /\ \A k \in Keys : db[k] <= db'[k]
    BY ExecuteWrites DEF PanelInv, TypeOK
  <1>2. sent' \in SUBSET Sent
    <2>1. s \in Sent
      BY DEF PanelInv, TypeOK
    <2>2. [s EXCEPT !.done = TRUE, !.wrote = db'] \in Sent
      BY <1>1, <2>1, ZenonT(40) DEF Sent
    <2>3. QED
      BY <2>2 DEF Execute, PanelInv, TypeOK
  <1>3. QED
    BY <1>1, <1>2, WriteInv DEF Execute

LEMMA ElsewhereInv == ASSUME PanelInv, NEW k \in Keys, Elsewhere(k) PROVE PanelInv'
  <1>1. db' \in [Keys -> Nat] /\ \A j \in Keys : db[j] <= db'[j]
    BY ElsewhereWrites DEF PanelInv, TypeOK
  <1>2. QED
    BY <1>1, WriteInv DEF Elsewhere, PanelInv, TypeOK

\* Requests of the operator and their answers.
LEMMA SendInv == ASSUME PanelInv, NEW o \in Ops, Send(o) PROVE PanelInv'
  <1>1. [op |-> o, on |-> route, done |-> FALSE, wrote |-> [k \in Keys |-> 0]] \in Sent
    BY DEF PanelInv, TypeOK, Sent
  <1>2. sent' \in SUBSET Sent
    BY <1>1 DEF Send, PanelInv, TypeOK
  <1>3. {} \in SUBSET Keys
    OBVIOUS
  <1>4. /\ route' \in Routes /\ moves' \in Nat /\ fails' \in Nat
        /\ token' \in BOOLEAN /\ hidden' \in BOOLEAN
        /\ UNCHANGED <<shown, db, inFlight, fetches>>
    BY DEF Send, Move, PanelInv, TypeOK
  <1>5. QED
    BY <1>2, <1>3, <1>4, StartInv

LEMMA AnswerInv ==
  ASSUME PanelInv, NEW s \in sent, NEW to \in Routes, Answer(s, to) PROVE PanelInv'
  <1>1. s \in Sent
    BY DEF PanelInv, TypeOK
  <1>2. RouteKeys[s.on] \cup Refreshed[s.op] \in SUBSET Keys
    BY <1>1 DEF Sent
  <1>3. QED
    BY <1>2, StartInv DEF Answer, PanelInv, TypeOK

LEMMA QuietInv ==
  ASSUME PanelInv, NEW s \in sent, AnswerQuietly(s) \/ Refuse(s) PROVE PanelInv'
  <1>1. {} \in SUBSET Keys
    OBVIOUS
  <1>2. QED
    BY <1>1, StartInv DEF AnswerQuietly, Refuse, PanelInv, TypeOK

-----------------------------------------------------------------------------
(* The forms.                                                              *)

\* The parts of the invariant that are about the form, and about form and lists.
DraftInv == DraftTypeOK /\ EditsHaveRow /\ FilledOnce /\ FollowsList
PageInv == PanelInv /\ DraftInv

\* The two kinds of forms, and what the forms that lead to another page are.
LEMMA FormKinds ==
  ASSUME NEW f \in Forms
  PROVE  /\ f.refill \in {"list", "fields", "row"}
         /\ f.own => f.refill = "list"
         /\ f.reply => f.refill = "row"
         /\ f.clears => f.forgets
  BY DEF Forms, UserProfileForm, UserFirewallForm, UserCcdForm, OrganizationForm,
         OrganizationFirewallForm, ServerAgentForm, AdminProfileForm

\* Filling a form with the row of the list that is on the screen then.
LEMMA FillInv ==
  ASSUME DraftInv, NEW s \in Subjects, shown'[List] \in Nat, Fill(s, shown'),
         subj' = s, UNCHANGED <<form, saving>>
  PROVE  DraftInv'
  <1>1. draft' = [of |-> s, ver |-> shown'[List]] /\ edited' = "no" /\ hydrated' = s
    BY DEF Fill, Content
  <1>2. DraftTypeOK'
    BY <1>1 DEF DraftInv, DraftTypeOK
  <1>3. EditsHaveRow' /\ FilledOnce' /\ FollowsList'
    BY <1>1 DEF EditsHaveRow, FilledOnce, FollowsList, Content
  <1>4. QED
    BY <1>2, <1>3 DEF DraftInv

\* A page change: what the form holds afterwards is of the row selected.  The
\* list on the screen stays, or is taken off it with the row.
LEMMA SelectInv ==
  ASSUME DraftInv, shown \in [Keys -> Nat], NEW s \in Subjects \cup {NoSubject}, Select(s),
         shown' = shown \/ s = NoSubject
  PROVE  DraftInv'
  <1>1. subj' = s /\ UNCHANGED <<form, saving>>
    BY DEF Select
  <1>2. CASE s = subj
    <2>1. UNCHANGED <<draft, edited, hydrated, subj>>
      BY <1>1, <1>2 DEF Select, Keep
    <2>2. QED
      BY <1>1, <1>2, <2>1 DEF DraftInv, DraftTypeOK, EditsHaveRow, FilledOnce, FollowsList, Content
  <1>3. CASE s # subj /\ s = NoSubject
    <2>1. /\ edited' = "no"
          /\ draft' = IF form.clears THEN Empty ELSE draft
          /\ hydrated' = IF form.forgets THEN NoSubject ELSE hydrated
      BY <1>3 DEF Select, Leave
    <2>2. form.clears => form.forgets
      BY FormKinds DEF DraftInv, DraftTypeOK
    <2>3. QED
      BY <1>1, <1>3, <2>1, <2>2 DEF DraftInv, DraftTypeOK, EditsHaveRow, FilledOnce, FollowsList, Empty
  <1>4. CASE s # subj /\ s # NoSubject /\ shown[List] > 0
    <2>1. Fill(s, shown') /\ shown'[List] \in Nat /\ s \in Subjects
      BY <1>4 DEF Select
    <2>2. QED
      BY <1>1, <2>1, FillInv
  <1>5. CASE s # subj /\ s # NoSubject /\ ~(shown[List] > 0)
    <2>1. edited' = "no" /\ UNCHANGED <<draft, hydrated, shown>>
      BY <1>5 DEF Select
    <2>2. QED
      BY <1>1, <1>5, <2>1 DEF DraftInv, DraftTypeOK, EditsHaveRow, FilledOnce, FollowsList
  <1>6. QED
    BY <1>2, <1>3, <1>4, <1>5

\* A new list, with which the effect of the form runs.
LEMMA HydrateInv ==
  ASSUME DraftInv, shown' \in [Keys -> Nat], Hydrate(subj, shown'),
         UNCHANGED <<form, subj, saving>>
  PROVE  DraftInv'
  <1>1. CASE subj # NoSubject /\ shown'[List] > 0 /\ Refills(subj, shown')
    <2>1. Fill(subj, shown') /\ shown'[List] \in Nat /\ subj \in Subjects
      BY <1>1 DEF Hydrate, DraftInv, DraftTypeOK
    <2>2. QED
      BY <2>1, FillInv
  <1>2. CASE ~(subj # NoSubject /\ shown'[List] > 0 /\ Refills(subj, shown'))
    <2>1. UNCHANGED <<draft, edited, hydrated>>
      BY <1>2 DEF Hydrate, Keep
    <2>2. DraftTypeOK'
      BY <2>1 DEF DraftInv, DraftTypeOK
    <2>3. form \in Forms
      BY DEF DraftInv, DraftTypeOK
    <2>4. form.refill \in {"list", "fields", "row"}
      BY <2>3, FormKinds
    <2>5. EditsHaveRow' /\ FilledOnce' /\ FollowsList'
      BY <1>2, <2>1, <2>4 DEF DraftInv, Refills, EditsHaveRow, FilledOnce, FollowsList, Content
    <2>6. QED
      BY <2>2, <2>5 DEF DraftInv
  <1>3. QED
    BY <1>1, <1>2

\* A step that leaves form and screen alone, but for edits of a form shown.
LEMMA KeptInv ==
  ASSUME DraftInv, saving' \in Subjects \cup {NoSubject}, edited' \in {"no", "yes", "saving", "saved"},
         edited' # "no" => edited # "no" \/ (subj # NoSubject /\ shown[List] > 0),
         edited' = "no" => edited = "no", edited' = "saved" => edited = "saved",
         shown[List] \in Nat,
         UNCHANGED <<form, subj, draft, hydrated>>, shown'[List] = shown[List]
  PROVE  DraftInv'
  BY DEF DraftInv, DraftTypeOK, EditsHaveRow, FilledOnce, FollowsList, Content

LEMMA InitFormInv == Init => FormInv
  <1> SUFFICES ASSUME Init PROVE FormInv
    OBVIOUS
  <1>1. PanelInv
    BY InitPanelInv DEF Init
  <1>2. DraftTypeOK
    BY DEF Init, DraftTypeOK, Empty
  <1>3. shown[List] = 0 /\ edited = "no" /\ hydrated = NoSubject
    BY DEF Init, PanelInit
  <1>4. EditsHaveRow /\ FilledOnce /\ FollowsList /\ SavingIsNewer
    BY <1>3 DEF EditsHaveRow, FilledOnce, FollowsList, SavingIsNewer
  <1>5. QED
    BY <1>1, <1>2, <1>4 DEF FormInv

\* The answer to a save: for an organization it leads to the list, for the
\* others it asks for the list again or replaces the content.
LEMMA SavedInv == ASSUME FormInv, NEW s \in sent, Saved(s) PROVE PageInv'
  <1>1. PanelInv /\ TypeOK /\ DraftInv
    BY DEF FormInv, PanelInv, DraftInv
  <1>2. /\ db[List] \in Nat /\ shown[List] \in Nat /\ s.wrote[List] \in Nat
        /\ route \in Routes /\ form \in Forms
    BY <1>1 DEF TypeOK, Sent, DraftInv, DraftTypeOK
  <1>3. CASE form.own
    <2>1. /\ Answer(s, Home) /\ draft' = Empty /\ edited' = "no"
          /\ subj' \in Selectable(Home)
          /\ UNCHANGED <<hydrated, form>> /\ saving' = NoSubject
      BY <1>3 DEF Saved
    <2>2. PanelInv'
      BY <1>1, <2>1, AnswerInv
    <2>3. subj' = NoSubject
      BY <2>1 DEF Selectable
    <2>4. form.refill = "list"
      BY <1>2, <1>3, FormKinds
    <2>5. DraftInv'
      BY <1>1, <2>1, <2>3, <2>4 DEF DraftInv, DraftTypeOK, EditsHaveRow, FilledOnce, FollowsList, Empty
    <2>6. QED
      BY <2>2, <2>5 DEF PageInv, DraftInv
  <1>4. CASE ~form.own
    <2>1. /\ Answer(s, route) \/ AnswerQuietly(s)
          /\ ShowsSaved(s) /\ s.op = SaveOp /\ s.done
          /\ UNCHANGED <<subj, hydrated, form>> /\ saving' = NoSubject
      BY <1>4 DEF Saved, Answer, AnswerQuietly
    <2>2. PanelInv'
      BY <1>1, <1>2, <2>1, AnswerInv, QuietInv
    <2>3. shown' = shown
      BY <2>1 DEF Answer, AnswerQuietly
    <2>4. DraftTypeOK'
      BY <1>1, <1>2, <2>1 DEF DraftInv, DraftTypeOK, ShowsSaved, Content
    <2>5. form.reply => form.refill = "row"
      BY <1>2, FormKinds
    <2>6. form.refill # "row" /\ edited = "saving" => s.wrote[List] > shown[List]
      BY <2>1 DEF FormInv, SavingIsNewer
    <2>7. EditsHaveRow' /\ FilledOnce' /\ FollowsList'
      <3>1. CASE form.reply
        BY <1>1, <2>1, <2>3, <2>5, <3>1 DEF DraftInv, EditsHaveRow, FilledOnce, FollowsList, ShowsSaved, Content
      <3>2. CASE ~form.reply /\ edited = "saving"
        <4>1. draft' = [of |-> draft.of, ver |-> s.wrote[List]] /\ edited' = "saved"
          BY <2>1, <3>2 DEF ShowsSaved, Content
        <4>2. QED
          BY <1>1, <1>2, <2>1, <2>3, <2>6, <3>2, <4>1 DEF DraftInv, EditsHaveRow, FilledOnce, FollowsList
      <3>3. CASE ~form.reply /\ edited # "saving"
        BY <1>1, <2>1, <2>3, <3>3 DEF DraftInv, EditsHaveRow, FilledOnce, FollowsList, ShowsSaved
      <3>4. QED
        BY <3>1, <3>2, <3>3
    <2>8. QED
      BY <2>2, <2>4, <2>7 DEF PageInv, DraftInv
  <1>5. QED
    BY <1>3, <1>4

\* The steps that touch the lists and not the form.
LEMMA PanelOnlyInv ==
  ASSUME FormInv, UNCHANGED draftVars,
         \/ Poll \/ Hide \/ Unhide \/ Login
         \/ \E f \in fetches : FetchFails(f) \/ \E k \in Keys : Serve(f, k)
         \/ \E s \in sent : Execute(s)
         \/ \E k \in Keys : Elsewhere(k)
  PROVE  PageInv'
  <1>1. PanelInv /\ DraftInv
    BY DEF FormInv, DraftInv
  <1>2. PanelInv'
    BY <1>1, PollInv, HideInv, LoginInv, FetchFailsInv, ServeInv, ExecuteInv, ElsewhereInv
  <1>3. shown' = shown
    BY DEF Poll, Hide, Unhide, Login, FetchFails, Serve, Execute, Elsewhere
  <1>4. DraftInv'
    BY <1>1, <1>3 DEF draftVars, DraftInv, DraftTypeOK, EditsHaveRow, FilledOnce, FollowsList, Content
  <1>5. QED
    BY <1>2, <1>4 DEF PageInv, DraftInv

\* Every step keeps what the invariant says of lists and form.
LEMMA NextPageInv == ASSUME FormInv, [Next]_vars PROVE PageInv'
  <1>1. PanelInv /\ TypeOK /\ DraftInv
    BY DEF FormInv, PanelInv, DraftInv
  <1>2. shown \in [Keys -> Nat]
    BY <1>1 DEF TypeOK
  <1>3. ASSUME NEW r \in Routes, GoTo(r) PROVE PageInv'
    <2>1. PanelInv'
      BY <1>1, <1>3, NavigateInv DEF GoTo
    <2>2. PICK s \in Subjects \cup {NoSubject} : Select(s)
      BY <1>3 DEF GoTo, Selectable
    <2>3. shown' = shown
      BY <1>3 DEF GoTo, Navigate
    <2>4. DraftInv'
      BY <1>1, <1>2, <2>2, <2>3, SelectInv
    <2>5. QED
      BY <2>1, <2>4 DEF PageInv, DraftInv
  <1>4. ASSUME NEW s \in Subjects, Switch(s) PROVE PageInv'
    <2>1. RouteKeys[route] \in SUBSET Keys
      BY <1>1 DEF TypeOK
    <2>2. refreshPanelData(RouteKeys[route]) \/ UNCHANGED <<inFlight, fetches>>
      BY <1>4 DEF Switch, MountTick
    <2>3. /\ route' \in Routes /\ moves' \in Nat /\ fails' \in Nat
          /\ token' \in BOOLEAN /\ hidden' \in BOOLEAN /\ sent' \in SUBSET Sent
          /\ UNCHANGED <<shown, db>>
      BY <1>1, <1>4 DEF Switch, Move, TypeOK
    <2>4. PanelInv'
      BY <1>1, <2>1, <2>2, <2>3, StartInv
    <2>5. Select(s) /\ s \in Subjects \cup {NoSubject}
      BY <1>4 DEF Switch
    <2>6. DraftInv'
      BY <1>1, <1>2, <2>3, <2>5, SelectInv
    <2>7. QED
      BY <2>4, <2>6 DEF PageInv, DraftInv
  <1>5. CASE LogoutLeaves
    <2>1. PanelInv'
      BY <1>1, <1>5, LogoutInv DEF LogoutLeaves
    <2>2. Select(NoSubject)
      BY <1>5 DEF LogoutLeaves, Selectable
    <2>3. DraftInv'
      BY <1>1, <1>2, <2>2, SelectInv
    <2>4. QED
      BY <2>1, <2>3 DEF PageInv, DraftInv
  <1>6. ASSUME NEW f \in fetches, ListArrives(f) PROVE PageInv'
    <2>1. Deliver(f) /\ shown' = Patched(f) /\ UNCHANGED <<form, subj, saving>>
      BY <1>6 DEF ListArrives, Deliver
    <2>2. PanelInv' /\ shown' \in [Keys -> Nat]
      BY <1>1, <2>1, DeliverInv, DeliverShows
    <2>3. CASE List \in f.keys
      <3>1. Hydrate(subj, shown')
        BY <1>6, <2>1, <2>3 DEF ListArrives
      <3>2. QED
        BY <1>1, <2>1, <2>2, <3>1, HydrateInv DEF PageInv, DraftInv
    <2>4. CASE List \notin f.keys
      <3>1. Keep /\ shown'[List] = shown[List]
        BY <1>6, <2>1, <2>4 DEF ListArrives, Patched
      <3>2. DraftInv'
        BY <1>1, <2>1, <3>1 DEF Keep, DraftInv, DraftTypeOK, EditsHaveRow, FilledOnce, FollowsList, Content
      <3>3. QED
        BY <2>2, <3>2 DEF PageInv, DraftInv
    <2>5. QED
      BY <2>3, <2>4
  <1>7. CASE Edit
    <2>1. {} \in SUBSET Keys
      OBVIOUS
    <2>2. /\ route' \in Routes /\ moves' \in Nat /\ fails' \in Nat
          /\ token' \in BOOLEAN /\ hidden' \in BOOLEAN /\ sent' \in SUBSET Sent
          /\ UNCHANGED <<shown, db, inFlight, fetches>>
      BY <1>1, <1>7 DEF Edit, Move, TypeOK
    <2>3. PanelInv'
      BY <1>1, <2>1, <2>2, StartInv
    <2>4. /\ edited' = "yes" /\ UNCHANGED <<form, subj, draft, hydrated, saving>>
          /\ subj # NoSubject /\ shown[List] > 0
      BY <1>7 DEF Edit, Visible
    <2>5. DraftInv'
      BY <1>1, <1>2, <2>2, <2>4, KeptInv DEF DraftInv, DraftTypeOK
    <2>6. QED
      BY <2>3, <2>5 DEF PageInv, DraftInv
  <1>8. CASE Save
    <2>1. PanelInv'
      BY <1>1, <1>8, SendInv DEF Save
    <2>2. /\ edited' = "saving" /\ UNCHANGED <<form, subj, draft, hydrated, shown>>
          /\ saving' = IF form.own THEN draft.of ELSE subj
          /\ subj # NoSubject /\ shown[List] > 0
      BY <1>8 DEF Save, Visible, Send
    <2>3. saving' \in Subjects \cup {NoSubject}
      BY <1>1, <2>2 DEF DraftInv, DraftTypeOK
    <2>4. DraftInv'
      BY <1>1, <1>2, <2>2, <2>3, KeptInv
    <2>5. QED
      BY <2>1, <2>4 DEF PageInv, DraftInv
  <1>9. ASSUME NEW s \in sent, SaveFails(s) PROVE PageInv'
    <2>1. PanelInv'
      BY <1>1, <1>9, QuietInv DEF SaveFails
    <2>2. /\ edited' = IF edited = "saving" THEN "yes" ELSE edited
          /\ saving' = NoSubject
          /\ UNCHANGED <<form, subj, draft, hydrated, shown>>
      BY <1>9 DEF SaveFails, Refuse
    <2>3. edited' \in {"no", "yes", "saving", "saved"}
      BY <1>1, <2>2 DEF DraftInv, DraftTypeOK
    <2>4. DraftInv'
      BY <1>1, <1>2, <2>2, <2>3, KeptInv
    <2>5. QED
      BY <2>1, <2>4 DEF PageInv, DraftInv
  <1>10. CASE UNCHANGED vars
    BY <1>10 DEF vars, FormInv, PageInv, DraftInv, PanelInv, TypeOK, OneFetch, FetchedNotOlder, ShownExisted,
                 DraftTypeOK, EditsHaveRow, FilledOnce, FollowsList, Content
  <1>11. QED
    BY <1>3, <1>4, <1>5, <1>6, <1>7, <1>8, <1>9, <1>10, SavedInv, PanelOnlyInv DEF Next

\* What the save has written stays newer than the list on the screen as long as
\* the form still shows it as being saved: a newer list is copied into the form.
LEMMA NextSavingInv == ASSUME FormInv, [Next]_vars PROVE SavingIsNewer'
  <1>1. /\ PanelInv /\ TypeOK /\ SavingIsNewer
        /\ shown \in [Keys -> Nat] /\ db \in [Keys -> Nat]
        /\ form \in Forms
    BY DEF FormInv, PanelInv, TypeOK, DraftTypeOK
  <1>2. ASSUME UNCHANGED form, edited' = "saving" => edited = "saving",
               \A s \in sent' : s.done => s \in sent,
               edited' = "saving" /\ form.refill # "row" => shown'[List] <= shown[List],
               shown'[List] \in Nat
        PROVE  SavingIsNewer'
    <2>1. \A s \in sent : s.wrote[List] \in Nat
      BY <1>1 DEF TypeOK, Sent
    <2>2. QED
      BY <1>1, <1>2, <2>1 DEF SavingIsNewer
  <1>3. ASSUME NEW s, Select(s) PROVE UNCHANGED form /\ (edited' = "saving" => edited = "saving")
    BY <1>3 DEF Select, Keep, Leave, Fill
  <1>4. ASSUME NEW r \in Routes, GoTo(r) PROVE SavingIsNewer'
    BY <1>1, <1>2, <1>3, <1>4 DEF GoTo, Navigate
  <1>5. ASSUME NEW s \in Subjects, Switch(s) PROVE SavingIsNewer'
    BY <1>1, <1>2, <1>3, <1>5 DEF Switch
  <1>6. CASE LogoutLeaves
    <2>1. shown' = [k \in Keys |-> IF k \in Forgotten THEN 0 ELSE shown[k]] /\ UNCHANGED sent
      BY <1>6 DEF LogoutLeaves, Logout
    <2>2. \E s : Select(s)
      BY <1>6 DEF LogoutLeaves
    <2>3. QED
      BY <1>1, <1>2, <1>3, <2>1, <2>2
  <1>7. ASSUME NEW f \in fetches, ListArrives(f) PROVE SavingIsNewer'
    <2>1. /\ Deliver(f) /\ UNCHANGED <<form, subj, sent>> /\ shown' = Patched(f)
      BY <1>7 DEF ListArrives, Deliver
    <2>2. shown' \in [Keys -> Nat]
      BY <1>1, <2>1, DeliverShows
    <2>3. edited' = "saving" => edited = "saving"
      BY <1>7 DEF ListArrives, Hydrate, Fill, Keep
    <2>4. CASE List \in f.keys
      <3>1. Hydrate(subj, shown')
        BY <1>7, <2>1, <2>4 DEF ListArrives
      <3>2. CASE subj # NoSubject /\ shown'[List] > 0
        <4>1. edited' = "saving" => ~Refills(subj, shown')
          BY <3>1, <3>2 DEF Hydrate, Fill
        <4>2. edited' = "saving" /\ form.refill # "row" => shown'[List] = shown[List]
          BY <1>1, <4>1, FormKinds DEF Refills
        <4>3. QED
          BY <1>1, <1>2, <2>1, <2>2, <2>3, <4>2
      <3>3. CASE ~(shown'[List] > 0)
        BY <1>1, <1>2, <2>1, <2>2, <2>3, <3>3
      <3>4. CASE subj = NoSubject
        BY <1>1, <1>2, <2>1, <2>2, <2>3, <3>4 DEF FormInv, EditsHaveRow
      <3>5. QED
        BY <3>2, <3>3, <3>4
    <2>5. CASE List \notin f.keys
      BY <1>1, <1>2, <2>1, <2>2, <2>3, <2>5 DEF Patched
    <2>6. QED
      BY <2>4, <2>5
  <1>8. CASE Edit
    BY <1>8 DEF Edit, SavingIsNewer
  <1>9. CASE Save
    <2>1. /\ \A s \in sent : s.op # SaveOp
          /\ \A s \in sent' : s \in sent \/ ~s.done
      BY <1>9 DEF Save, Send
    <2>2. QED
      BY <2>1 DEF SavingIsNewer
  <1>10. ASSUME NEW s \in sent, Saved(s) PROVE SavingIsNewer'
    <2>1. /\ UNCHANGED <<form, shown>> /\ sent' = sent \ {s}
      BY <1>10 DEF Saved, Answer, AnswerQuietly
    <2>2. edited' = "saving" => edited = "saving"
      BY <1>10 DEF Saved, ShowsSaved
    <2>3. QED
      BY <1>1, <1>2, <2>1, <2>2
  <1>11. ASSUME NEW s \in sent, SaveFails(s) PROVE SavingIsNewer'
    <2>1. /\ UNCHANGED <<form, shown>> /\ sent' = sent \ {s}
      BY <1>11 DEF SaveFails, Refuse
    <2>2. edited' # "saving"
      BY <1>11 DEF SaveFails
    <2>3. QED
      BY <2>2 DEF SavingIsNewer
  <1>12. ASSUME NEW s \in sent, Execute(s), UNCHANGED draftVars PROVE SavingIsNewer'
    <2> SUFFICES ASSUME form.refill # "row", edited = "saving",
                        NEW z \in sent', z.op = SaveOp, z.done
                 PROVE  z.wrote[List] > shown[List]
      BY <1>12 DEF Execute, draftVars, SavingIsNewer
    <2>1. CASE z \in sent
      BY <1>1, <2>1 DEF SavingIsNewer
    <2>2. CASE z \notin sent
      <3>1. z = [s EXCEPT !.done = TRUE, !.wrote = db'] /\ s \in Sent
        BY <1>1, <1>12, <2>2 DEF Execute, TypeOK
      <3>2. s.op = SaveOp /\ z.wrote = db'
        BY <3>1 DEF Sent
      <3>3. db'[List] = db[List] + 1
        BY <1>12, <3>2 DEF Execute
      <3>4. shown[List] <= db[List]
        BY <1>1 DEF PanelInv, ShownExisted
      <3>5. QED
        BY <1>1, <3>2, <3>3, <3>4
    <2>3. QED
      BY <2>1, <2>2
  <1>13. ASSUME \/ Poll \/ Hide \/ Unhide \/ Login
                \/ \E f \in fetches : FetchFails(f) \/ \E k \in Keys : Serve(f, k)
                \/ \E k \in Keys : Elsewhere(k),
                UNCHANGED draftVars
         PROVE  SavingIsNewer'
    <2>1. UNCHANGED <<form, edited, sent, shown>>
      BY <1>13 DEF draftVars, Poll, Hide, Unhide, Login, FetchFails, Serve, Elsewhere
    <2>2. QED
      BY <1>1, <2>1 DEF SavingIsNewer
  <1>14. CASE UNCHANGED vars
    BY <1>1, <1>14 DEF vars, SavingIsNewer
  <1>15. CASE /\ \/ Poll
                 \/ Hide
                 \/ Unhide
                 \/ Login
                 \/ \E f \in fetches : FetchFails(f) \/ \E k \in Keys : Serve(f, k)
                 \/ \E s \in sent : Execute(s)
                 \/ \E k \in Keys : Elsewhere(k)
              /\ UNCHANGED draftVars
    BY <1>12, <1>13, <1>15
  <1>16. QED
    BY <1>4, <1>5, <1>6, <1>7, <1>8, <1>9, <1>10, <1>11, <1>14, <1>15 DEF Next

\* Every step keeps the invariant.
LEMMA NextFormInv == ASSUME FormInv, [Next]_vars PROVE FormInv'
  BY NextPageInv, NextSavingInv DEF FormInv, PageInv, DraftInv

\* In every state of the edit forms and the lists under them: one fetch of
\* lists at a time, the flag panelDataFetchInFlightRef says so, what it has
\* been answered is not older than the screen, the screen not newer than the
\* database; and the form holds what its kind promises.  (App.tsx:3157-3176
\* and the effects at 2668-2683, 2904-2974, 4813-4879, 6476-6484.)
THEOREM FormInvariant == Spec => []FormInv
  BY InitFormInv, NextFormInv, PTL DEF Spec

\* A form without unsaved edits that follows its list shows the row in the URL
\* as the list on the screen has it, or the values just saved, and these only as
\* long as that list is older.  (App.tsx:2668-2683, 4813-4825, 6476-6484.)
THEOREM UneditedFormsFollow == Spec => []UneditedFollowsList
  <1>1. FormInv => UneditedFollowsList
    <2> SUFFICES ASSUME FormInv, form.refill # "row", Visible
                 PROVE  /\ edited = "no" => draft = Content(subj, shown[List])
                        /\ edited = "saved" => draft.of = subj /\ draft.ver > shown[List]
      BY DEF UneditedFollowsList
    <2>1. /\ draft.of = subj
          /\ edited = "no" => draft.ver = shown[List]
          /\ edited = "saved" => draft.ver > shown[List]
      BY DEF FormInv, FollowsList, Visible
    <2>2. draft = [of |-> draft.of, ver |-> draft.ver]
      BY DEF FormInv, DraftTypeOK
    <2>3. QED
      BY <2>1, <2>2 DEF Content
  <1>2. QED
    BY <1>1, FormInvariant, PTL

\* A form that takes nothing from the answer to its save is never filled with
\* another row than the one in the URL.  (App.tsx:2944-2974, 4813-4825.)
THEOREM FormsAreOfSelected == Spec => []DraftIsOfSelected
  <1>1. FormInv => DraftIsOfSelected
    BY DEF FormInv, FilledOnce, FollowsList, DraftIsOfSelected, Visible, Content
  <1>2. QED
    BY <1>1, FormInvariant, PTL

\* No step takes the unsaved edits of a form that is filled once, unless the
\* row changes or the answer to the form's own save arrives.
LEMMA EditsSurvive ==
  ASSUME FormInv, [Next]_vars, form.refill = "row", edited = "yes", edited' = "no"
  PROVE  subj' # subj \/ (form.reply /\ sent' # sent)
  <1>1. hydrated = subj
    BY DEF FormInv, FilledOnce
  <1>2. ASSUME NEW s, Select(s) PROVE subj' # subj
    BY <1>2 DEF Select, Keep
  <1>3. ASSUME NEW f \in fetches, ListArrives(f) PROVE FALSE
    <2>1. ~Refills(subj, Patched(f))
      BY <1>1 DEF Refills
    <2>2. QED
      BY <1>3, <2>1 DEF ListArrives, Hydrate, Keep
  <1>4. ASSUME NEW s \in sent, Saved(s) PROVE form.reply /\ sent' # sent
    <2>1. ~form.own
      BY FormKinds DEF FormInv, DraftTypeOK
    <2>2. form.reply
      BY <1>4, <2>1 DEF Saved, ShowsSaved
    <2>3. sent' = sent \ {s}
      BY <1>4 DEF Saved, Answer, AnswerQuietly
    <2>4. QED
      BY <2>2, <2>3
  <1>5. ASSUME UNCHANGED edited PROVE FALSE
    BY <1>5
  <1>6. CASE Next
    <2>1. \/ \E s : Select(s)
          \/ \E f \in fetches : ListArrives(f)
          \/ \E s \in sent : Saved(s)
          \/ UNCHANGED edited \/ edited' = "yes" \/ edited' = "saving"
      BY <1>6 DEF Next, GoTo, Switch, LogoutLeaves, Edit, Save, SaveFails, draftVars
    <2>2. QED
      BY <1>2, <1>3, <1>4, <1>5, <2>1
  <1>7. CASE UNCHANGED vars
    BY <1>5, <1>7 DEF vars
  <1>8. QED
    BY <1>6, <1>7

\* Unsaved rules and CCD survive every poll.  (App.tsx:2904-2974, 4841-4879.)
THEOREM UnsavedEditsSurvive == Spec => EditsSurvivePolls
  <1>1. FormInv /\ [Next]_vars =>
          [form.refill = "row" /\ edited = "yes" /\ edited' = "no" =>
             subj' # subj \/ (form.reply /\ sent' # sent)]_vars
    BY EditsSurvive
  <1>2. QED
    BY <1>1, FormInvariant, PTL DEF Spec, EditsSurvivePolls

-----------------------------------------------------------------------------
(* The refinement.                                                         *)

\* The first screen is one of PanelView.
LEMMA InitView == Init => View!Init
  BY DEF Init, PanelInit, View!Init

\* Only the answers to fetches, logouts and writes change the two variables
\* of PanelView, each by a step of it.
LEMMA NextView == ASSUME FormInv, [Next]_vars PROVE [View!Next]_(View!viewVars)
  <1>1. PanelInv /\ TypeOK
    BY DEF FormInv, PanelInv
  <1>2. ASSUME NEW f \in fetches, Deliver(f) PROVE View!Show
    <2>1. UNCHANGED db
      BY <1>2 DEF Deliver
    <2>2. QED
      BY <1>1, <1>2, <2>1, DeliverShows DEF View!Show
  <1>3. CASE Logout
    <2>1. /\ shown' = [k \in Keys |-> IF k \in Forgotten THEN 0 ELSE shown[k]]
          /\ UNCHANGED db
      BY <1>3 DEF Logout
    <2>2. View!Forget
      BY <1>1, <2>1 DEF View!Forget, TypeOK
    <2>3. QED
      BY <2>2 DEF View!Next
  <1>4. ASSUME NEW s \in sent, Execute(s) PROVE View!Write
    <2>1. UNCHANGED shown
      BY <1>4 DEF Execute
    <2>2. QED
      BY <1>1, <1>4, <2>1, ExecuteWrites DEF View!Write
  <1>5. ASSUME NEW k \in Keys, Elsewhere(k) PROVE View!Write
    <2>1. UNCHANGED shown
      BY <1>5 DEF Elsewhere
    <2>2. QED
      BY <1>1, <1>5, <2>1, ElsewhereWrites DEF View!Write
  <1>6. CASE UNCHANGED <<shown, db>>
    BY <1>6 DEF View!viewVars
  <1>7. \/ \E f \in fetches : Deliver(f)
        \/ Logout
        \/ \E s \in sent : Execute(s)
        \/ \E k \in Keys : Elsewhere(k)
        \/ UNCHANGED <<shown, db>>
    <2>1. CASE Next
      <3>1. ASSUME NEW s \in sent, Saved(s) PROVE UNCHANGED <<shown, db>>
        BY <3>1 DEF Saved, Answer, AnswerQuietly
      <3>2. QED
        BY <2>1, <3>1 DEF Next, GoTo, Navigate, Switch, LogoutLeaves, ListArrives, Edit, Save,
              Send, SaveFails, Refuse, Poll, Hide, Unhide, Login, FetchFails, Serve
    <2>2. CASE UNCHANGED vars
      BY <2>2 DEF vars
    <2>3. QED
      BY <2>1, <2>2
  <1>8. QED
    BY <1>2, <1>3, <1>4, <1>5, <1>6, <1>7 DEF View!Next

\* What is on the screen is always a view of the database that never goes
\* back to an older list, whatever pages are opened, forms saved, fetches
\* dropped, answered late or lost.  (refreshPanelData, App.tsx:3157-3176.)
THEOREM ScreenImplementsView == Spec => ImplementsView
  <1>1. Init => View!Init
    BY InitView
  <1>2. FormInv /\ [Next]_vars => [View!Next]_(View!viewVars)
    BY NextView
  <1>3. QED
    BY <1>1, <1>2, FormInvariant, PTL DEF Spec, ImplementsView, View!Spec
=============================================================================
