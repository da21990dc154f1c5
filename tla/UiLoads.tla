------------------------------- MODULE UiLoads -------------------------------
(***************************************************************************)
(* What the detail pages of App.tsx load by themselves: the settings, raw  *)
(* configuration, key materials, root certificate, journal, services, DNS  *)
(* and firewall of a server, the sessions and profile options of a user,   *)
(* the material of a certificate, the tasks, the backups.  Each has an     *)
(* effect that sends GETs when the page is entered, and a state variable   *)
(* the answer is put in.  They differ in where the id comes from, in       *)
(* whether the effect's cleanup discards an answer that comes late, in     *)
(* what becomes of the old content, and in whether it is written back.     *)
(* Most load for the id in the URL and share no state, so one of them is   *)
(* looked at in a behaviour.  The root certificate of a server and the     *)
(* material of its certificate are a second step: their ids come from the  *)
(* OpenVPN settings in the component's state, which another effect loads   *)
(* and which are those of the former server until its answer is there.     *)
(* (The tabs "services" and "client" of a server have no entry in the page *)
(* and show nothing: their loads are left out.)                            *)
(***************************************************************************)
EXTENDS Naturals, FiniteSets

CONSTANTS
  Subjects,    \* ids that the URL may select
  NoSubject,
  Loads,       \* the loads that are looked at
  MaxVersion,  \* bound: changes of the data of a subject
  MaxMoves,    \* bound: navigations, edits and writes
  MaxGets,     \* bound: GETs in flight
  MaxFails     \* bound: failed GETs

VARIABLES
  load,     \* which load this is
  open,     \* its page is open
  subj,     \* the id in the URL
  box,      \* the state variable: whose data it holds, and how old
  status,   \* "idle", "loading", "ok" or "failed"
  gets,     \* GETs in flight
  writes,   \* write requests in flight
  settings, \* serverOpenVpnSettings: whose they are, and the GET for them
  db,       \* version of the data of each subject
  hidden,   \* document.hidden
  moves,
  fails,
  misdirected  \* a write carried the data of another subject

vars == <<load, open, subj, box, status, gets, writes, settings, db, hidden, moves, fails,
          misdirected>>
rest == <<load, writes, db, hidden, fails, misdirected>>

-----------------------------------------------------------------------------
(* The loads.  via: where the id comes from - the URL ("url"; "object" when *)
(* the effect runs again with every new settings object), the root named   *)
(* by the settings ("root"), the server's own certificate signed by that   *)
(* root ("cert").  cancels: the cleanup discards a late answer.  begin:    *)
(* what the start of a load does to content ("keep", or "foreign": drop    *)
(* what is of another id).  fail: what an error leaves ("keep" or          *)
(* "empty").  hides: the form is not shown while it loads or after an      *)
(* error.  polls: loaded again by an interval ("always", or "visible": not *)
(* in a hidden tab).  keyed: the data depends on the URL.  writes: "no",   *)
(* or what the answer to a write does: "none", "own" (it is put there),    *)
(* "refetch" (a GET that no cleanup cancels) or "settings" (it replaces    *)
(* the settings).                                                          *)

networkInfo == [via |-> "url", cancels |-> TRUE, begin |-> "keep", fail |-> "keep",
                hides |-> FALSE, polls |-> "no", keyed |-> TRUE, writes |-> "no"]
connectionOptions == [networkInfo EXCEPT !.fail = "empty"]
openvpnSettings == [connectionOptions EXCEPT !.hides = TRUE, !.writes = "own"]
rawConfig == [connectionOptions EXCEPT !.via = "object", !.writes = "own"]
openvpnMaterials == [connectionOptions EXCEPT !.writes = "refetch"]
rootCaSummary == [networkInfo EXCEPT !.via = "root", !.begin = "foreign", !.writes = "settings"]
serverCertMaterials == [connectionOptions EXCEPT !.via = "cert", !.writes = "settings"]
journal == connectionOptions
servicesAndDns == [networkInfo EXCEPT !.cancels = FALSE, !.writes = "none"]
serverFirewall == [networkInfo EXCEPT !.cancels = FALSE, !.writes = "own"]
certMaterialSummary == networkInfo
userSessions == [connectionOptions EXCEPT !.cancels = FALSE, !.polls = "visible"]
tasks == [connectionOptions EXCEPT !.polls = "always", !.keyed = FALSE, !.writes = "refetch"]
backups == [networkInfo EXCEPT !.cancels = FALSE, !.keyed = FALSE, !.writes = "refetch"]
adminProfile == [connectionOptions EXCEPT !.cancels = FALSE, !.keyed = FALSE, !.writes = "refetch"]

AllLoads == {networkInfo, connectionOptions, openvpnSettings, rawConfig, openvpnMaterials,
             rootCaSummary, serverCertMaterials, journal, servicesAndDns, serverFirewall,
             certMaterialSummary, userSessions, tasks, backups, adminProfile}

ASSUME LoadsAssumption ==
  /\ Loads \subseteq AllLoads
  /\ NoSubject \notin Subjects
  /\ MaxVersion \in Nat \ {0}
  /\ MaxMoves \in Nat
  /\ MaxGets \in Nat
  /\ MaxFails \in Nat

-----------------------------------------------------------------------------
Empty == [of |-> NoSubject, ver |-> 0]
Content == [of : Subjects \cup {NoSubject}, ver : 0..MaxVersion]

\* A GET: the id it asks for, the answer, who sent it, and whether it still counts.
Get == [id : 1..MaxGets, of : Subjects, ver : 0..MaxVersion, by : {"effect", "write"},
        live : BOOLEAN]

\* A write: the id in its URL and whose data is in its body.
WriteReq == [to : Subjects, of : Subjects \cup {NoSubject}, done : BOOLEAN]

\* The settings in the component's state: the server whose root they name, or
\* none; the server of the GET that still counts; and whether they came with
\* the answer to a write of a page that was left.
Settings == [of : Subjects \cup {NoSubject}, asked : Subjects \cup {NoSubject}, stray : BOOLEAN]

TypeOK ==
  /\ load \in Loads
  /\ open \in BOOLEAN
  /\ subj \in Subjects
  /\ box \in Content
  /\ status \in {"idle", "loading", "ok", "failed"}
  /\ gets \subseteq Get
  /\ writes \subseteq WriteReq
  /\ settings \in Settings
  /\ db \in [Subjects -> 1..MaxVersion]
  /\ hidden \in BOOLEAN
  /\ moves \in 0..MaxMoves
  /\ fails \in 0..MaxFails
  /\ misdirected \in BOOLEAN

Init ==
  /\ load \in Loads
  /\ open = FALSE
  /\ subj \in Subjects
  /\ box = Empty
  /\ status = "idle"
  /\ gets = {}
  /\ writes = {}
  /\ settings = [of |-> NoSubject, asked |-> NoSubject, stray |-> FALSE]
  /\ db = [s \in Subjects |-> 1]
  /\ hidden = FALSE
  /\ moves = 0
  /\ fails = 0
  /\ misdirected = FALSE

Move == moves < MaxMoves /\ moves' = moves + 1

-----------------------------------------------------------------------------
\* Mutant: the flag of the cleanup is forgotten.
NoCleanup == gets

\* The cleanup of an effect: `cancelled = true` in the loads that have it.  A
\* GET that a handler sent after a write has no such flag.
Cleanup ==
  {IF load.cancels /\ g.by = "effect" THEN [g EXCEPT !.live = FALSE] ELSE g : g \in gets}

FreeIds(gs) == {i \in 1..MaxGets : \A g \in gs : g.id # i}

\* A GET for the data of s is sent next to those in gs.
SendGet(gs, s, by) ==
  \E i \in FreeIds(gs) :
    gets' = gs \cup {[id |-> i, of |-> s, ver |-> 0, by |-> by, live |-> TRUE]}

\* The id the effect loads for, on the page of s and with the settings of k.
Wanted(k, s) ==
  CASE load.via = "root" -> k
    [] load.via = "cert" -> IF k = s THEN s ELSE NoSubject
    [] OTHER -> s

\* Mutant: the old summary stays until the new one is there.
BeginKeeping(gs, s) ==
  \/ /\ s = NoSubject
     /\ gets' = gs
     /\ status' = "idle"
     /\ UNCHANGED box
  \/ /\ s # NoSubject
     /\ SendGet(gs, s, "effect")
     /\ status' = "loading"
     /\ UNCHANGED box

\* The effect of the page runs for the id s, or finds none and shows nothing.
Begin(gs, s) ==
  \/ /\ s = NoSubject
     /\ gets' = gs
     /\ status' = "idle"
     /\ box' = Empty
  \/ /\ s # NoSubject
     /\ SendGet(gs, s, "effect")
     /\ status' = "loading"
     /\ box' = IF load.begin = "foreign" /\ box.of # s THEN Empty ELSE box

\* The effect that loads the settings runs too, in the loads that need them.
AskSettings(s) ==
  settings' = IF load.via = "url" THEN settings
              ELSE [settings EXCEPT !.asked = s, !.stray = FALSE]

Enter(s) ==
  /\ Move
  /\ ~open
  /\ open' = TRUE
  /\ subj' = s
  /\ Begin(gets, Wanted(settings.of, s))
  /\ AskSettings(s)
  /\ UNCHANGED rest

\* The URL selects another id on the same page: cleanups, then the effects.
Switch(s) ==
  /\ Move
  /\ open
  /\ load.keyed
  /\ s # subj
  /\ subj' = s
  /\ Begin(Cleanup, Wanted(settings.of, s))
  /\ AskSettings(s)
  /\ UNCHANGED <<open, rest>>

\* Another tab, of this or of another server, may ask for the settings itself.
Leave ==
  /\ Move
  /\ open
  /\ open' = FALSE
  /\ gets' = Cleanup
  /\ \E s \in Subjects \cup {NoSubject} : AskSettings(s)
  /\ UNCHANGED <<subj, box, status, rest>>

\* setServerOpenVpnSettings: the effects that depend on what changed run again.
DependsOn(new) ==
  \/ load.via = "object"
  \/ load.via \in {"root", "cert"} /\ new.of # settings.of

SetSettings(new) ==
  /\ settings' = new
  /\ IF open /\ DependsOn(new)
     THEN Begin(Cleanup, Wanted(new.of, subj))
     ELSE UNCHANGED <<box, status, gets>>

\* The answer to the GET for the settings: those of the server, with a root or
\* without, or an error, which leaves none.
SettingsArrive ==
  /\ settings.asked # NoSubject
  /\ \E k \in {settings.asked, NoSubject} :
       SetSettings([of |-> k, asked |-> NoSubject, stray |-> FALSE])
  /\ UNCHANGED <<open, subj, moves, rest>>

\* The interval of the loads that poll; a GET may still be unanswered.
Poll ==
  /\ open
  /\ load.polls = "always" \/ (load.polls = "visible" /\ ~hidden)
  /\ SendGet(gets, subj, "effect")
  /\ UNCHANGED <<open, subj, box, status, settings, moves, rest>>

\* The tab is hidden or shown again; one interval looks at it.
Hide ==
  /\ Move
  /\ load.polls = "visible"
  /\ ~hidden
  /\ hidden' = TRUE
  /\ UNCHANGED <<load, open, subj, box, status, gets, writes, settings, db, fails, misdirected>>

Unhide ==
  /\ hidden
  /\ hidden' = FALSE
  /\ UNCHANGED <<load, open, subj, box, status, gets, writes, settings, db, moves, fails,
                 misdirected>>

-----------------------------------------------------------------------------
\* The panel answers with the data as it is then.
Serve(g) ==
  /\ g.ver = 0
  /\ gets' = (gets \ {g}) \cup {[g EXCEPT !.ver = db[g.of]]}
  /\ UNCHANGED <<open, subj, box, status, settings, moves, rest>>

\* Mutant: the first answer for an id is kept.
DeliverFirst(g) ==
  /\ g.ver > 0
  /\ gets' = gets \ {g}
  /\ IF g.live THEN /\ box' = IF box.of = g.of THEN box ELSE [of |-> g.of, ver |-> g.ver]
                    /\ status' = "ok"
               ELSE UNCHANGED <<box, status>>
  /\ UNCHANGED <<open, subj, settings, moves, rest>>

Deliver(g) ==
  /\ g.ver > 0
  /\ gets' = gets \ {g}
  /\ IF g.live THEN box' = [of |-> g.of, ver |-> g.ver] /\ status' = "ok"
               ELSE UNCHANGED <<box, status>>
  /\ UNCHANGED <<open, subj, settings, moves, rest>>

\* Mutant: the error path does not end the load.
GetFailsSilently(g) ==
  /\ fails < MaxFails
  /\ fails' = fails + 1
  /\ gets' = gets \ {g}
  /\ UNCHANGED <<load, open, subj, box, status, writes, settings, db, hidden, moves, misdirected>>

\* Mutant: an error sets the state variable to null.
GetFailsNull(g) ==
  /\ fails < MaxFails
  /\ fails' = fails + 1
  /\ gets' = gets \ {g}
  /\ box' = NoSubject
  /\ status' = "failed"
  /\ UNCHANGED <<load, open, subj, writes, settings, db, hidden, moves, misdirected>>

GetFails(g) ==
  /\ fails < MaxFails
  /\ fails' = fails + 1
  /\ gets' = gets \ {g}
  /\ IF g.live THEN /\ status' = "failed"
                    /\ box' = IF load.fail = "empty" THEN Empty ELSE box
               ELSE UNCHANGED <<box, status>>
  /\ UNCHANGED <<load, open, subj, writes, settings, db, hidden, moves, misdirected>>

-----------------------------------------------------------------------------
\* The form can be used: the page is open and does not hide it.
Usable == open /\ load.writes # "no" /\ (load.hides => status = "ok")

\* The operator writes the form back: apply, save, a material or a unit.
\* One write runs at a time (the busy flags).
Write ==
  /\ Move
  /\ Usable
  /\ writes = {}
  /\ writes' = {[to |-> subj, of |-> box.of, done |-> FALSE]}
  /\ misdirected' = (misdirected \/ (load.writes \in {"own", "none"} /\ box.of \notin {subj, NoSubject}))
  /\ UNCHANGED <<load, open, subj, box, status, gets, settings, db, hidden, fails>>

Execute(w) ==
  /\ ~w.done
  /\ db[w.to] < MaxVersion
  /\ db' = [db EXCEPT ![w.to] = @ + 1]
  /\ writes' = {[w EXCEPT !.done = TRUE]}
  /\ UNCHANGED <<load, open, subj, box, status, gets, settings, hidden, moves, fails, misdirected>>

\* The answer is put into the state variable.  Where the settings are among
\* what the write changed, the effect that depends on them runs again.
PutAnswer(w) ==
  /\ box' = [of |-> w.to, ver |-> db[w.to]]
  /\ IF open /\ load.via = "object"
     THEN SendGet(Cleanup, subj, "effect") /\ status' = "loading"
     ELSE UNCHANGED <<gets, status>>
  /\ UNCHANGED settings

\* The answer replaces the settings: with those of the server that was written
\* to, without a root when it was removed, or with a part that leaves the root.
\* After a removal the summary is dropped, whether the settings can be read or not.
PutSettings(w) ==
  \/ \E k \in {settings.of, w.to, NoSubject} :
       SetSettings([settings EXCEPT !.of = k,
                      !.stray = IF k = settings.of THEN @ ELSE k \notin {subj, NoSubject}])
  \/ /\ load.via = "root"
     /\ box' = Empty
     /\ status' = "idle"
     /\ UNCHANGED <<gets, settings>>

\* The answer to a write, for the id the handler was made for and not for the
\* one in the URL by then.
Written(w) ==
  /\ w.done
  /\ writes' = {}
  /\ \/ load.writes = "own" /\ PutAnswer(w)
     \/ load.writes = "refetch" /\ SendGet(gets, w.to, "write") /\ UNCHANGED <<box, status, settings>>
     \/ load.writes = "settings" /\ PutSettings(w)
     \/ load.writes = "none" /\ UNCHANGED <<box, status, gets, settings>>
  /\ UNCHANGED <<load, open, subj, db, hidden, moves, fails, misdirected>>

Refused(w) ==
  /\ ~w.done
  /\ writes' = {}
  /\ UNCHANGED <<load, open, subj, box, status, gets, settings, db, hidden, moves, fails, misdirected>>

\* Others change the data.
Elsewhere(s) ==
  /\ db[s] < MaxVersion
  /\ db' = [db EXCEPT ![s] = @ + 1]
  /\ UNCHANGED <<load, open, subj, box, status, gets, writes, settings, hidden, moves, fails,
                 misdirected>>

Next ==
  \/ \E s \in Subjects : Enter(s) \/ Switch(s) \/ Elsewhere(s)
  \/ Leave
  \/ SettingsArrive
  \/ Poll
  \/ Hide
  \/ Unhide
  \/ \E g \in gets : Serve(g) \/ Deliver(g) \/ GetFails(g)
  \/ Write
  \/ \E w \in writes : Execute(w) \/ Written(w) \/ Refused(w)

Spec == Init /\ [][Next]_vars

\* Every GET is answered, and the intervals fire.
FairSpec ==
  /\ Spec
  /\ WF_vars(Poll)
  /\ \A i \in 1..MaxGets : WF_vars(\E g \in gets : g.id = i /\ (Serve(g) \/ Deliver(g)))

-----------------------------------------------------------------------------
(* Properties.                                                             *)

\* The inductive invariant of the two properties below: of a load with a
\* cleanup whose content no write replaces, an answer that still counts is for
\* the id the effect would ask for now, on the open page; the root shown is the
\* one the settings name; and once the settings of the server in the URL are
\* answered, they are that server's, unless a write of a page that was left has
\* replaced them.  (The `cancelled` flags of the effects at App.tsx:4408-4811;
\* panelRootCaIdForServer, App.tsx:2811.)
Cancelling == load.cancels /\ load.writes \in {"no", "settings"}
LiveIsWanted ==
  Cancelling => \A g \in gets : /\ g.by = "effect"
                                /\ g.live => open /\ g.of = Wanted(settings.of, subj)
ReadsOnly == load.writes = "no" => writes = {}
AskedIsSelected == load.via # "url" /\ open => settings.asked \in {subj, NoSubject}
SettingsAreOfSelected ==
  load.via # "url" /\ open /\ settings.asked = NoSubject /\ ~settings.stray =>
    settings.of \in {subj, NoSubject}
RootIsOfSettings ==
  load.via = "root" /\ open /\ box # Empty => box.of = settings.of /\ settings.of # NoSubject

\* A load whose cleanup discards late answers, and whose content no write
\* replaces, shows after its last answer the data of the id in the URL - in
\* whatever order the answers for this id and for the ones before arrive, and
\* also where the id comes from settings that are still another server's.
\* (The `cancelled` flags of the effects at App.tsx:4408-4811, and the filter of
\* the server's own certificates, 2784-2806.)
AnswerIsOfSelected ==
  Cancelling /\ load.via # "root" /\ open /\ status = "ok" => box.of = subj

\* The summary of the root certificate is loaded for the root that the settings
\* in the state name, at first the former server's.  Once the GET for the
\* settings of the server in the URL is answered, with or without an error, the
\* root on the page is never another server's, not even while it loads, unless
\* a write sent from another server's page is answered after that.
\* (panelRootCaIdForServer, App.tsx:2811; setServerRootCaSummary, 4640-4644.)
RootCaIsOfSelected ==
  load.via = "root" /\ open /\ settings.asked = NoSubject /\ ~settings.stray /\ box # Empty =>
    box.of = subj

LoadInv ==
  /\ TypeOK /\ LiveIsWanted /\ ReadsOnly /\ AskedIsSelected /\ SettingsAreOfSelected
  /\ RootIsOfSettings /\ AnswerIsOfSelected

\* An open page does not stay in its loading state: every load ends in an
\* answer or in an error.  (The finally blocks of the same effects.)
LoadingEnds == (open /\ status = "loading") ~> (~open \/ status # "loading")

\* A list that is polled comes to show the database once nobody navigates
\* and nothing changes, in spite of answers out of order and of failures; the
\* sessions only in a tab that is not hidden.
\* (loadUserProfileSessions, App.tsx:4392-4402; tasks, App.tsx:5075-5092.)
PolledConverges ==
  <>[](open /\ (load.polls = "always" \/ (load.polls = "visible" /\ ~hidden)) =>
         box = [of |-> subj, ver |-> db[subj]])

\* What the documentation says of the firewall tab ("rules on this server",
\* DocumentationPage.tsx:363): a write to a server carries the data of that
\* server.
WritesOwnData == ~misdirected
=============================================================================
