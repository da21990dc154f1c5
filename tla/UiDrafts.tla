------------------------------- MODULE UiDrafts -------------------------------
(***************************************************************************)
(* The edit forms that are filled from the polled lists: the profile, the  *)
(* firewall rules and the CCD of a user, the fields and the rules of an    *)
(* organization, the agent address of a server, the profile of an          *)
(* administrator.  A React effect copies the selected row into the form;   *)
(* the forms differ in when the effect runs again.  The module composes    *)
(* one form with UiPanelData: the effect is part of the step that changed  *)
(* what it depends on.                                                     *)
(***************************************************************************)
EXTENDS UiPanelData

CONSTANTS
  Subjects,  \* rows that can be selected: users, organizations, ...
  NoSubject,
  List,      \* the list the form is filled from
  FormRoute, \* the page of the form
  SaveOp     \* the request that saves the form

ASSUME FormAssumption ==
  /\ NoSubject \notin Subjects
  /\ List \in Keys
  /\ FormRoute \in Routes
  /\ SaveOp \in Ops
  /\ List \in OpKeys[SaveOp]
  /\ Home # FormRoute

VARIABLES
  form,      \* which form this is
  subj,      \* the row selected by the URL
  draft,     \* content of the form: a row and the version of it, but for unsaved edits
  edited,    \* the operator's edits: "no", "yes", "saving", or "saved" values
  hydrated,  \* the ref of the forms that are filled once
  saving     \* the row the request under way was sent for

draftVars == <<form, subj, draft, edited, hydrated, saving>>
vars == <<token, route, hidden, inFlight, fetches, shown, db, sent, moves, fails,
          form, subj, draft, edited, hydrated, saving>>

-----------------------------------------------------------------------------
(* The forms.  refill: the effect runs again with every new list           *)
(* ("list"), when the fields of the row have changed ("fields"), or only   *)
(* for another row ("row").  forgets: the ref is reset when the page is    *)
(* left.  clears: so is the content.  reply: the answer to the save replaces the content.  reloads:    *)
(* the handler asks for the list again.  own: the request is for the row   *)
(* the form was filled with and not for the one in the URL.                *)

UserProfileForm == [refill |-> "list", forgets |-> FALSE, clears |-> FALSE, reply |-> FALSE,
                    reloads |-> TRUE, own |-> FALSE]
UserFirewallForm == [refill |-> "row", forgets |-> TRUE, clears |-> TRUE, reply |-> TRUE,
                     reloads |-> FALSE, own |-> FALSE]
UserCcdForm == [UserFirewallForm EXCEPT !.reply = FALSE]
OrganizationForm == [UserProfileForm EXCEPT !.own = TRUE]
OrganizationFirewallForm == [UserFirewallForm EXCEPT !.clears = FALSE]
ServerAgentForm == [UserProfileForm EXCEPT !.refill = "fields"]
AdminProfileForm == ServerAgentForm

Forms == {UserProfileForm, UserFirewallForm, UserCcdForm, OrganizationForm,
          OrganizationFirewallForm, ServerAgentForm, AdminProfileForm}

Empty == [of |-> NoSubject, ver |-> 0]
Content(s, v) == [of |-> s, ver |-> v]

DraftTypeOK ==
  /\ form \in Forms
  /\ subj \in Subjects \cup {NoSubject}
  /\ draft \in [of : Subjects \cup {NoSubject}, ver : Nat]
  /\ edited \in {"no", "yes", "saving", "saved"}
  /\ hydrated \in Subjects \cup {NoSubject}
  /\ saving \in Subjects \cup {NoSubject}

Init ==
  /\ PanelInit
  /\ form \in Forms
  /\ subj \in IF route = FormRoute THEN Subjects ELSE {NoSubject}
  /\ draft = Empty
  /\ edited = "no"
  /\ hydrated = NoSubject
  /\ saving = NoSubject

-----------------------------------------------------------------------------
\* The effect copies the row of the list, when the list has it.
Fill(s, list) ==
  /\ draft' = Content(s, list[List])
  /\ edited' = "no"
  /\ hydrated' = s

Keep == UNCHANGED <<draft, edited, hydrated>>

\* Mutant: a form that is filled once is filled with every list.
RefillsAlways(s, list) == TRUE

\* Mutant: a form is filled when its row is selected and never again.
RefillsOnce(s, list) == hydrated # s

\* Does the effect copy the row of s when the list is a new one?  A change of
\* the list stands for a change of the fields of the row that is selected.
Refills(s, list) ==
  \/ form.refill = "list"
  \/ form.refill = "fields" /\ list[List] # shown[List]
  \/ form.refill = "row" /\ hydrated # s

Hydrate(s, list) ==
  IF s # NoSubject /\ list[List] > 0 /\ Refills(s, list) THEN Fill(s, list) ELSE Keep

\* Leaving the page: the effects clear the rules and the CCD of a user; of the
\* rules of an organization only the ref is reset.
Leave ==
  /\ draft' = IF form.clears THEN Empty ELSE draft
  /\ hydrated' = IF form.forgets THEN NoSubject ELSE hydrated
  /\ edited' = "no"

\* Mutant: the form of the new row waits for the next list.
SelectLate(s) ==
  /\ subj' = s
  /\ UNCHANGED <<form, saving, draft, hydrated>>
  /\ edited' = IF s = subj THEN edited ELSE "no"

\* The URL selects row s, or none.
Select(s) ==
  /\ subj' = s
  /\ UNCHANGED <<form, saving>>
  /\ \/ s = subj /\ Keep
     \/ s # subj /\ s = NoSubject /\ Leave
     \/ /\ s # subj /\ s # NoSubject
        /\ IF shown[List] > 0 THEN Fill(s, shown)
           ELSE edited' = "no" /\ UNCHANGED <<draft, hydrated>>

Selectable(r) == IF r = FormRoute THEN Subjects ELSE {NoSubject}

GoTo(r) == Navigate(r) /\ \E s \in Selectable(r) : Select(s)

\* Another row on the same page; the poll effect is mounted again.
Switch(s) ==
  /\ Move
  /\ route = FormRoute
  /\ s # subj
  /\ Select(s)
  /\ MountTick(route, token)
  /\ UNCHANGED <<token, route, hidden, shown, db, sent, fails>>

LogoutLeaves == Logout /\ \E s \in Selectable(Home) : Select(s)

\* A new list: the effect runs with it.
ListArrives(f) ==
  /\ Deliver(f)
  /\ IF List \in f.keys THEN Hydrate(subj, Patched(f)) ELSE Keep
  /\ UNCHANGED <<form, subj, saving>>

\* The form is on the screen when its row is in the list.
Visible == token /\ subj # NoSubject /\ shown[List] > 0

Edit ==
  /\ Move
  /\ Visible
  /\ edited' = "yes"
  /\ UNCHANGED <<token, route, hidden, inFlight, fetches, shown, db, sent, fails>>
  /\ UNCHANGED <<form, subj, draft, hydrated, saving>>

Save ==
  /\ Visible
  /\ Send(SaveOp)
  /\ saving' = IF form.own THEN draft.of ELSE subj
  /\ edited' = "saving"
  /\ UNCHANGED <<form, subj, draft, hydrated>>

\* What the form shows once the save is answered: the answer, or what was sent
\* when nothing else was typed or copied into it meanwhile.
ShowsSaved(s) ==
  \/ /\ form.reply
     /\ draft' = Content(saving, s.wrote[List])
     /\ edited' = "no"
  \/ /\ ~form.reply
     /\ edited = "saving"
     /\ draft' = Content(draft.of, s.wrote[List])
     /\ edited' = "saved"
  \/ /\ ~form.reply
     /\ edited # "saving"
     /\ UNCHANGED <<draft, edited>>

\* The answer to the save.  The rules of a user or an organization are
\* replaced by the answer, whatever row is selected by then; the form of an
\* organization leads back to the list, from wherever the operator is by then.
Saved(s) ==
  /\ s.op = SaveOp
  /\ \/ /\ form.own
        /\ Answer(s, Home)
        /\ draft' = Empty
        /\ edited' = "no"
        /\ subj' \in Selectable(Home)
        /\ UNCHANGED hydrated
     \/ /\ ~form.own
        /\ IF form.reloads THEN Answer(s, route) ELSE AnswerQuietly(s)
        /\ ShowsSaved(s)
        /\ UNCHANGED <<subj, hydrated>>
  /\ saving' = NoSubject
  /\ UNCHANGED form

SaveFails(s) ==
  /\ s.op = SaveOp
  /\ Refuse(s)
  /\ edited' = IF edited = "saving" THEN "yes" ELSE edited
  /\ saving' = NoSubject
  /\ UNCHANGED <<form, subj, draft, hydrated>>

Next ==
  \/ \E r \in Routes : GoTo(r)
  \/ \E s \in Subjects : Switch(s)
  \/ LogoutLeaves
  \/ \E f \in fetches : ListArrives(f)
  \/ Edit
  \/ Save
  \/ \E s \in sent : Saved(s) \/ SaveFails(s)
  \/ /\ \/ Poll
        \/ Hide
        \/ Unhide
        \/ Login
        \/ \E f \in fetches : FetchFails(f) \/ \E k \in Keys : Serve(f, k)
        \/ \E s \in sent : Execute(s)
        \/ \E k \in Keys : Elsewhere(k)
     /\ UNCHANGED draftVars

Spec == Init /\ [][Next]_vars

\* The interval of the poll effect fires, and the panel answers every GET.
FairSpec ==
  /\ Spec
  /\ WF_vars(Poll /\ UNCHANGED draftVars)
  /\ WF_vars(\E f \in fetches : \/ ListArrives(f)
                               \/ \E k \in Keys : Serve(f, k) /\ UNCHANGED draftVars)

-----------------------------------------------------------------------------
(* Properties.                                                             *)

\* The inductive invariant: that of the polling (UiPanelData), and what each
\* kind of form keeps.  A form that is filled once is filled for the row in the
\* URL as soon as the list is there, and edits are edits of that row; a form
\* that follows its list holds the row in the URL, never older than the list on
\* the screen, which has not what a save that awaits its answer has written.
\* (panelDataFetchInFlightRef, App.tsx:3157-3176; the effects of the forms.)
EditsHaveRow == edited # "no" => subj # NoSubject
FilledOnce ==
  form.refill = "row" =>
    /\ subj # NoSubject /\ shown[List] > 0 => hydrated = subj
    /\ edited # "no" => hydrated = subj
    /\ ~form.reply /\ hydrated # NoSubject => draft.of = hydrated
FollowsList ==
  form.refill # "row" /\ subj # NoSubject /\ shown[List] > 0 =>
    /\ draft.of = subj
    /\ IF edited = "no" THEN draft.ver = shown[List] ELSE draft.ver >= shown[List]
    /\ edited = "saved" => draft.ver > shown[List]
SavingIsNewer ==
  form.refill # "row" /\ edited = "saving" =>
    \A s \in sent : s.op = SaveOp /\ s.done => s.wrote[List] > shown[List]
FormInv == PanelInv /\ DraftTypeOK /\ EditsHaveRow /\ FilledOnce /\ FollowsList /\ SavingIsNewer

\* Unsaved edits of the forms that are filled once for a row - the rules of
\* a user, the CCD of a user, the rules of an organization - survive every
\* poll: they go only with the row.  (userFirewallHydratedForUserIdRef and
\* its siblings, App.tsx:2904-2974 and 4841-4879.)
EditsSurvivePolls ==
  [][form.refill = "row" /\ edited = "yes" /\ edited' = "no" =>
       subj' # subj \/ (form.reply /\ sent' # sent)]_vars

\* A form without unsaved edits that follows its list shows the row in the URL
\* as the list on the screen has it, or the values just saved, and these only
\* as long as that list is older than they are, however navigation, polls,
\* typing and saves are interleaved.  (App.tsx:2668-2683, 4813-4825, 6476-6484.)
UneditedFollowsList ==
  form.refill # "row" /\ Visible =>
    /\ edited = "no" => draft = Content(subj, shown[List])
    /\ edited = "saved" => draft.of = subj /\ draft.ver > shown[List]

\* A form that takes nothing from the answer to its save is never filled with
\* another row than the one in the URL.  (App.tsx:2944-2974, 4813-4825.)
DraftIsOfSelected ==
  ~form.reply /\ Visible => draft.of = subj

\* Once nobody changes anything, an open page shows the database, although
\* refreshes are dropped while a fetch is under way and fetches fail.
\* (refreshPanelData and the poll effect, App.tsx:3157-3176, 4352-4372.)
PageConverges ==
  <>[](token /\ ~hidden => \A k \in RouteKeys[route] : shown[k] = db[k])

\* Once nobody changes anything, the form on an open page shows the row as the
\* database has it, although the refresh after a save is dropped or fails and a
\* list read before the save arrives after its answer.
\* (App.tsx:2668-2683, 4813-4825, 4841-4856, 6476-6484.)
FormConverges ==
  <>[](form.refill # "row" /\ Visible /\ ~hidden /\ edited \in {"no", "saved"} =>
         draft = Content(subj, db[List]))
=============================================================================
