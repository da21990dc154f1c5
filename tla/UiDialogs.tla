------------------------------ MODULE UiDialogs ------------------------------
(***************************************************************************)
(* The dialogs and forms of App.tsx that send a request, on top of the     *)
(* session (UiSession).  Each has a piece of state of its own (open, for   *)
(* what, busy, what was typed), markup that says when its buttons work,    *)
(* and a handler that sends one request or two, waits for the answers and  *)
(* closes it.  The operator may go to another page with the browser's      *)
(* buttons, the session may end and another administrator may log in       *)
(* before an answer comes.  Dialogs share no state, so one of them is      *)
(* looked at in a behaviour; NoDialog looks at the session alone.          *)
(* The handlers that nothing calls are left out (service actions, client   *)
(* versions, the view of key material).                                    *)
(***************************************************************************)
EXTENDS UiSession

CONSTANTS
  Subjects,      \* what a page is about: a server, a user, an administrator
  NoSubject,
  Dialogs,       \* the dialogs that are looked at
  NoDialog,
  MaxOpenings,   \* bound: openings of the dialog
  MaxConfirms,   \* bound: confirmations
  MaxMoves,      \* bound: page changes
  MaxLost,       \* bound: requests that fail
  Start,         \* the page a behaviour begins on
  Undisturbed,   \* bound: of MaxSteps, those not taken next to a dialog
  MaxExpired     \* bound: tokens that expire next to a dialog

VARIABLES
  dlg,    \* the dialog
  page,   \* the subject in the URL, or NoSubject on any other page
  modal,  \* the state of the dialog
  confs,  \* the confirmations that are under way
  done,   \* the requests of those that ended in success
  count,  \* confirmations so far
  marked, \* subjects whose row says "disconnecting"
  moves,
  losses

dialogVars == <<dlg, page, modal, confs, done, count, marked, moves, losses>>
vars == <<sessionVars, dialogVars>>

-----------------------------------------------------------------------------
(* The markup.  shown: on the pages of its subjects, or on any.  closes,   *)
(* confirms: its buttons work "always" or only while it is "idle"; a form  *)
(* of a page never closes.  leaving: what another page does to it: "resets"*)
(* closes it and clears its busy flag, "clears" does so when the pages of  *)
(* its kind are left, "closes" then leaves the flag as it is, "disarms"    *)
(* clears the chosen file, "unmounts" forgets the component.  opens: the   *)
(* result of an earlier opening is gone when it is opened, or is not.      *)

Idle == [shown |-> "own", closes |-> "idle", confirms |-> "idle", leaving |-> "stays",
         opens |-> "fresh"]
AnyPage == [Idle EXCEPT !.shown = "any"]
Free == [Idle EXCEPT !.closes = "always", !.confirms = "always"]
Form == [Idle EXCEPT !.closes = "never"]
FreeForm == [Form EXCEPT !.confirms = "always"]

\* The revocation has markup on the page of a user and for every other page.
userCertRevokeView == AnyPage
serverCertRevokeView == AnyPage
userCertUnlinkView == Idle
userCertBindView == [Idle EXCEPT !.leaving = "resets"]
userCertIssueView == [Free EXCEPT !.leaving = "resets"]
userSessionDisconnectView == AnyPage
adminBlockView == AnyPage
adminPasswordResetView == AnyPage
addAdminView == [Idle EXCEPT !.leaving = "clears"]
panelBackupDeleteView == Idle
restoreView == [Form EXCEPT !.leaving = "closes"]
backupFormView == Form
adminFormView == Form
myPasswordView == [Idle EXCEPT !.leaving = "closes"]
myTotpSetupView == [Idle EXCEPT !.leaving = "clears", !.opens = "asLeft"]
myTotpDisableView == [Idle EXCEPT !.leaving = "closes"]
myRecoveryView == [Idle EXCEPT !.leaving = "closes", !.opens = "asLeft"]
taskRetryView == AnyPage
agentUpdateView == [AnyPage EXCEPT !.leaving = "disarms"]
keyMaterialImportView == Idle
keyMaterialCreateView == Idle
openvpnMaterialDeleteView == Idle
applyConfirmView == AnyPage
configCheckView == Form
srvCertCreateView == Idle
serverCaIssueView == Idle
serverCaImportView == Idle
serverCaIndexImportView == Idle
srvCertImportView == Idle
serverServerCertDeleteView == Idle
serverRootCaCreateView == [Free EXCEPT !.shown = "any"]
serverRootCaImportView == [Free EXCEPT !.shown = "any"]
serverRootCaDeleteView == Idle
certMaterialUploadView == AnyPage
bindRootCaView == Form
newUserView == FreeForm
newServerView == FreeForm
newOrganizationView == FreeForm
passwordResetAcceptView == [Form EXCEPT !.leaving = "unmounts"]
inviteAcceptView == [Form EXCEPT !.leaving = "unmounts"]

-----------------------------------------------------------------------------
(* The handlers.  busy: sets the busy flag.  sends: on "confirm", or as    *)
(* soon as it is opened.  target: the id the dialog was "opened" for, or   *)
(* the one in the URL of the "page" when it is confirmed.  needs: a "file",*)
(* the "typed" name of the subject the dialog was opened for, or the typed *)
(* name of a "root" certificate: that of the root the page shows, which may*)
(* still be the root of another server (UiLoads), and the panel compares   *)
(* again.  second: the request after the first: "persist"                  *)
(* stores ids in the settings of the server (with the token of that moment,*)
(* and not at all without one), "mayPersist" does so if the settings name  *)
(* them, "mayWrite" writes with the first's token if there is anything to  *)
(* write, "read" is a GET.  done: what success does.  "closes": after the  *)
(* lists were loaded again; "closesFirst": before, and nothing waits for   *)
(* them; "closesEarly": before, but busy until then; "stays": open, busy   *)
(* until the lists are there; "shows": open, at once; "leads": to another  *)
(* page.                                                                   *)
(* once: a result takes the place of the button.  marks: marks the row of  *)
(* the subject.  auth: needs a session.                                    *)

OneRequest == [busy |-> TRUE, sends |-> "confirm", target |-> "opened", needs |-> "nothing",
               second |-> "none", done |-> "closes", once |-> FALSE, marks |-> FALSE,
               auth |-> TRUE]
OfPage == [OneRequest EXCEPT !.target = "page"]
Storing == [OfPage EXCEPT !.second = "persist"]
Quick == [OneRequest EXCEPT !.done = "closesFirst"]
OnPage == [OfPage EXCEPT !.done = "stays"]

confirmUserCertRevoke == Quick
confirmUserCertUnlink == Quick
confirmUserCertBind == OfPage
issueProfileCertificate == [Quick EXCEPT !.target = "page", !.busy = FALSE]
submitUserSessionDisconnect == [Quick EXCEPT !.marks = TRUE]
submitAdminBlock == [OneRequest EXCEPT !.needs = "typed"]
openAdminPasswordResetModal == [OneRequest EXCEPT !.sends = "open", !.done = "shows", !.once = TRUE]
createAdmin == [OneRequest EXCEPT !.done = "stays", !.once = TRUE]
deletePanelBackupHandler == OneRequest
restoreFromArchiveHandler == [OnPage EXCEPT !.needs = "file"]
saveBackupSettingsHandler == OnPage
runBackupNowHandler == OnPage
patchAdminIsActive == OnPage
saveAdminProfile == OnPage
submitMyAdminPasswordChange == Quick
confirmMyAdminTotpSetup == [OneRequest EXCEPT !.done = "shows", !.once = TRUE]
disableMyAdminTotp == [OneRequest EXCEPT !.done = "closesEarly"]
regenerateMyAdminRecoveryCodes == [OneRequest EXCEPT !.done = "stays", !.once = TRUE]
submitTaskRetryFromModal == [OneRequest EXCEPT !.second = "read"]
submitAgentUpdate == [OnPage EXCEPT !.needs = "file"]
importKeyMaterial == Storing
createKeyMaterial == Storing
submitDeleteOpenvpnMaterial == [Storing EXCEPT !.second = "mayPersist"]
checkOpenvpnConfig == [OfPage EXCEPT !.done = "shows"]
applyServerOpenVpnSettings == [OfPage EXCEPT !.done = "shows", !.once = TRUE]
submitSrvCertCreate == Storing
submitServerCaIssueCertificate == OfPage
submitServerCaImportCertificate == OfPage
submitServerCaImportIndex == OfPage
submitSrvCertImport == Storing
submitDeleteServerServerCert == OfPage
createRootCAForServer == [Storing EXCEPT !.busy = FALSE]
importRootCaForServer == [Storing EXCEPT !.busy = FALSE]
submitRemoveServerPanelRootCa == [Quick EXCEPT !.target = "page", !.needs = "root"]
submitCertMaterialUpload == Quick
bindServerPanelRootCa == OnPage
createVpnUser == [OfPage EXCEPT !.second = "mayWrite", !.done = "leads", !.busy = FALSE]
createNode == [OfPage EXCEPT !.done = "leads", !.busy = FALSE]
createOrganization == [OfPage EXCEPT !.done = "leads", !.busy = FALSE]
completePasswordReset == [OfPage EXCEPT !.done = "shows", !.once = TRUE, !.auth = FALSE]
completeInvite == [OfPage EXCEPT !.done = "shows", !.once = TRUE, !.auth = FALSE]

Dialog(view, handler) == [view |-> view, does |-> handler]

AllDialogs == {
  Dialog(userCertRevokeView, confirmUserCertRevoke),
  Dialog(serverCertRevokeView, confirmUserCertRevoke),
  Dialog(userCertUnlinkView, confirmUserCertUnlink),
  Dialog(userCertBindView, confirmUserCertBind),
  Dialog(userCertIssueView, issueProfileCertificate),
  Dialog(userSessionDisconnectView, submitUserSessionDisconnect),
  Dialog(adminBlockView, submitAdminBlock),
  Dialog(adminPasswordResetView, openAdminPasswordResetModal),
  Dialog(addAdminView, createAdmin),
  Dialog(panelBackupDeleteView, deletePanelBackupHandler),
  Dialog(restoreView, restoreFromArchiveHandler),
  Dialog(backupFormView, saveBackupSettingsHandler),
  Dialog(backupFormView, runBackupNowHandler),
  Dialog(adminFormView, patchAdminIsActive),
  Dialog(adminFormView, saveAdminProfile),
  Dialog(myPasswordView, submitMyAdminPasswordChange),
  Dialog(myTotpSetupView, confirmMyAdminTotpSetup),
  Dialog(myTotpDisableView, disableMyAdminTotp),
  Dialog(myRecoveryView, regenerateMyAdminRecoveryCodes),
  Dialog(taskRetryView, submitTaskRetryFromModal),
  Dialog(agentUpdateView, submitAgentUpdate),
  Dialog(keyMaterialImportView, importKeyMaterial),
  Dialog(keyMaterialCreateView, createKeyMaterial),
  Dialog(openvpnMaterialDeleteView, submitDeleteOpenvpnMaterial),
  Dialog(applyConfirmView, applyServerOpenVpnSettings),
  Dialog(configCheckView, checkOpenvpnConfig),
  Dialog(srvCertCreateView, submitSrvCertCreate),
  Dialog(serverCaIssueView, submitServerCaIssueCertificate),
  Dialog(serverCaImportView, submitServerCaImportCertificate),
  Dialog(serverCaIndexImportView, submitServerCaImportIndex),
  Dialog(srvCertImportView, submitSrvCertImport),
  Dialog(serverServerCertDeleteView, submitDeleteServerServerCert),
  Dialog(serverRootCaCreateView, createRootCAForServer),
  Dialog(serverRootCaImportView, importRootCaForServer),
  Dialog(serverRootCaDeleteView, submitRemoveServerPanelRootCa),
  Dialog(certMaterialUploadView, submitCertMaterialUpload),
  Dialog(bindRootCaView, bindServerPanelRootCa),
  Dialog(newUserView, createVpnUser),
  Dialog(newServerView, createNode),
  Dialog(newOrganizationView, createOrganization),
  Dialog(passwordResetAcceptView, completePasswordReset),
  Dialog(inviteAcceptView, completeInvite)}

ASSUME DialogsAssumption ==
  /\ Dialogs \subseteq AllDialogs \cup {NoDialog}
  /\ NoDialog \notin AllDialogs
  /\ NoSubject \notin Subjects
  /\ Start \in Subjects
  /\ MaxOpenings \in Nat /\ MaxConfirms \in Nat /\ MaxMoves \in Nat /\ MaxLost \in Nat
  /\ Undisturbed \in 0..MaxSteps
  /\ MaxExpired \in Nat

-----------------------------------------------------------------------------
Places == Subjects \cup {NoSubject}

\* The state of a dialog: its opening, what it was opened for, what was typed
\* or chosen in it, and whether it shows a result.
Closed == [open |-> FALSE, n |-> 0, of |-> NoSubject, busy |-> FALSE, armed |-> NoSubject,
           over |-> FALSE]

\* A confirmation: its opening, what was typed, the id in each of its
\* requests, the request under way, how far it is, which requests the panel
\* has run, and the token it carries.
Conf == [id : 1..MaxConfirms, n : Nat, typed : Places, to : Subjects, then : Places,
         k : {1, 2}, st : {"sent", "ran", "lists"}, ran : SUBSET {1, 2},
         skipped : BOOLEAN, tok : 0..MaxTokens]
Done == [to : Subjects, then : Places, ran : SUBSET {1, 2}, skipped : BOOLEAN]

TypeOK ==
  /\ SessionTypeOK
  /\ dlg \in Dialogs
  /\ page \in Places
  /\ modal \in [open : BOOLEAN, n : Nat, of : Places, busy : BOOLEAN, armed : Places,
                over : BOOLEAN]
  /\ confs \subseteq Conf
  /\ done \subseteq Done
  /\ count \in 0..MaxConfirms
  /\ marked \subseteq Subjects
  /\ moves \in 0..MaxMoves
  /\ losses \in 0..MaxLost

\* Next to a dialog somebody is logged in, on a page that has it.
Init ==
  /\ dlg \in Dialogs
  /\ SessionInit(IF dlg = NoDialog THEN 0 ELSE Undisturbed)
  /\ dlg # NoDialog => token # NoToken /\ token.who \notin MfaAdmins
  /\ page = IF dlg = NoDialog THEN NoSubject ELSE Start
  /\ modal = Closed
  /\ confs = {}
  /\ done = {}
  /\ count = 0
  /\ marked = {}
  /\ moves = 0
  /\ losses = 0

-----------------------------------------------------------------------------
(* The operator.                                                           *)

\* The dialog is on the screen; its page is not asked for a login.
Visible ==
  /\ modal.open
  /\ dlg.does.auth => token # NoToken
  /\ dlg.view.shown = "any" \/ page # NoSubject

\* The first request, to s.
Send(s, m) ==
  /\ count < MaxConfirms
  /\ count' = count + 1
  /\ confs' = confs \cup
       {[id |-> count + 1, n |-> m.n, typed |-> m.armed, to |-> s,
         then |-> NoSubject, k |-> 1, st |-> "sent", ran |-> {}, skipped |-> FALSE,
         tok |-> token.n]}
  /\ modal' = [m EXCEPT !.busy = dlg.does.busy]
  /\ marked' = IF dlg.does.marks THEN marked \cup {s} ELSE marked

\* A dialog without a busy flag is confirmed twice in one opening.
MayOpen ==
  /\ dlg # NoDialog
  /\ modal.n < (IF dlg.does.busy THEN MaxOpenings ELSE 1)
  /\ ~modal.open
  /\ page # NoSubject
  /\ dlg.does.auth => token # NoToken

Opened == [modal EXCEPT !.open = TRUE, !.n = @ + 1, !.of = page,
                           !.over = @ /\ dlg.view.opens = "asLeft"]

\* Mutant: the busy flag is cleared when the dialog is opened.
OpenIdle ==
  /\ MayOpen
  /\ IF dlg.does.sends = "open" THEN Send(page, Opened)
     ELSE modal' = [Opened EXCEPT !.busy = FALSE] /\ UNCHANGED <<confs, count, marked>>
  /\ UNCHANGED <<sessionVars, dlg, done, page, moves, losses>>

\* On the page of a subject.  A form is open once its page was visited.
Open ==
  /\ MayOpen
  /\ IF dlg.does.sends = "open" THEN Send(page, Opened)
     ELSE modal' = Opened /\ UNCHANGED <<confs, count, marked>>
  /\ UNCHANGED <<sessionVars, dlg, done, page, moves, losses>>

\* Mutant: what was typed is reset to a value that is not a name.
ShutFalse(m) == [m EXCEPT !.open = FALSE, !.armed = FALSE, !.over = FALSE]

Shut(m) == [m EXCEPT !.open = FALSE, !.over = FALSE,
                     !.armed = IF dlg.view.leaving = "disarms" THEN @ ELSE NoSubject]

\* Mutant: the backdrop does not look at the busy flag.
CloseAnyTime ==
  /\ Visible
  /\ dlg.view.closes # "never"
  /\ modal' = [Shut(modal) EXCEPT !.busy = FALSE]
  /\ UNCHANGED <<sessionVars, dlg, done, page, confs, count, marked, moves, losses>>

Close ==
  /\ Visible
  /\ \/ dlg.view.closes = "always"
     \/ dlg.view.closes = "idle" /\ ~modal.busy
  /\ modal' = Shut(modal)
  /\ UNCHANGED <<sessionVars, dlg, done, page, confs, count, marked, moves, losses>>

\* The name of s is typed, or a file has been chosen and read.
Arm(s) ==
  /\ Visible
  /\ ~modal.busy
  /\ dlg.does.needs # "nothing"
  /\ modal.armed # s
  /\ dlg.does.needs = "file" => s = modal.of
  /\ modal' = [modal EXCEPT !.armed = s]
  /\ UNCHANGED <<sessionVars, dlg, done, page, confs, count, marked, moves, losses>>

Target == IF dlg.does.target = "opened" THEN modal.of ELSE page

\* The button works, and there is an id to send the request to.
CanConfirm ==
  /\ Visible
  /\ dlg.does.sends = "confirm"
  /\ dlg.view.confirms = "always" \/ ~modal.busy
  /\ ~modal.over
  /\ Target # NoSubject

\* A file, or a name that passes: an administrator's is compared with the
\* one kept in the dialog, a root's with any root the page may be showing.
Confirm ==
  /\ CanConfirm
  /\ dlg.does.needs # "nothing" => modal.armed # NoSubject
  /\ dlg.does.needs = "typed" => modal.armed = modal.of
  /\ Send(Target, modal)
  /\ UNCHANGED <<sessionVars, dlg, done, page, moves, losses>>

\* What the effects of the page do to the dialog m when the URL is p.
Left(m, p) ==
  IF p = page THEN m ELSE
  CASE \/ dlg.view.leaving = "resets"
       \/ dlg.view.leaving \in {"clears", "unmounts"} /\ p = NoSubject
         -> [Shut(m) EXCEPT !.busy = FALSE]
    [] dlg.view.leaving = "closes" /\ p = NoSubject -> Shut(m)
    [] dlg.view.leaving = "disarms" -> [m EXCEPT !.armed = NoSubject]
    [] OTHER -> m

\* The handlers of an unmounted component have nothing to act on.
GoTo(p) ==
  /\ page' = p
  /\ modal' = Left(modal, p)
  /\ confs' = IF dlg.view.leaving = "unmounts" /\ p = NoSubject THEN {} ELSE confs

\* Next to two confirmations at a time there is one page change less.
Navigate(p) ==
  /\ dlg # NoDialog
  /\ moves + (IF dlg.does.busy THEN 0 ELSE 1) < MaxMoves
  /\ moves' = moves + 1
  /\ p # page
  /\ GoTo(p)
  /\ UNCHANGED <<sessionVars, dlg, done, count, marked, losses>>

\* The effect over the lists: the session of the row is not there any more.
Unmark(s) ==
  /\ s \in marked
  /\ marked' = marked \ {s}
  /\ UNCHANGED <<sessionVars, dlg, done, page, modal, confs, count, moves, losses>>

-----------------------------------------------------------------------------
(* The panel and the answers.                                              *)

\* The panel takes the token, where one is needed.
With(c, new) == (confs \ {c}) \cup {new}
Accepted(c) == dlg.does.auth => c.tok > aged

\* Mutant: the panel leaves the comparison to the page.
Unchecked(c) == TRUE

\* The panel compares the name with that of the root of the server the
\* request is for.
Checked(c) == dlg.does.needs = "root" => c.typed = c.to

Run(c) ==
  /\ c.st = "sent"
  /\ Accepted(c)
  /\ Checked(c)
  /\ confs' = With(c, [c EXCEPT !.st = "ran", !.ran = @ \cup {c.k}])
  /\ UNCHANGED <<sessionVars, dlg, done, page, modal, count, marked, moves, losses>>

\* The catch block of the handlers.
Failed(c) == confs \ {c}
Freed(m) == IF dlg.does.busy THEN [m EXCEPT !.busy = FALSE] ELSE m
Unmarked(c) == IF dlg.does.marks THEN marked \ {c.to} ELSE marked

\* 400: the name is that of another server's root.
Refuse(c) ==
  /\ c.st = "sent"
  /\ Accepted(c)
  /\ ~Checked(c)
  /\ confs' = Failed(c)
  /\ modal' = Freed(modal)
  /\ marked' = Unmarked(c)
  /\ UNCHANGED <<sessionVars, dlg, done, page, count, moves, losses>>

\* 401: the session ends and the handler fails.
Deny(c) ==
  /\ c.st = "sent"
  /\ ~Accepted(c)
  /\ SetToken(NoToken, calls)
  /\ page' = NoSubject
  /\ confs' = Failed(c)
  /\ modal' = Freed(Left(modal, NoSubject))
  /\ marked' = Unmarked(c)
  /\ UNCHANGED <<issued, aged, active, mfa, steps, fails, out, blockAt, lost>>
  /\ UNCHANGED <<dlg, done, count, moves, losses>>

\* Mutant: the error path leaves the dialog busy.
FailsBusy(c) ==
  /\ c.st \in {"sent", "ran"}
  /\ losses < MaxLost
  /\ losses' = losses + 1
  /\ confs' = Failed(c)
  /\ marked' = Unmarked(c)
  /\ UNCHANGED <<sessionVars, dlg, done, page, modal, count, moves>>

\* Mutant: the error path leaves the row marked.
FailsMarked(c) ==
  /\ c.st \in {"sent", "ran"}
  /\ losses < MaxLost
  /\ losses' = losses + 1
  /\ confs' = Failed(c)
  /\ modal' = Freed(modal)
  /\ UNCHANGED <<sessionVars, dlg, done, page, count, marked, moves>>

\* The panel refuses, or the network fails - perhaps after the request ran.
Fails(c) ==
  /\ c.st \in {"sent", "ran"}
  /\ losses < MaxLost
  /\ losses' = losses + 1
  /\ confs' = Failed(c)
  /\ modal' = Freed(modal)
  /\ marked' = Unmarked(c)
  /\ UNCHANGED <<sessionVars, dlg, done, page, count, moves>>

More(c) == c.st = "ran" /\ c.k = 1 /\ dlg.does.second # "none"

\* Mutant: the second request goes to the id the page shows by now.
SecondOnPage(c) ==
  /\ More(c)
  /\ dlg.does.second # "read" \/ token # NoToken
  /\ confs' = With(c, [c EXCEPT !.k = 2, !.st = "sent",
                            !.then = IF page = NoSubject THEN c.to ELSE page])
  /\ UNCHANGED <<sessionVars, dlg, done, page, modal, count, marked, moves, losses>>

\* The second request, to the id of the first.
Second(c) ==
  /\ More(c)
  /\ dlg.does.second # "mayWrite" => token # NoToken
  /\ confs' = With(c, [c EXCEPT !.k = 2, !.st = "sent", !.then = c.to,
                       !.tok = IF dlg.does.second = "mayWrite" THEN @ ELSE token.n])
  /\ UNCHANGED <<sessionVars, dlg, done, page, modal, count, marked, moves, losses>>

\* Nothing to write, or no token: persistOpenVpnPanelPartial then returns as
\* if all were well.
Skip(c) ==
  /\ More(c)
  /\ \/ dlg.does.second \in {"mayPersist", "mayWrite"}
     \/ dlg.does.second = "persist" /\ token = NoToken
  /\ confs' = With(c, [c EXCEPT !.st = "lists", !.skipped = TRUE])
  /\ UNCHANGED <<sessionVars, dlg, done, page, modal, count, marked, moves, losses>>

\* A GET without a token is refused.
NotRead(c) ==
  /\ More(c)
  /\ dlg.does.second = "read"
  /\ token = NoToken
  /\ confs' = Failed(c)
  /\ modal' = Freed(modal)
  /\ UNCHANGED <<sessionVars, dlg, done, page, count, marked, moves, losses>>

Succeeded(c) ==
  /\ confs' = confs \ {c}
  /\ done' = done \cup {[to |-> c.to, then |-> c.then, ran |-> c.ran, skipped |-> c.skipped]}
Over(m) == [m EXCEPT !.busy = FALSE, !.armed = NoSubject, !.over = dlg.does.once]

\* The last answer is there.
Finish(c) ==
  /\ c.st = "ran"
  /\ ~More(c)
  /\ IF dlg.does.done \in {"closesFirst", "shows"} THEN Succeeded(c)
     ELSE confs' = With(c, [c EXCEPT !.st = "lists"]) /\ UNCHANGED done
  /\ modal' = CASE dlg.does.done = "closesFirst" -> [Shut(modal) EXCEPT !.busy = FALSE]
                [] dlg.does.done = "closesEarly" -> Shut(modal)
                [] dlg.does.done = "shows" -> Over(modal)
                [] OTHER -> modal
  /\ UNCHANGED <<sessionVars, dlg, page, count, marked, moves, losses>>

\* The lists were loaded again (loadData does not fail).
Listed(c) ==
  /\ c.st = "lists"
  /\ Succeeded(c)
  /\ modal' = IF dlg.does.done = "closes" THEN [Shut(modal) EXCEPT !.busy = FALSE]
              ELSE IF dlg.does.done = "closesEarly" THEN [modal EXCEPT !.busy = FALSE]
              ELSE Over(modal)
  /\ page' = IF dlg.does.done = "leads" THEN NoSubject ELSE page
  /\ UNCHANGED <<sessionVars, dlg, count, marked, moves, losses>>

-----------------------------------------------------------------------------
(* The session next to the dialog (a dialog knows of it only whether there *)
(* is a token): its end and a login lead to the first page and leave the   *)
(* dialog in memory; a reload forgets everything, also the marks kept in   *)
(* localStorage, which the first pass of the effect over the still empty   *)
(* lists removes.                                                          *)

Homeward ==
  /\ IF dlg = NoDialog THEN UNCHANGED <<page, modal, confs>> ELSE GoTo(NoSubject)
  /\ UNCHANGED <<dlg, done, count, marked, moves, losses>>

SessionHome == GoesHome /\ Homeward

SessionStays ==
  /\ IF dlg = NoDialog THEN StaysOnPage ELSE ComesBack /\ aged' <= MaxExpired
  /\ UNCHANGED dialogVars

SessionReload ==
  /\ Reload
  /\ modal' = [Closed EXCEPT !.n = modal.n]
  /\ confs' = {}
  /\ marked' = {}
  /\ UNCHANGED <<dlg, done, page, count, moves, losses>>

\* A confirmation goes on: the panel answers, or the handler.
Progress(c) ==
  \/ Run(c) \/ Refuse(c) \/ Deny(c)
  \/ Second(c) \/ Skip(c) \/ NotRead(c)
  \/ Finish(c) \/ Listed(c)

Next ==
  \/ Open
  \/ Close
  \/ Confirm
  \/ \E s \in Subjects : Arm(s) \/ Unmark(s)
  \/ \E p \in Places : Navigate(p)
  \/ \E c \in confs : Progress(c) \/ Fails(c)
  \/ SessionHome
  \/ SessionStays
  \/ SessionReload

Spec == Init /\ [][Next]_vars

\* Requests and calls are answered, and the ticker ticks.
FairSpec ==
  /\ Spec
  /\ WF_vars(\E c \in confs : Progress(c))
  /\ WF_vars(Tick /\ Homeward)
  /\ WF_vars(\E c \in calls : \/ LeadsHome(c) /\ Homeward
                              \/ Stays(c) /\ UNCHANGED dialogVars)

-----------------------------------------------------------------------------
(* Properties.                                                             *)

\* Dialogs and forms with a busy flag that neither their close buttons nor
\* another page clears; and of these the ones no page closes.
Flagged ==
  dlg # NoDialog /\ dlg.does.busy /\ dlg.view.closes # "always"
  /\ dlg.view.leaving \notin {"resets", "clears", "unmounts"}
Guarded == Flagged /\ dlg.view.leaving # "closes"

\* A dialog with a busy flag never has two confirmations under way - also
\* when it is closed by leaving the page and opened again, or when the
\* session ends and somebody logs in meanwhile.  (The busy flags of
\* App.tsx:3190-3530, 3723-4163, 5309-5341.)
OneAtATime ==
  Flagged => \A c, e \in confs : c = e

\* While an answer is awaited the dialog that sent the request is the one
\* that is open, and it is busy: the answer cannot close or free another
\* opening of it, for another subject.  (The handlers name no opening:
\* App.tsx:3230-3242, 5312-5323.)
AwaitsOwnAnswer ==
  Guarded => \A c \in confs : modal.open /\ modal.busy /\ modal.n = c.n

\* The panel never removes the root of one server, nor blocks one
\* administrator, for a name that was typed for another.  The removal goes to
\* the server in the URL when it is confirmed, and the page may then still
\* compare with the root of the server it showed before; the panel's own
\* comparison has to catch it.  (App.tsx:3219-3227, 5484-5509;
\* panel/settings.go:220-235.)
TypedIsTarget ==
  dlg # NoDialog /\ dlg.does.needs \in {"typed", "root"} =>
    \A c \in confs : c.ran # {} => c.typed = c.to

\* Success means that all requests were run, and for one and the same
\* server, unless there was no second one to send or the session had ended.  (App.tsx:3740-3768,
\* 3983-3996, 5426-5446.)
SuccessIsComplete ==
  \A c \in done : ~c.skipped =>
    IF dlg.does.second = "none" THEN c.ran = {1} ELSE c.ran = {1, 2} /\ c.then = c.to

\* A row says "disconnecting" only while its request is under way or after
\* it was run.  (App.tsx:4231-4270.)
MarkedIsEnding ==
  \A s \in marked : \E c \in confs \cup done : c.to = s

\* How far a confirmation is, what it has run and sent until then, and for
\* what name.
SoFar(c) ==
  /\ c.skipped <=> (c.st = "lists" /\ c.k = 1 /\ dlg.does.second # "none")
  /\ c.k = 2 => dlg.does.second # "none" /\ c.then = c.to
  /\ c.ran = (IF c.st = "sent" THEN {} ELSE {c.k}) \cup (IF c.k = 2 THEN {1} ELSE {})
  /\ dlg.does.needs = "typed" \/ (dlg.does.needs = "root" /\ c.ran # {}) => c.typed = c.to

\* The inductive invariant of all of these: types and the session; without a
\* dialog nothing happens; a confirmation has run what it should have; a
\* dialog with a busy flag is busy as long as an answer is awaited; a row is
\* marked by a dialog that does.  (The busy flags and handlers of App.tsx.)
DialogInv ==
  /\ TypeOK
  /\ SessionInv
  /\ dlg = NoDialog => ~modal.open /\ confs = {} /\ done = {} /\ marked = {}
  /\ \A c \in confs : SoFar(c)
  /\ Flagged /\ confs # {} => modal.busy
  /\ marked # {} => dlg.does.marks
  /\ OneAtATime
  /\ AwaitsOwnAnswer
  /\ TypedIsTarget
  /\ SuccessIsComplete
  /\ MarkedIsEnding

\* No dialog stays busy: each answer and each error frees it.
\* (The catch and finally blocks of the same handlers.)
BusyEnds == modal.busy ~> ~modal.busy
=============================================================================
