-------------------------- MODULE UiDialogsProofs --------------------------
(***************************************************************************)
(* Theorems about UiDialogs and the session under it, for any of the       *)
(* dialogs, any administrators, subjects and bounds.                       *)
(***************************************************************************)
EXTENDS UiDialogs, TLAPS

-----------------------------------------------------------------------------
(* The session *)

LEMMA TokenFacts == /\ NoToken \notin Token
                    /\ NoToken.n = 0
                    /\ 0 \in 0..MaxTokens /\ 1 \in 1..MaxTokens
                    /\ \A t \in Token \cup {NoToken} : t.n \in 0..MaxTokens
                    /\ \A t \in Token : t.who \in Admins /\ t.n \in 1..MaxTokens
  BY SessionAssumption DEF NoToken, Token

LEMMA NewCallType ==
  ASSUME NEW kind \in {"login", "mfa", "refresh", "me", "get"}, NEW who \in Admins,
         NEW n \in 0..MaxTokens
  PROVE  /\ NewCall(kind, who, n) \in Call
         /\ NewCall(kind, who, n).kind = kind
         /\ NewCall(kind, who, n).res = "none"
  BY TokenFacts DEF NewCall, Call

\* The calls after one more was sent or some were answered.
LEMMA CallsStay ==
  ASSUME SessionInv, calls' \subseteq calls PROVE calls' \subseteq Call /\ TokensNamed' /\ (Quiet => Quiet')
  BY DEF SessionInv, SessionTypeOK, TokensNamed, Quiet

LEMMA CallAdded ==
  ASSUME SessionInv, NEW kind \in {"login", "mfa", "refresh", "me", "get"}, NEW who \in Admins,
         NEW n \in 0..MaxTokens, NEW cs \in SUBSET calls, calls' = cs \cup {NewCall(kind, who, n)}
  PROVE  calls' \subseteq Call /\ TokensNamed' /\ (kind \in {"me", "get"} /\ Quiet => Quiet')
  BY NewCallType DEF SessionInv, SessionTypeOK, TokensNamed, Quiet

\* setToken, and the profile that is read then.
LEMMA SetTokenFacts ==
  ASSUME SessionInv, NEW t \in Token \cup {NoToken}, NEW cs \in SUBSET calls, SetToken(t, cs)
  PROVE  /\ token' \in Token \cup {NoToken} /\ token' = t
         /\ stored' \in Token \cup {NoToken} /\ stored' = t
         /\ timer' \in BOOLEAN
         /\ calls' \subseteq Call /\ TokensNamed' /\ (Quiet => Quiet')
  <1>1. token' = t /\ stored' = t /\ timer' \in BOOLEAN
    BY DEF SetToken
  <1>2. calls' \subseteq Call /\ TokensNamed' /\ (Quiet => Quiet')
    <2>1. CASE t \in {token, NoToken}
      BY <2>1, CallsStay DEF SetToken
    <2>2. CASE t \notin {token, NoToken}
      <3>1. t.who \in Admins /\ t.n \in 0..MaxTokens
        BY <2>2, TokenFacts
      <3>2. calls' = cs \cup {NewCall("me", t.who, t.n)}
        BY <2>2 DEF SetToken
      <3>3. QED
        BY <3>1, <3>2, CallAdded
    <2>3. QED
      BY <2>1, <2>2
  <1>3. QED
    BY <1>1, <1>2

\* The session ends.
LEMMA EndOfSession ==
  ASSUME SessionInv, NEW cs \in SUBSET calls, SetToken(NoToken, cs),
         UNCHANGED <<issued, aged, active, mfa, steps, fails, out, blockAt, lost>>
  PROVE  SessionInv'
  <1>1. /\ token' = NoToken /\ stored' = NoToken /\ timer' \in BOOLEAN
        /\ calls' \subseteq Call /\ TokensNamed' /\ (Quiet => Quiet')
    BY SetTokenFacts
  <1>2. SessionTypeOK'
    BY <1>1 DEF SessionInv, SessionTypeOK
  <1>3. QED
    BY <1>1, <1>2 DEF SessionInv, LogoutHolds

LEMMA StepType == ASSUME SessionTypeOK, Step PROVE steps' \in 0..MaxSteps
  BY SessionAssumption DEF SessionTypeOK, Step

\* What the administrator does in the page.
LEMMA OperatorInv ==
  ASSUME SessionInv,
         \/ \E a \in Admins : Login(a) \/ Block(a)
         \/ SubmitMfa \/ CloseMfa \/ Activity \/ Refresh \/ Request \/ Logout \/ Reload
  PROVE  SessionInv'
  <1>1. SessionTypeOK /\ TokensNamed /\ LogoutHolds /\ (out => Quiet)
    BY DEF SessionInv
  <1>2. ASSUME NEW a \in Admins, Login(a) PROVE SessionInv'
    <2>1. calls' \subseteq Call /\ TokensNamed'
      BY <1>2, CallAdded, TokenFacts DEF Login
    <2>2. SessionTypeOK'
      BY <1>1, <1>2, <2>1, StepType DEF Login, SessionTypeOK
    <2>3. QED
      BY <1>2, <2>1, <2>2 DEF Login, SessionInv, LogoutHolds
  <1>3. ASSUME NEW a \in Admins, Block(a) PROVE SessionInv'
    <2>1. active' \subseteq Admins
      BY <1>1, <1>3 DEF Block, SessionTypeOK
    <2>2. blockAt' \in [Admins -> 0..MaxTokens]
      BY <1>1, <1>3 DEF Block, SessionTypeOK
    <2>3. SessionTypeOK'
      BY <1>1, <1>3, <2>1, <2>2, StepType DEF Block, SessionTypeOK
    <2>4. QED
      BY <1>1, <1>3, <2>3 DEF Block, SessionInv, LogoutHolds, TokensNamed, Quiet
  <1>4. CASE SubmitMfa
    <2>1. mfa.who \in Admins /\ mfa' \in [who : Admins \cup {NoAdmin}, busy : BOOLEAN]
      BY <1>1, <1>4 DEF SubmitMfa, SessionTypeOK
    <2>2. calls' \subseteq Call /\ TokensNamed'
      BY <1>4, <2>1, CallAdded, TokenFacts DEF SubmitMfa
    <2>3. SessionTypeOK'
      BY <1>1, <1>4, <2>1, <2>2, StepType DEF SubmitMfa, SessionTypeOK
    <2>4. QED
      BY <1>4, <2>2, <2>3 DEF SubmitMfa, SessionInv, LogoutHolds
  <1>5. CASE CloseMfa
    <2>1. NoMfa \in [who : Admins \cup {NoAdmin}, busy : BOOLEAN]
      BY DEF NoMfa
    <2>2. SessionTypeOK'
      BY <1>1, <1>5, <2>1, StepType DEF CloseMfa, SessionTypeOK
    <2>3. QED
      BY <1>1, <1>5, <2>2 DEF CloseMfa, SessionInv, LogoutHolds, TokensNamed, Quiet
  <1>6. CASE Activity
    <2>1. SessionTypeOK'
      BY <1>1, <1>6, StepType DEF Activity, SessionTypeOK
    <2>2. QED
      BY <1>1, <1>6, <2>1 DEF Activity, SessionInv, LogoutHolds, TokensNamed, Quiet
  <1>7. CASE Refresh \/ Request
    <2>1. token # NoToken /\ token.who \in Admins /\ token.n \in 0..MaxTokens /\ ~out
      BY <1>1, <1>7, TokenFacts DEF Refresh, Request, SessionTypeOK, LogoutHolds
    <2>2. calls' \subseteq Call /\ TokensNamed'
      BY <1>7, <2>1, CallAdded DEF Refresh, Request
    <2>3. SessionTypeOK'
      BY <1>1, <1>7, <2>2, StepType DEF Refresh, Request, SessionTypeOK
    <2>4. ~out'
      BY <1>7, <2>1 DEF Refresh, Request
    <2>5. QED
      BY <2>2, <2>3, <2>4 DEF SessionInv, LogoutHolds
  <1>8. CASE Logout
    <2>1. /\ token' = NoToken /\ stored' = NoToken /\ timer' \in BOOLEAN
          /\ calls' \subseteq Call /\ TokensNamed' /\ (Quiet => Quiet')
      BY <1>8, SetTokenFacts DEF Logout
    <2>2. out' \in BOOLEAN /\ (out' => Quiet)
      BY <1>8 DEF Logout, Quiet
    <2>3. SessionTypeOK'
      BY <1>1, <1>8, <2>1, <2>2, StepType DEF Logout, SessionTypeOK
    <2>4. QED
      BY <2>1, <2>2, <2>3 DEF SessionInv, LogoutHolds
  <1>9. CASE Reload
    <2> DEFINE t == IF Expired(stored) THEN NoToken ELSE stored
    <2>1. t \in Token \cup {NoToken} /\ token' = t /\ stored' = t
      BY <1>1, <1>9 DEF Reload, SessionTypeOK
    <2>2. calls' \subseteq Call /\ TokensNamed' /\ Quiet'
      <3>1. CASE t = NoToken
        BY <1>9, <3>1 DEF Reload, TokensNamed, Quiet
      <3>2. CASE t # NoToken
        <4>1. t.who \in Admins /\ t.n \in 0..MaxTokens
          BY <2>1, <3>2, TokenFacts
        <4>2. calls' = {NewCall("me", t.who, t.n)}
          BY <1>9, <3>2 DEF Reload
        <4>3. QED
          BY <4>1, <4>2, NewCallType DEF TokensNamed, Quiet
      <3>3. QED
        BY <3>1, <3>2
    <2>3. NoMfa \in [who : Admins \cup {NoAdmin}, busy : BOOLEAN]
      BY DEF NoMfa
    <2>4. SessionTypeOK'
      BY <1>1, <1>9, <2>1, <2>2, <2>3, StepType DEF Reload, SessionTypeOK
    <2>5. out' = out /\ (out => t = NoToken)
      BY <1>1, <1>9 DEF Reload, LogoutHolds
    <2>6. QED
      BY <2>1, <2>2, <2>4, <2>5 DEF SessionInv, LogoutHolds
  <1>10. QED
    BY <1>2, <1>3, <1>4, <1>5, <1>6, <1>7, <1>8, <1>9

\* What the panel does and what becomes of the answers.
LEMMA AnswerInv ==
  ASSUME SessionInv,
         \/ Age \/ Tick
         \/ \E c \in calls : Stays(c) \/ LeadsHome(c) \/ CallFails(c)
  PROVE  SessionInv'
  <1>1. SessionTypeOK /\ TokensNamed /\ LogoutHolds /\ (out => Quiet)
    BY DEF SessionInv
  <1>2. CASE Age
    <2>1. aged' \in 0..issued
      BY <1>1, <1>2 DEF Age, SessionTypeOK
    <2>2. SessionTypeOK'
      BY <1>1, <1>2, <2>1 DEF Age, SessionTypeOK
    <2>3. QED
      BY <1>1, <1>2, <2>2 DEF Age, SessionInv, LogoutHolds, TokensNamed, Quiet
  <1>3. CASE Tick
    BY <1>3, EndOfSession DEF Tick
  <1>4. ASSUME NEW c \in calls, Unauthorized(c) PROVE SessionInv'
    BY <1>4, EndOfSession DEF Unauthorized
  <1>5. ASSUME NEW c \in calls, NEW res \in {"ok", "401", "refused", "mfa", "token"},
               NEW new \in 0..MaxTokens, res = "token" => new > 0, Answered(c, res, new)
        PROVE  calls' \subseteq Call /\ TokensNamed' /\ (Quiet => Quiet')
    <2>1. c \in Call
      BY <1>1 DEF SessionTypeOK
    <2>2. /\ [c EXCEPT !.res = res, !.new = new] \in Call
          /\ [c EXCEPT !.res = res, !.new = new].kind = c.kind
          /\ [c EXCEPT !.res = res, !.new = new].res = res
          /\ [c EXCEPT !.res = res, !.new = new].new = new
      BY <2>1 DEF Call
    <2>3. QED
      BY <1>1, <1>5, <2>2 DEF Answered, SessionTypeOK, TokensNamed, Quiet
  <1>6. ASSUME NEW c \in calls, ServeLogin(c) \/ ServeCall(c) PROVE SessionInv'
    <2>1. issued < MaxTokens => issued + 1 \in 0..MaxTokens /\ issued + 1 > 0
      BY <1>1, SessionAssumption DEF SessionTypeOK
    <2>2. \/ issued' = issued
          \/ issued < MaxTokens /\ issued' = issued + 1
      BY <1>6 DEF ServeLogin, ServeCall
    <2>3. calls' \subseteq Call /\ TokensNamed' /\ (Quiet => Quiet')
      BY <1>5, <1>6, <2>1, TokenFacts DEF ServeLogin, ServeCall
    <2>4. issued' \in 0..MaxTokens /\ aged \in 0..issued'
      BY <1>1, <2>1, <2>2, SessionAssumption DEF SessionTypeOK
    <2>5. UNCHANGED <<token, stored, aged, active, mfa, timer, steps, fails, out, blockAt, lost>>
      BY <1>6 DEF ServeLogin, ServeCall
    <2>6. SessionTypeOK'
      BY <1>1, <2>3, <2>4, <2>5 DEF SessionTypeOK
    <2>7. QED
      BY <1>1, <2>3, <2>5, <2>6 DEF SessionInv, LogoutHolds
  <1>7. ASSUME NEW c \in calls, Refreshed(c) \/ LoggedIn(c) PROVE SessionInv'
    <2>1. [who |-> c.who, n |-> c.new] \in Token
      BY <1>1, <1>7 DEF Refreshed, LoggedIn, SessionTypeOK, TokensNamed, Call, Token
    <2>2. ~out
      BY <1>1, <1>7 DEF Refreshed, LoggedIn, Quiet
    <2>3. /\ token' \in Token \cup {NoToken} /\ stored' \in Token \cup {NoToken}
          /\ timer' \in BOOLEAN /\ calls' \subseteq Call /\ TokensNamed'
      BY <1>7, <2>1, SetTokenFacts DEF Refreshed, LoggedIn
    <2>4. mfa' \in [who : Admins \cup {NoAdmin}, busy : BOOLEAN]
      <3>1. mfa \in [who : Admins \cup {NoAdmin}, busy : BOOLEAN]
        BY <1>1 DEF SessionTypeOK
      <3>2. NoMfa \in [who : Admins \cup {NoAdmin}, busy : BOOLEAN]
        BY DEF NoMfa
      <3>3. mfa' \in {mfa, NoMfa}
        BY <1>7, Zenon DEF Refreshed, LoggedIn
      <3>4. QED
        BY <3>1, <3>2, <3>3, Zenon
    <2>5. /\ lost' \in BOOLEAN /\ ~out' /\ out' \in BOOLEAN
          /\ UNCHANGED <<issued, aged, active, steps, fails, blockAt>>
      <3>1. /\ lost' = FALSE /\ out' = out
            /\ UNCHANGED <<issued, aged, active, steps, fails, blockAt>>
        BY <1>7, Zenon DEF Refreshed, LoggedIn
      <3>2. out \in BOOLEAN
        BY <1>1 DEF SessionTypeOK
      <3>3. QED
        BY <2>2, <3>1, <3>2, Zenon
    <2>6. SessionTypeOK'
      BY <1>1, <2>3, <2>4, <2>5 DEF SessionTypeOK
    <2>7. QED
      BY <2>3, <2>5, <2>6 DEF SessionInv, LogoutHolds
  <1>8. ASSUME NEW c \in calls, MfaAsked(c) \/ Settled(c) \/ CallFails(c) PROVE SessionInv'
    <2>1. calls' \subseteq Call /\ TokensNamed' /\ (Quiet => Quiet')
      BY <1>8, CallsStay DEF MfaAsked, Settled, CallFails
    <2>2. mfa' \in [who : Admins \cup {NoAdmin}, busy : BOOLEAN]
      BY <1>1, <1>8 DEF MfaAsked, Settled, CallFails, SessionTypeOK, Call
    <2>3. fails' \in 0..MaxFails
      BY <1>1, <1>8, SessionAssumption DEF MfaAsked, Settled, CallFails, SessionTypeOK
    <2>4. lost' \in BOOLEAN
      BY <1>1, <1>8 DEF MfaAsked, Settled, CallFails, SessionTypeOK
    <2>5. UNCHANGED <<token, stored, issued, aged, active, timer, steps, out, blockAt>>
      BY <1>8 DEF MfaAsked, Settled, CallFails
    <2>6. SessionTypeOK'
      BY <1>1, <2>1, <2>2, <2>3, <2>4, <2>5 DEF SessionTypeOK
    <2>7. QED
      BY <1>1, <2>1, <2>5, <2>6 DEF SessionInv, LogoutHolds
  <1>9. QED
    BY <1>2, <1>3, <1>4, <1>6, <1>7, <1>8 DEF Stays, LeadsHome

LEMMA SessionStepInv ==
  ASSUME SessionInv, [SessionNext]_sessionVars
  PROVE  SessionInv'
  <1>1. CASE GoesHome
    BY <1>1, OperatorInv, AnswerInv DEF GoesHome
  <1>2. CASE StaysOnPage
    BY <1>2, OperatorInv, AnswerInv, SessionAssumption DEF StaysOnPage, ComesBack, Otherwise, Stays
  <1>3. CASE Reload
    BY <1>3, OperatorInv
  <1>4. CASE UNCHANGED sessionVars
    BY <1>4 DEF sessionVars, SessionInv, SessionTypeOK, TokensNamed, LogoutHolds, Quiet
  <1>5. QED
    BY <1>1, <1>2, <1>3, <1>4 DEF SessionNext

LEMMA SessionInitInv ==
  ASSUME NEW aside \in 0..MaxSteps, SessionInit(aside)
  PROVE  SessionInv
  <1>1. token \in Token \cup {NoToken}
    BY TokenFacts DEF SessionInit, Token
  <1>2. issued \in 0..MaxTokens /\ aged \in 0..issued /\ fails \in 0..MaxFails
    BY SessionAssumption DEF SessionInit
  <1>3. mfa \in [who : Admins \cup {NoAdmin}, busy : BOOLEAN]
    BY DEF SessionInit, NoMfa
  <1>4. blockAt \in [Admins -> 0..MaxTokens]
    BY TokenFacts DEF SessionInit
  <1>5. timer \in BOOLEAN /\ out \in BOOLEAN /\ lost \in BOOLEAN /\ ~out
    BY DEF SessionInit
  <1>6. SessionTypeOK
    BY <1>1, <1>2, <1>3, <1>4, <1>5 DEF SessionInit, SessionTypeOK
  <1>7. QED
    BY <1>5, <1>6 DEF SessionInit, SessionInv, TokensNamed, LogoutHolds

\* The session by itself: after a logout with no login and no refresh in
\* flight only a login brings a session back.  (App.tsx:6433-6452.)
THEOREM SessionLogoutHolds == SessionSpec => []LogoutHolds
  <1>1. SessionInit(0) => SessionInv
    BY SessionInitInv, SessionAssumption
  <1>2. SessionInv /\ [SessionNext]_sessionVars => SessionInv'
    BY SessionStepInv
  <1>3. SessionInv => LogoutHolds
    BY DEF SessionInv
  <1>4. QED
    BY <1>1, <1>2, <1>3, PTL DEF SessionSpec

-----------------------------------------------------------------------------
(* The dialogs *)

\* What the properties rest on in the markup and the handlers of a dialog.
\* A busy flag that the close button respects, the confirm button respects
\* too; a dialog that sends when it is opened stays, whatever the page; one
\* that closes before the lists are loaded is closed by leaving as well; one
\* that compares a name keeps the id it is the name of; one that marks rows
\* reads nothing after its request and is not unmounted.
WellFormed(d) ==
  /\ d.does.busy \in BOOLEAN /\ d.does.once \in BOOLEAN
  /\ d.does.busy /\ d.view.closes # "always" => d.view.confirms # "always"
  /\ d.does.sends = "open" =>
       d.view.leaving = "stays" /\ d.view.closes # "always" /\ d.does.needs = "nothing"
  /\ d.does.done = "closesEarly" => d.view.leaving = "closes"
  /\ d.does.needs = "typed" => d.does.target = "opened"
  /\ d.does.marks => d.does.second # "read" /\ d.view.leaving # "unmounts"

\* All the dialogs of the table are so.
LEMMA AllWellFormed == \A d \in AllDialogs : WellFormed(d)
  <1> USE DEF WellFormed, Dialog, Idle, AnyPage, Free, Form, FreeForm, OneRequest, OfPage,
              Storing, Quick, OnPage
  <1>1. /\ WellFormed(Dialog(userCertRevokeView, confirmUserCertRevoke))
        /\ WellFormed(Dialog(serverCertRevokeView, confirmUserCertRevoke))
        /\ WellFormed(Dialog(userCertUnlinkView, confirmUserCertUnlink))
        /\ WellFormed(Dialog(userCertBindView, confirmUserCertBind))
        /\ WellFormed(Dialog(userCertIssueView, issueProfileCertificate))
        /\ WellFormed(Dialog(userSessionDisconnectView, submitUserSessionDisconnect))
    BY DEF
      userCertRevokeView, confirmUserCertRevoke, serverCertRevokeView, userCertUnlinkView,
      confirmUserCertUnlink, userCertBindView, confirmUserCertBind, userCertIssueView,
      issueProfileCertificate, userSessionDisconnectView, submitUserSessionDisconnect
  <1>2. /\ WellFormed(Dialog(adminBlockView, submitAdminBlock))
        /\ WellFormed(Dialog(adminPasswordResetView, openAdminPasswordResetModal))
        /\ WellFormed(Dialog(addAdminView, createAdmin))
        /\ WellFormed(Dialog(panelBackupDeleteView, deletePanelBackupHandler))
        /\ WellFormed(Dialog(restoreView, restoreFromArchiveHandler))
        /\ WellFormed(Dialog(backupFormView, saveBackupSettingsHandler))
    BY DEF
      adminBlockView, submitAdminBlock, adminPasswordResetView,
      openAdminPasswordResetModal, addAdminView, createAdmin, panelBackupDeleteView,
      deletePanelBackupHandler, restoreView, restoreFromArchiveHandler, backupFormView,
      saveBackupSettingsHandler
  <1>3. /\ WellFormed(Dialog(backupFormView, runBackupNowHandler))
        /\ WellFormed(Dialog(adminFormView, patchAdminIsActive))
        /\ WellFormed(Dialog(adminFormView, saveAdminProfile))
        /\ WellFormed(Dialog(myPasswordView, submitMyAdminPasswordChange))
        /\ WellFormed(Dialog(myTotpSetupView, confirmMyAdminTotpSetup))
        /\ WellFormed(Dialog(myTotpDisableView, disableMyAdminTotp))
    BY DEF
      backupFormView, runBackupNowHandler, adminFormView, patchAdminIsActive,
      saveAdminProfile, myPasswordView, submitMyAdminPasswordChange, myTotpSetupView,
      confirmMyAdminTotpSetup, myTotpDisableView, disableMyAdminTotp
  <1>4. /\ WellFormed(Dialog(myRecoveryView, regenerateMyAdminRecoveryCodes))
        /\ WellFormed(Dialog(taskRetryView, submitTaskRetryFromModal))
        /\ WellFormed(Dialog(agentUpdateView, submitAgentUpdate))
        /\ WellFormed(Dialog(keyMaterialImportView, importKeyMaterial))
        /\ WellFormed(Dialog(keyMaterialCreateView, createKeyMaterial))
        /\ WellFormed(Dialog(openvpnMaterialDeleteView, submitDeleteOpenvpnMaterial))
    BY DEF
      myRecoveryView, regenerateMyAdminRecoveryCodes, taskRetryView,
      submitTaskRetryFromModal, agentUpdateView, submitAgentUpdate, keyMaterialImportView,
      importKeyMaterial, keyMaterialCreateView, createKeyMaterial,
      openvpnMaterialDeleteView, submitDeleteOpenvpnMaterial
  <1>5. /\ WellFormed(Dialog(applyConfirmView, applyServerOpenVpnSettings))
        /\ WellFormed(Dialog(configCheckView, checkOpenvpnConfig))
        /\ WellFormed(Dialog(srvCertCreateView, submitSrvCertCreate))
        /\ WellFormed(Dialog(serverCaIssueView, submitServerCaIssueCertificate))
        /\ WellFormed(Dialog(serverCaImportView, submitServerCaImportCertificate))
        /\ WellFormed(Dialog(serverCaIndexImportView, submitServerCaImportIndex))
    BY DEF
      applyConfirmView, applyServerOpenVpnSettings, configCheckView, checkOpenvpnConfig,
      srvCertCreateView, submitSrvCertCreate, serverCaIssueView,
      submitServerCaIssueCertificate, serverCaImportView, submitServerCaImportCertificate,
      serverCaIndexImportView, submitServerCaImportIndex
  <1>6. /\ WellFormed(Dialog(srvCertImportView, submitSrvCertImport))
        /\ WellFormed(Dialog(serverServerCertDeleteView, submitDeleteServerServerCert))
        /\ WellFormed(Dialog(serverRootCaCreateView, createRootCAForServer))
        /\ WellFormed(Dialog(serverRootCaImportView, importRootCaForServer))
        /\ WellFormed(Dialog(serverRootCaDeleteView, submitRemoveServerPanelRootCa))
        /\ WellFormed(Dialog(certMaterialUploadView, submitCertMaterialUpload))
    BY DEF
      srvCertImportView, submitSrvCertImport, serverServerCertDeleteView,
      submitDeleteServerServerCert, serverRootCaCreateView, createRootCAForServer,
      serverRootCaImportView, importRootCaForServer, serverRootCaDeleteView,
      submitRemoveServerPanelRootCa, certMaterialUploadView, submitCertMaterialUpload
  <1>7. /\ WellFormed(Dialog(bindRootCaView, bindServerPanelRootCa))
        /\ WellFormed(Dialog(newUserView, createVpnUser))
        /\ WellFormed(Dialog(newServerView, createNode))
        /\ WellFormed(Dialog(newOrganizationView, createOrganization))
        /\ WellFormed(Dialog(passwordResetAcceptView, completePasswordReset))
        /\ WellFormed(Dialog(inviteAcceptView, completeInvite))
    BY DEF
      bindRootCaView, bindServerPanelRootCa, newUserView, createVpnUser, newServerView,
      createNode, newOrganizationView, createOrganization, passwordResetAcceptView,
      completePasswordReset, inviteAcceptView, completeInvite
  <1> HIDE DEF WellFormed, Dialog
  <1>8. QED
    BY <1>1, <1>2, <1>3, <1>4, <1>5, <1>6, <1>7 DEF AllDialogs

LEMMA DialogIsWellFormed == ASSUME dlg \in Dialogs, dlg # NoDialog PROVE WellFormed(dlg)
  BY AllWellFormed, DialogsAssumption

Modal == [open : BOOLEAN, n : Nat, of : Places, busy : BOOLEAN, armed : Places,
          over : BOOLEAN]

\* What closing, freeing and leaving do to the state of a dialog.
LEMMA ShutFacts ==
  ASSUME NEW m \in Modal
  PROVE  /\ Shut(m) \in Modal /\ Shut(m).busy = m.busy
         /\ [Shut(m) EXCEPT !.busy = FALSE] \in Modal
         /\ [m EXCEPT !.busy = FALSE] \in Modal
  <1>1. NoSubject \in Places /\ m.armed \in Places
    BY DEF Places, Modal
  <1>2. (IF dlg.view.leaving = "disarms" THEN m.armed ELSE NoSubject) \in Places
    BY <1>1
  <1>3. Shut(m) \in Modal /\ Shut(m).busy = m.busy
    BY <1>2 DEF Shut, Modal
  <1>4. QED
    BY <1>3 DEF Modal

LEMMA FreedFacts ==
  ASSUME NEW m \in Modal PROVE Freed(m) \in Modal
  BY ShutFacts DEF Freed

LEMMA OverFacts ==
  ASSUME NEW m \in Modal, WellFormed(dlg) PROVE Over(m) \in Modal
  <1>1. NoSubject \in Places /\ dlg.does.once \in BOOLEAN
    BY DEF Places, WellFormed
  <1>2. QED
    BY <1>1 DEF Over, Modal

LEMMA LeftFacts ==
  ASSUME NEW m \in Modal, NEW p
  PROVE  /\ Left(m, p) \in Modal
         /\ Flagged => Left(m, p).busy = m.busy
         /\ Guarded => Left(m, p).open = m.open /\ Left(m, p).n = m.n
  <1>1. /\ [m EXCEPT !.armed = NoSubject] \in Modal
        /\ [m EXCEPT !.armed = NoSubject].busy = m.busy
        /\ [m EXCEPT !.armed = NoSubject].open = m.open
        /\ [m EXCEPT !.armed = NoSubject].n = m.n
    BY DEF Modal, Places
  <1>2. CASE p = page
    <2>1. Left(m, p) = m
      BY <1>2, Zenon DEF Left
    <2>2. QED
      BY <2>1
  <1>3. CASE p # page /\ (\/ dlg.view.leaving = "resets"
                          \/ dlg.view.leaving \in {"clears", "unmounts"} /\ p = NoSubject)
    <2>1. ~Flagged /\ ~Guarded
      BY <1>3 DEF Flagged, Guarded
    <2>2. Left(m, p) = [Shut(m) EXCEPT !.busy = FALSE]
      BY <1>3, Zenon DEF Left
    <2>3. QED
      BY <2>1, <2>2, ShutFacts
  <1>4. CASE p # page /\ dlg.view.leaving = "closes" /\ p = NoSubject
    <2>1. ~Guarded
      BY <1>4 DEF Guarded
    <2>2. Left(m, p) = Shut(m)
      BY <1>4 DEF Left
    <2>3. QED
      BY <2>1, <2>2, ShutFacts
  <1>5. CASE p # page /\ dlg.view.leaving = "disarms"
    BY <1>1, <1>5 DEF Left
  <1>6. CASE /\ p # page /\ dlg.view.leaving \notin {"resets", "disarms"}
             /\ ~(dlg.view.leaving \in {"clears", "unmounts", "closes"} /\ p = NoSubject)
    <2>1. Left(m, p) = m
      BY <1>6 DEF Left
    <2>2. QED
      BY <2>1
  <1>7. QED
    BY <1>2, <1>3, <1>4, <1>5, <1>6

\* Confirmations go on or end, none is begun, and the dialog stays busy and
\* open where that is needed.
LEMMA GoesOn ==
  ASSUME DialogInv, SessionInv', dlg' = dlg, page' \in Places, modal' \in Modal,
         count' \in 0..MaxConfirms, moves' \in 0..MaxMoves, losses' \in 0..MaxLost,
         confs' \subseteq Conf, done' \subseteq Done, marked' \subseteq marked,
         dlg = NoDialog => ~modal'.open /\ confs' = {} /\ done' = {} /\ marked' = {},
         \A e \in confs' : /\ SoFar(e)
                           /\ \E c \in confs : e.n = c.n /\ e.typed = c.typed
                                               /\ e.to = c.to,
         Flagged => \A c, e \in confs' : c = e,
         Flagged /\ confs' # {} => modal'.busy = modal.busy,
         Guarded /\ confs' # {} => modal'.open = modal.open /\ modal'.n = modal.n,
         SuccessIsComplete', MarkedIsEnding'
  PROVE  DialogInv'
  <1>1. TypeOK /\ TypeOK'
    BY DEF DialogInv, TypeOK, Modal, SessionInv
  <1>2. (Flagged' <=> Flagged) /\ (Guarded' <=> Guarded) /\ (confs' # {} => confs # {})
    BY DEF Flagged, Guarded
  <1>3. \A e \in confs' : SoFar(e)'
    BY DEF SoFar
  <1>4. Flagged' /\ confs' # {} => modal'.busy
    BY <1>2 DEF DialogInv
  <1>5. (marked # {} => dlg.does.marks)' /\ OneAtATime'
    BY <1>2 DEF DialogInv, OneAtATime
  <1>6. AwaitsOwnAnswer'
    BY <1>2, <1>4 DEF DialogInv, AwaitsOwnAnswer, Guarded
  <1>7. TypedIsTarget'
    BY DEF SoFar, TypedIsTarget
  <1>8. QED
    BY <1>1, <1>3, <1>4, <1>5, <1>6, <1>7 DEF DialogInv

\* The operator closes, types, goes elsewhere, or opens without sending.
LEMMA OperatorKeeps ==
  ASSUME DialogInv,
         \/ Close
         \/ \E s \in Subjects : Arm(s) \/ Unmark(s)
         \/ \E p \in Places : Navigate(p)
         \/ Open /\ dlg.does.sends # "open"
  PROVE  DialogInv'
  <1>1. /\ TypeOK /\ SessionInv /\ modal \in Modal
        /\ SuccessIsComplete /\ MarkedIsEnding /\ OneAtATime /\ AwaitsOwnAnswer
        /\ \A c \in confs : SoFar(c)
        /\ Flagged /\ confs # {} => modal.busy
        /\ marked # {} => dlg.does.marks
    BY DEF DialogInv, TypeOK, Modal
  <1>2. dlg # NoDialog
    BY DEF DialogInv, Close, Arm, Unmark, Navigate, Open, MayOpen, Visible
  <1>3. UNCHANGED sessionVars => SessionInv'
    BY <1>1, SessionStepInv
  <1>4. WellFormed(dlg)
    BY <1>1, <1>2, DialogIsWellFormed DEF TypeOK
  <1>5. CASE Close
    <2>1. /\ modal' = Shut(modal)
          /\ UNCHANGED <<sessionVars, dlg, done, page, confs, count, marked, moves, losses>>
      BY <1>5 DEF Close
    <2>2. modal' \in Modal /\ modal'.busy = modal.busy
      BY <1>1, <2>1, ShutFacts
    <2>3. Guarded => confs = {}
      BY <1>1, <1>5 DEF Close, Guarded, Flagged
    <2>4. SuccessIsComplete' /\ MarkedIsEnding'
      BY <1>1, <2>1 DEF SuccessIsComplete, MarkedIsEnding
    <2>5. QED
      BY <1>1, <1>2, <1>3, <2>1, <2>2, <2>3, <2>4, GoesOn DEF TypeOK, OneAtATime
  <1>6. ASSUME NEW s \in Subjects, Arm(s) PROVE DialogInv'
    <2>1. /\ modal' = [modal EXCEPT !.armed = s]
          /\ UNCHANGED <<sessionVars, dlg, done, page, confs, count, marked, moves, losses>>
      BY <1>6 DEF Arm
    <2>2. modal' \in Modal /\ modal'.busy = modal.busy /\ modal'.open = modal.open
          /\ modal'.n = modal.n
      BY <1>1, <2>1 DEF Modal, Places
    <2>4. SuccessIsComplete' /\ MarkedIsEnding'
      BY <1>1, <2>1 DEF SuccessIsComplete, MarkedIsEnding
    <2>5. QED
      BY <1>1, <1>2, <1>3, <2>1, <2>2, <2>4, GoesOn DEF TypeOK, OneAtATime
  <1>7. ASSUME NEW s \in Subjects, Unmark(s) PROVE DialogInv'
    <2>1. /\ marked' = marked \ {s}
          /\ UNCHANGED <<sessionVars, dlg, done, page, modal, confs, count, moves, losses>>
      BY <1>7 DEF Unmark
    <2>4. SuccessIsComplete' /\ MarkedIsEnding'
      BY <1>1, <2>1 DEF SuccessIsComplete, MarkedIsEnding
    <2>5. QED
      BY <1>1, <1>2, <1>3, <2>1, <2>4, GoesOn DEF TypeOK, OneAtATime
  <1>8. ASSUME NEW p \in Places, Navigate(p) PROVE DialogInv'
    <2>1. /\ page' = p /\ modal' = Left(modal, p)
          /\ confs' = IF dlg.view.leaving = "unmounts" /\ p = NoSubject THEN {} ELSE confs
          /\ UNCHANGED <<sessionVars, dlg, done, count, marked, losses>>
      BY <1>8 DEF Navigate, GoTo
    <2>2. moves' \in 0..MaxMoves
      BY <1>1, <1>8, DialogsAssumption DEF Navigate, TypeOK
    <2>3. /\ modal' \in Modal
          /\ Flagged => modal'.busy = modal.busy
          /\ Guarded => modal'.open = modal.open /\ modal'.n = modal.n
      BY <1>1, <2>1, LeftFacts
    <2>4. SuccessIsComplete' /\ MarkedIsEnding'
      BY <1>1, <1>4, <2>1 DEF SuccessIsComplete, MarkedIsEnding, WellFormed
    <2>5. confs' \subseteq confs
      BY <2>1
    <2>6. QED
      BY <1>1, <1>2, <1>3, <2>1, <2>2, <2>3, <2>4, <2>5, GoesOn DEF TypeOK, OneAtATime
  <1>9. CASE Open /\ dlg.does.sends # "open"
    <2>1. /\ modal' = Opened /\ ~modal.open /\ page \in Places
          /\ UNCHANGED <<sessionVars, dlg, done, page, confs, count, marked, moves, losses>>
      BY <1>1, <1>9 DEF Open, MayOpen, TypeOK
    <2>2. modal' \in Modal /\ modal'.busy = modal.busy
      <3>1. (modal.over /\ dlg.view.opens = "asLeft") \in BOOLEAN /\ modal.n + 1 \in Nat
        BY <1>1 DEF Modal
      <3>2. QED
        BY <1>1, <2>1, <3>1 DEF Modal, Opened
    <2>3. Guarded => confs = {}
      BY <1>1, <2>1 DEF AwaitsOwnAnswer
    <2>4. SuccessIsComplete' /\ MarkedIsEnding'
      BY <1>1, <2>1 DEF SuccessIsComplete, MarkedIsEnding
    <2>5. QED
      BY <1>1, <1>2, <1>3, <2>1, <2>2, <2>3, <2>4, GoesOn DEF TypeOK, OneAtATime
  <1>10. QED
    BY <1>5, <1>6, <1>7, <1>8, <1>9


\* A confirmation is begun, with what the dialog m says.
LEMMA SendKeeps ==
  ASSUME DialogInv, dlg # NoDialog, NEW s \in Subjects, NEW m \in Modal, Send(s, m),
         m.open, Flagged => confs = {},
         dlg.does.needs = "typed" => m.armed = s,
         UNCHANGED <<sessionVars, dlg, done, page, moves, losses>>
  PROVE  DialogInv'
  <1> DEFINE e == [id |-> count + 1, n |-> m.n, typed |-> m.armed, to |-> s,
                   then |-> NoSubject, k |-> 1, st |-> "sent", ran |-> {}, skipped |-> FALSE,
                   tok |-> token.n]
  <1>1. /\ TypeOK /\ SessionInv /\ SuccessIsComplete /\ MarkedIsEnding
        /\ \A c \in confs : SoFar(c)
        /\ marked # {} => dlg.does.marks
    BY DEF DialogInv
  <1>2. SessionInv'
    BY <1>1, SessionStepInv
  <1>3. WellFormed(dlg)
    BY <1>1, DialogIsWellFormed DEF TypeOK
  <1>4. /\ count < MaxConfirms /\ count' = count + 1
        /\ confs' = confs \cup {e}
        /\ modal' = [m EXCEPT !.busy = dlg.does.busy]
        /\ marked' = IF dlg.does.marks THEN marked \cup {s} ELSE marked
    BY Zenon DEF Send
  <1>5. count' \in 0..MaxConfirms /\ count + 1 \in 1..MaxConfirms
    BY <1>1, <1>4, DialogsAssumption DEF TypeOK
  <1>6. token.n \in 0..MaxTokens
    BY <1>1, TokenFacts DEF SessionInv, SessionTypeOK
  <1>7. m.n \in Nat /\ m.of \in Places /\ m.armed \in Places /\ NoSubject \in Places
    BY DEF Modal, Places
  <1>8. e \in Conf
    BY <1>5, <1>6, <1>7 DEF Conf
  <1>9. /\ e.n = m.n /\ e.typed = m.armed /\ e.to = s /\ e.k = 1
        /\ e.st = "sent" /\ e.ran = {} /\ ~e.skipped
    OBVIOUS
  <1> HIDE DEF e
  <1>10. dlg.does.busy \in BOOLEAN
    BY <1>3 DEF WellFormed
  <1>11. modal' \in Modal /\ modal'.busy = dlg.does.busy /\ modal'.open /\ modal'.n = m.n
    BY <1>4, <1>10 DEF Modal
  <1>12. TypeOK'
    BY <1>1, <1>2, <1>4, <1>5, <1>8, <1>11 DEF TypeOK, Modal, SessionInv
  <1>13. (Flagged' <=> Flagged) /\ (Guarded' <=> Guarded)
    BY DEF Flagged, Guarded
  <1>14. \A c \in confs' : SoFar(c)'
    <2>1. SoFar(e)
      BY <1>9 DEF SoFar
    <2>2. QED
      BY <1>1, <1>4, <2>1 DEF SoFar
  <1>15. Flagged' => confs' = {e} /\ modal'.busy
    BY <1>4, <1>11, <1>13 DEF Flagged
  <1>16. OneAtATime' /\ AwaitsOwnAnswer'
    BY <1>9, <1>11, <1>13, <1>15 DEF OneAtATime, AwaitsOwnAnswer, Guarded
  <1>18. TypedIsTarget'
    BY <1>14 DEF SoFar, TypedIsTarget
  <1>19. SuccessIsComplete'
    BY <1>1 DEF SuccessIsComplete
  <1>20. MarkedIsEnding' /\ (marked # {} => dlg.does.marks)'
    BY <1>1, <1>4, <1>9 DEF MarkedIsEnding
  <1>21. QED
    BY <1>2, <1>12, <1>14, <1>15, <1>16, <1>18, <1>19, <1>20 DEF DialogInv

LEMMA ConfirmKeeps ==
  ASSUME DialogInv, Confirm \/ (Open /\ dlg.does.sends = "open")
  PROVE  DialogInv'
  <1>1. /\ TypeOK /\ modal \in Modal /\ AwaitsOwnAnswer /\ page \in Places
        /\ Flagged /\ confs # {} => modal.busy
    BY DEF DialogInv, TypeOK, Modal
  <1>2. dlg # NoDialog
    BY DEF DialogInv, Confirm, CanConfirm, Open, MayOpen, Visible
  <1>3. WellFormed(dlg)
    BY <1>1, <1>2, DialogIsWellFormed DEF TypeOK
  <1>4. CASE Confirm
    <2>1. /\ modal.open /\ Target # NoSubject
          /\ Send(Target, modal)
          /\ UNCHANGED <<sessionVars, dlg, done, page, moves, losses>>
      BY <1>4 DEF Confirm, CanConfirm, Visible
    <2>2. Target \in Subjects
      BY <1>1, <2>1 DEF Target, Modal, Places
    <2>3. Flagged => confs = {}
      BY <1>1, <1>3, <1>4 DEF Confirm, CanConfirm, Flagged, WellFormed
    <2>4. dlg.does.needs = "typed" => modal.armed = Target
      BY <1>3, <1>4 DEF Confirm, Target, WellFormed
    <2>5. QED
      BY <1>1, <1>2, <2>1, <2>2, <2>3, <2>4, SendKeeps
  <1>5. CASE Open /\ dlg.does.sends = "open"
    <2>1. /\ ~modal.open /\ page \in Subjects
          /\ Send(page, Opened)
          /\ UNCHANGED <<sessionVars, dlg, done, page, moves, losses>>
      BY <1>1, <1>5 DEF Open, MayOpen, Places
    <2>2. Opened \in Modal /\ Opened.open /\ Opened.of = page
      <3>1. (modal.over /\ dlg.view.opens = "asLeft") \in BOOLEAN /\ modal.n + 1 \in Nat
        BY <1>1 DEF Modal
      <3>2. QED
        BY <1>1, <3>1 DEF Modal, Opened
    <2>3. Flagged => confs = {}
      BY <1>1, <1>3, <1>5, <2>1 DEF AwaitsOwnAnswer, Guarded, WellFormed
    <2>4. dlg.does.needs # "typed"
      BY <1>3, <1>5 DEF WellFormed
    <2>5. QED
      BY <1>2, <2>1, <2>2, <2>3, <2>4, SendKeeps
  <1>6. QED
    BY <1>4, <1>5

\* A confirmation becomes another state of itself.
LEMMA WithKeeps ==
  ASSUME DialogInv, dlg # NoDialog, NEW c \in confs, NEW e \in Conf, SoFar(e),
         e.n = c.n /\ e.typed = c.typed /\ e.to = c.to,
         confs' = With(c, e), modal' \in Modal, modal'.busy = modal.busy,
         Guarded => modal' = modal,
         UNCHANGED <<sessionVars, dlg, done, page, count, marked, moves, losses>>
  PROVE  DialogInv'
  <1>1. /\ TypeOK /\ SessionInv /\ SuccessIsComplete /\ MarkedIsEnding /\ OneAtATime
        /\ \A d \in confs : SoFar(d)
    BY DEF DialogInv
  <1>2. SessionInv'
    BY <1>1, SessionStepInv
  <1>3. /\ \A d \in confs' : d = e \/ d \in confs
        /\ \A d \in confs : d = c \/ d \in confs'
        /\ e \in confs'
    BY DEF With
  <1>4. Flagged => \A d, f \in confs' : d = f
    BY <1>1 DEF With, OneAtATime
  <1>5. SuccessIsComplete'
    BY <1>1 DEF SuccessIsComplete
  <1>6. MarkedIsEnding'
    BY <1>1, <1>3 DEF MarkedIsEnding
  <1>7. confs' \subseteq Conf
    BY <1>1, <1>3 DEF TypeOK
  <1>8. \A d \in confs' : /\ SoFar(d)
                          /\ \E f \in confs : d.n = f.n /\ d.typed = f.typed
                                              /\ d.to = f.to
    BY <1>1, <1>3
  <1>9. QED
    BY <1>1, <1>2, <1>4, <1>5, <1>6, <1>7, <1>8, GoesOn DEF TypeOK

\* A confirmation ends.
LEMMA EndKeeps ==
  ASSUME DialogInv, dlg # NoDialog, NEW c \in confs, confs' = confs \ {c}, SessionInv',
         modal' \in Modal, page' \in Places, done' \subseteq Done, losses' \in 0..MaxLost,
         marked' \subseteq marked, MarkedIsEnding', SuccessIsComplete',
         UNCHANGED <<dlg, count, moves>>
  PROVE  DialogInv'
  <1>1. /\ TypeOK /\ OneAtATime
        /\ \A d \in confs : SoFar(d)
    BY DEF DialogInv
  <1>2. Flagged => confs' = {}
    BY <1>1 DEF OneAtATime
  <1>3. Guarded => Flagged
    BY DEF Guarded
  <1>4. confs' \subseteq Conf /\ confs' \subseteq confs
    BY <1>1 DEF TypeOK
  <1>5. QED
    BY <1>1, <1>2, <1>3, <1>4, GoesOn DEF TypeOK

\* The panel runs a request or a handler goes on with its next.
LEMMA ProgressKeeps ==
  ASSUME DialogInv, NEW c \in confs, Run(c) \/ Second(c) \/ Skip(c)
  PROVE  DialogInv'
  <1>1. /\ TypeOK /\ SessionInv /\ modal \in Modal /\ c \in Conf /\ SoFar(c)
        /\ dlg # NoDialog
    BY DEF DialogInv, TypeOK, Modal
  <1>2. UNCHANGED <<sessionVars, dlg, done, page, modal, count, marked, moves, losses>>
    BY DEF Run, Second, Skip
  <1>3. CASE Run(c)
    <2> DEFINE e == [c EXCEPT !.st = "ran", !.ran = @ \cup {c.k}]
    <2>1. c.ran \cup {c.k} \in SUBSET {1, 2}
      BY <1>1 DEF Conf
    <2>2. e \in Conf
      BY <1>1, <2>1 DEF Conf
    <2>3. /\ e.n = c.n /\ e.typed = c.typed /\ e.to = c.to /\ e.st = "ran"
          /\ e.ran = c.ran \cup {c.k} /\ e.k = c.k /\ e.skipped = c.skipped /\ e.then = c.then
      BY <1>1 DEF Conf
    <2>4. c.st = "sent" /\ Checked(c) /\ confs' = With(c, e)
      BY <1>3 DEF Run
    <2> HIDE DEF e
    <2>5. SoFar(e)
      BY <1>1, <2>3, <2>4 DEF SoFar, Checked
    <2>6. QED
      BY <1>1, <1>2, <2>2, <2>3, <2>4, <2>5, WithKeeps
  <1>4. CASE Second(c)
    <2> DEFINE t == IF dlg.does.second = "mayWrite" THEN c.tok ELSE token.n
               e == [c EXCEPT !.k = 2, !.st = "sent", !.then = c.to, !.tok = t]
    <2>1. t \in 0..MaxTokens /\ c.to \in Places
      BY <1>1, TokenFacts DEF Conf, SessionInv, SessionTypeOK, Places
    <2>4. More(c) /\ confs' = With(c, e)
      BY <1>4, Zenon DEF Second
    <2> HIDE DEF t
    <2>2. e \in Conf
      BY <1>1, <2>1 DEF Conf
    <2>3. /\ e.n = c.n /\ e.typed = c.typed /\ e.to = c.to /\ e.st = "sent"
          /\ e.ran = c.ran /\ e.k = 2 /\ e.skipped = c.skipped /\ e.then = c.to
      BY <1>1 DEF Conf
    <2> HIDE DEF e
    <2>5. SoFar(e)
      BY <1>1, <2>3, <2>4 DEF SoFar, More
    <2>6. QED
      BY <1>1, <1>2, <2>2, <2>3, <2>4, <2>5, WithKeeps
  <1>5. CASE Skip(c)
    <2> DEFINE e == [c EXCEPT !.st = "lists", !.skipped = TRUE]
    <2>2. e \in Conf
      BY <1>1 DEF Conf
    <2>3. /\ e.n = c.n /\ e.typed = c.typed /\ e.to = c.to /\ e.st = "lists"
          /\ e.ran = c.ran /\ e.k = c.k /\ e.skipped = TRUE /\ e.then = c.then
      BY <1>1 DEF Conf
    <2>4. More(c) /\ confs' = With(c, e)
      BY <1>5 DEF Skip
    <2> HIDE DEF e
    <2>5. SoFar(e)
      BY <1>1, <2>3, <2>4 DEF SoFar, More
    <2>6. QED
      BY <1>1, <1>2, <2>2, <2>3, <2>4, <2>5, WithKeeps
  <1>6. QED
    BY <1>3, <1>4, <1>5

\* The handler fails.
LEMMA FailureKeeps ==
  ASSUME DialogInv, NEW c \in confs, Refuse(c) \/ Deny(c) \/ Fails(c) \/ NotRead(c)
  PROVE  DialogInv'
  <1>1. /\ TypeOK /\ SessionInv /\ modal \in Modal /\ MarkedIsEnding /\ SuccessIsComplete
        /\ dlg # NoDialog /\ (marked # {} => dlg.does.marks)
    BY DEF DialogInv, TypeOK, Modal
  <1>2. WellFormed(dlg)
    BY <1>1, DialogIsWellFormed DEF TypeOK
  <1>3. confs' = confs \ {c} /\ UNCHANGED <<dlg, done, count, moves>>
    BY DEF Refuse, Deny, Fails, NotRead, Failed
  <1>4. marked' \subseteq marked /\ (\A s \in marked' : s # c.to)
    <2>1. CASE Refuse(c) \/ Deny(c) \/ Fails(c)
      BY <1>1, <2>1 DEF Refuse, Deny, Fails, Unmarked
    <2>2. CASE NotRead(c)
      BY <1>1, <1>2, <2>2 DEF NotRead, WellFormed
    <2>3. QED
      BY <2>1, <2>2
  <1>5. MarkedIsEnding' /\ SuccessIsComplete'
    BY <1>1, <1>3, <1>4 DEF MarkedIsEnding, SuccessIsComplete
  <1>6. CASE Deny(c)
    <2>1. SessionInv'
      BY <1>1, <1>6, EndOfSession DEF Deny
    <2>2. Left(modal, NoSubject) \in Modal
      BY <1>1, LeftFacts
    <2>3. modal' \in Modal /\ page' \in Places /\ losses' \in 0..MaxLost
      BY <1>1, <1>6, <2>2, FreedFacts DEF Deny, Places, TypeOK
    <2>4. QED
      BY <1>1, <1>3, <1>4, <1>5, <2>1, <2>3, EndKeeps DEF TypeOK
  <1>7. CASE Refuse(c) \/ Fails(c) \/ NotRead(c)
    <2>1. SessionInv'
      BY <1>1, <1>7, SessionStepInv DEF Refuse, Fails, NotRead
    <2>2. losses' \in 0..MaxLost
      BY <1>1, <1>7, DialogsAssumption DEF Refuse, Fails, NotRead, TypeOK
    <2>3. modal' \in Modal /\ page' \in Places
      BY <1>1, <1>7, FreedFacts DEF Refuse, Fails, NotRead, TypeOK
    <2>4. QED
      BY <1>1, <1>3, <1>4, <1>5, <2>1, <2>2, <2>3, EndKeeps DEF TypeOK
  <1>8. QED
    BY <1>6, <1>7

\* The handler succeeds: all was run.
LEMMA SucceededFacts ==
  ASSUME DialogInv, NEW c \in confs, Succeeded(c), c.st = "lists" \/ (c.st = "ran" /\ ~More(c)),
         UNCHANGED <<dlg, marked>>
  PROVE  done' \subseteq Done /\ confs' = confs \ {c} /\ MarkedIsEnding' /\ SuccessIsComplete'
  <1> DEFINE d == [to |-> c.to, then |-> c.then, ran |-> c.ran, skipped |-> c.skipped]
  <1>1. TypeOK /\ c \in Conf /\ SoFar(c) /\ MarkedIsEnding /\ SuccessIsComplete
    BY DEF DialogInv, TypeOK
  <1>2. confs' = confs \ {c} /\ done' = done \cup {d}
    BY DEF Succeeded
  <1>3. d \in Done
    BY <1>1 DEF Conf, Done
  <1>4. d.to = c.to /\ d.then = c.then /\ d.ran = c.ran /\ d.skipped = c.skipped
    OBVIOUS
  <1> HIDE DEF d
  <1>5. ~c.skipped => IF dlg.does.second = "none" THEN c.ran = {1}
                      ELSE c.ran = {1, 2} /\ c.then = c.to
    <2>1. c.k \in {1, 2} /\ c.st # "sent"
      BY <1>1 DEF Conf
    <2>2. CASE dlg.does.second = "none"
      BY <1>1, <2>1, <2>2 DEF SoFar
    <2>3. CASE dlg.does.second # "none"
      <3>1. ~c.skipped => c.k = 2
        BY <1>1, <2>1, <2>3 DEF SoFar, More
      <3>2. QED
        BY <1>1, <2>1, <2>3, <3>1 DEF SoFar
    <2>4. QED
      BY <2>2, <2>3
  <1>6. SuccessIsComplete'
    BY <1>1, <1>2, <1>4, <1>5 DEF SuccessIsComplete
  <1>7. MarkedIsEnding'
    BY <1>1, <1>2, <1>4 DEF MarkedIsEnding
  <1>8. QED
    BY <1>1, <1>2, <1>3, <1>6, <1>7 DEF TypeOK

LEMMA SuccessKeeps ==
  ASSUME DialogInv, NEW c \in confs, Finish(c) \/ Listed(c)
  PROVE  DialogInv'
  <1>1. /\ TypeOK /\ SessionInv /\ modal \in Modal /\ c \in Conf /\ SoFar(c)
        /\ dlg # NoDialog
    BY DEF DialogInv, TypeOK, Modal
  <1>2. WellFormed(dlg)
    BY <1>1, DialogIsWellFormed DEF TypeOK
  <1>3. UNCHANGED <<sessionVars, dlg, count, marked, moves, losses>>
    BY DEF Finish, Listed
  <1>4. SessionInv'
    BY <1>1, <1>3, SessionStepInv
  <1>5. modal' \in Modal
    <2>1. modal' \in {modal, Shut(modal), [Shut(modal) EXCEPT !.busy = FALSE], Over(modal),
                      [modal EXCEPT !.busy = FALSE]}
      <3>1. CASE Listed(c)
        BY <3>1, Zenon DEF Listed
      <3>2. CASE Finish(c)
        BY <3>2 DEF Finish
      <3>3. QED
        BY <3>1, <3>2
    <2>2. QED
      BY <1>1, <1>2, <2>1, ShutFacts, OverFacts
  <1>6. page' \in Places
    BY <1>1 DEF Finish, Listed, Places, TypeOK
  <1>7. CASE Listed(c) \/ (Finish(c) /\ dlg.does.done \in {"closesFirst", "shows"})
    <2>1. Succeeded(c) /\ (c.st = "lists" \/ (c.st = "ran" /\ ~More(c)))
      BY <1>7 DEF Finish, Listed
    <2>2. done' \subseteq Done /\ confs' = confs \ {c} /\ MarkedIsEnding' /\ SuccessIsComplete'
      BY <1>3, <2>1, SucceededFacts
    <2>3. QED
      BY <1>1, <1>3, <1>4, <1>5, <1>6, <2>2, EndKeeps DEF TypeOK
  <1>8. CASE Finish(c) /\ dlg.does.done \notin {"closesFirst", "shows"}
    <2> DEFINE e == [c EXCEPT !.st = "lists"]
    <2>1. e \in Conf
      BY <1>1 DEF Conf
    <2>2. /\ e.n = c.n /\ e.typed = c.typed /\ e.to = c.to /\ e.st = "lists"
          /\ e.ran = c.ran /\ e.k = c.k /\ e.skipped = c.skipped /\ e.then = c.then
      BY <1>1 DEF Conf
    <2>3. c.st = "ran" /\ ~More(c) /\ confs' = With(c, e) /\ UNCHANGED <<done, page>>
      BY <1>8 DEF Finish
    <2> HIDE DEF e
    <2>4. SoFar(e)
      BY <1>1, <2>2, <2>3 DEF SoFar, More
    <2>5. modal'.busy = modal.busy /\ (Guarded => modal' = modal)
      <3>1. CASE dlg.does.done = "closesEarly"
        <4>1. modal' = Shut(modal)
          BY <1>8, <3>1 DEF Finish
        <4>2. ~Guarded
          BY <1>2, <3>1 DEF WellFormed, Guarded
        <4>3. QED
          BY <1>1, <4>1, <4>2, ShutFacts
      <3>2. CASE dlg.does.done # "closesEarly"
        BY <1>8, <3>2 DEF Finish
      <3>3. QED
        BY <3>1, <3>2
    <2>6. QED
      BY <1>1, <1>3, <1>5, <2>1, <2>2, <2>3, <2>4, <2>5, WithKeeps
  <1>9. QED
    BY <1>7, <1>8

\* The session goes on next to the dialog.
LEMMA SessionKeeps ==
  ASSUME DialogInv, SessionHome \/ SessionStays \/ SessionReload
  PROVE  DialogInv'
  <1>1. /\ TypeOK /\ SessionInv /\ modal \in Modal /\ MarkedIsEnding /\ SuccessIsComplete
        /\ OneAtATime /\ (marked # {} => dlg.does.marks)
        /\ \A d \in confs : SoFar(d)
        /\ dlg = NoDialog => ~modal.open /\ confs = {} /\ done = {} /\ marked = {}
    BY DEF DialogInv, TypeOK, Modal
  <1>2. SessionInv'
    BY <1>1, SessionStepInv DEF SessionHome, SessionStays, SessionReload, SessionNext, StaysOnPage
  <1>3. dlg # NoDialog => WellFormed(dlg)
    BY <1>1, DialogIsWellFormed DEF TypeOK
  <1>4. CASE SessionHome /\ dlg # NoDialog
    <2>1. /\ page' = NoSubject /\ modal' = Left(modal, NoSubject)
          /\ confs' = IF dlg.view.leaving = "unmounts" THEN {} ELSE confs
          /\ UNCHANGED <<dlg, done, count, marked, moves, losses>>
      BY <1>4 DEF SessionHome, Homeward, GoTo
    <2>2. /\ modal' \in Modal
          /\ Flagged => modal'.busy = modal.busy
          /\ Guarded => modal'.open = modal.open /\ modal'.n = modal.n
      BY <1>1, <2>1, LeftFacts
    <2>3. confs' \subseteq confs /\ page' \in Places
      BY <2>1 DEF Places
    <2>4. SuccessIsComplete' /\ MarkedIsEnding'
      BY <1>1, <1>3, <1>4, <2>1 DEF SuccessIsComplete, MarkedIsEnding, WellFormed
    <2>5. QED
      BY <1>1, <1>2, <1>4, <2>1, <2>2, <2>3, <2>4, GoesOn DEF TypeOK, OneAtATime
  <1>5. CASE SessionStays \/ (SessionHome /\ dlg = NoDialog)
    <2>1. UNCHANGED dialogVars
      BY <1>5 DEF SessionStays, SessionHome, Homeward, dialogVars
    <2>2. SuccessIsComplete' /\ MarkedIsEnding'
      BY <1>1, <2>1 DEF dialogVars, SuccessIsComplete, MarkedIsEnding
    <2>3. QED
      BY <1>1, <1>2, <2>1, <2>2, GoesOn DEF dialogVars, TypeOK, OneAtATime
  <1>6. CASE SessionReload
    <2>1. /\ modal' = [Closed EXCEPT !.n = modal.n] /\ confs' = {} /\ marked' = {}
          /\ UNCHANGED <<dlg, done, page, count, moves, losses>>
      BY <1>6 DEF SessionReload
    <2>2. modal' \in Modal /\ ~modal'.open
      BY <1>1, <2>1 DEF Modal, Closed, Places
    <2>3. SuccessIsComplete' /\ MarkedIsEnding'
      BY <1>1, <2>1 DEF SuccessIsComplete, MarkedIsEnding
    <2>4. QED
      BY <1>1, <1>2, <2>1, <2>2, <2>3, GoesOn DEF TypeOK
  <1>7. QED
    BY <1>4, <1>5, <1>6

LEMMA InitDialogInv == ASSUME Init PROVE DialogInv
  <1>1. SessionInv
    BY SessionInitInv, SessionAssumption, DialogsAssumption DEF Init
  <1>2. Closed \in Modal /\ ~Closed.open
    BY DEF Closed, Modal, Places
  <1>3. TypeOK
    BY <1>1, <1>2, DialogsAssumption DEF Init, TypeOK, Modal, Places, SessionInv
  <1>4. QED
    BY <1>1, <1>2, <1>3 DEF Init, DialogInv, OneAtATime, AwaitsOwnAnswer, TypedIsTarget,
       SuccessIsComplete, MarkedIsEnding

LEMMA NextDialogInv == ASSUME DialogInv, [Next]_vars PROVE DialogInv'
  <1>1. CASE Open
    BY <1>1, OperatorKeeps, ConfirmKeeps
  <1>2. CASE Close \/ (\E s \in Subjects : Arm(s) \/ Unmark(s)) \/ \E p \in Places : Navigate(p)
    BY <1>2, OperatorKeeps
  <1>3. CASE Confirm
    BY <1>3, ConfirmKeeps
  <1>4. ASSUME NEW c \in confs, Progress(c) \/ Fails(c) PROVE DialogInv'
    BY <1>4, ProgressKeeps, FailureKeeps, SuccessKeeps DEF Progress
  <1>5. CASE SessionHome \/ SessionStays \/ SessionReload
    BY <1>5, SessionKeeps
  <1>6. CASE UNCHANGED vars
    <2>1. UNCHANGED sessionVars /\ UNCHANGED dialogVars
      BY <1>6 DEF vars
    <2>2. TypeOK /\ SessionInv /\ SuccessIsComplete /\ MarkedIsEnding
      BY DEF DialogInv
    <2>3. SessionInv'
      BY <2>1, <2>2, SessionStepInv
    <2>4. SuccessIsComplete' /\ MarkedIsEnding'
      BY <2>1, <2>2 DEF dialogVars, SuccessIsComplete, MarkedIsEnding
    <2>5. QED
      BY <2>1, <2>2, <2>3, <2>4, GoesOn DEF dialogVars, DialogInv, TypeOK, Modal, OneAtATime
  <1>7. QED
    BY <1>1, <1>2, <1>3, <1>4, <1>5, <1>6 DEF Next

\* The inductive invariant holds, whatever dialogs of the table are looked at.
THEOREM DialogInvariant == Spec => []DialogInv
  <1>1. Init => DialogInv
    BY InitDialogInv
  <1>2. DialogInv /\ [Next]_vars => DialogInv'
    BY NextDialogInv
  <1>3. QED
    BY <1>1, <1>2, PTL DEF Spec

\* A dialog whose busy flag is respected never has two confirmations under
\* way, whatever becomes of the page and the session.  (The busy flags of
\* App.tsx:3190-3530, 3723-4163, 5309-5341.)
THEOREM ConfirmedOneAtATime == Spec => []OneAtATime
  <1>1. DialogInv => OneAtATime
    BY DEF DialogInv
  <1>2. QED
    BY <1>1, DialogInvariant, PTL

\* While an answer is awaited the dialog that sent the request is open and
\* busy, so the answer cannot close or free another opening of it.  (The
\* handlers of App.tsx:3230-3242, 5312-5323.)
THEOREM AnswersFindTheirDialog == Spec => []AwaitsOwnAnswer
  <1>1. DialogInv => AwaitsOwnAnswer
    BY DEF DialogInv
  <1>2. QED
    BY <1>1, DialogInvariant, PTL

\* The panel runs the removal of a root and the blocking of an administrator
\* only for the name of the very one it is run for, although the page may
\* compare with the root of a server that was left.  (App.tsx:3219-3227,
\* 5484-5509; panel/settings.go:220-235.)
THEOREM TypedNamesAreTargets == Spec => []TypedIsTarget
  <1>1. DialogInv => TypedIsTarget
    BY DEF DialogInv
  <1>2. QED
    BY <1>1, DialogInvariant, PTL

\* What is reported as done was run completely and for one server, unless
\* its second request was left out.  (App.tsx:3740-3768, 5426-5446.)
THEOREM SuccessesAreComplete == Spec => []SuccessIsComplete
  <1>1. DialogInv => SuccessIsComplete
    BY DEF DialogInv
  <1>2. QED
    BY <1>1, DialogInvariant, PTL

\* A row says "disconnecting" only while its request is under way or after it
\* was run.  (App.tsx:4231-4270.)
THEOREM MarkedRowsAreEnding == Spec => []MarkedIsEnding
  <1>1. DialogInv => MarkedIsEnding
    BY DEF DialogInv
  <1>2. QED
    BY <1>1, DialogInvariant, PTL

\* Next to the dialogs, too, only a login brings a session back after a
\* logout with nothing in flight.  (App.tsx:6433-6452, 365-379.)
THEOREM LogoutsHold == Spec => []LogoutHolds
  <1>1. DialogInv => LogoutHolds
    BY DEF DialogInv, SessionInv
  <1>2. QED
    BY <1>1, DialogInvariant, PTL
=============================================================================
