------------------------------ MODULE UiSession ------------------------------
(***************************************************************************)
(* The session of the administrator in the browser (App.tsx): the token in *)
(* the component's state and in localStorage, the login form and the       *)
(* dialog of the second factor, the refresh that follows the operator's    *)
(* activity, the ticker that watches the expiry, and the calls of the page *)
(* of which any 401 ends the session.  A call carries the token of the     *)
(* moment it was sent and is answered at some later moment: nothing        *)
(* compares the two.  The panel checks of a token only its expiry; whether *)
(* its administrator is still active is seen by GET /api/admins/me, which  *)
(* the page sends whenever the token changes.                              *)
(***************************************************************************)
EXTENDS Naturals, FiniteSets

CONSTANTS
  Admins,
  NoAdmin,
  MfaAdmins,   \* administrators with a second factor
  MaxTokens,   \* bound: tokens issued
  MaxSteps,    \* bound: steps of the administrators
  MaxFails     \* bound: calls that fail on the network

ASSUME SessionAssumption ==
  /\ NoAdmin \notin Admins
  /\ MfaAdmins \subseteq Admins
  /\ MaxTokens \in Nat \ {0}
  /\ MaxSteps \in Nat
  /\ MaxFails \in Nat

VARIABLES
  token,   \* the token in the state of the page
  stored,  \* the token in localStorage
  issued,  \* tokens the panel has issued; they expire in this order
  aged,    \* tokens that have expired
  active,  \* administrators that are not blocked
  calls,   \* calls in flight
  mfa,     \* the dialog of the second factor
  timer,   \* a refresh is scheduled
  steps,
  fails,
  out,     \* logged out with nothing in flight, and no login since
  blockAt, \* the last token issued when an administrator was blocked
  lost     \* the last GET of the own profile failed on the network

sessionVars == <<token, stored, issued, aged, active, calls, mfa, timer, steps, fails,
                 out, blockAt, lost>>

-----------------------------------------------------------------------------
NoToken == [who |-> NoAdmin, n |-> 0]
Token == [who : Admins, n : 1..MaxTokens]

\* The dialog of the second factor: whose login waits in it.
NoMfa == [who |-> NoAdmin, busy |-> FALSE]

\* A call: what it is, whose it is, the token it carries and its answer.
\* (Equal calls in flight are one: the second may as well be sent later.)
Call == [kind : {"login", "mfa", "refresh", "me", "get"},
         who : Admins, n : 0..MaxTokens,
         res : {"none", "ok", "401", "refused", "mfa", "token"}, new : 0..MaxTokens]

SessionTypeOK ==
  /\ token \in Token \cup {NoToken}
  /\ stored \in Token \cup {NoToken}
  /\ issued \in 0..MaxTokens
  /\ aged \in 0..issued
  /\ active \subseteq Admins
  /\ calls \subseteq Call
  /\ mfa \in [who : Admins \cup {NoAdmin}, busy : BOOLEAN]
  /\ timer \in BOOLEAN
  /\ steps \in 0..MaxSteps
  /\ fails \in 0..MaxFails
  /\ out \in BOOLEAN
  /\ blockAt \in [Admins -> 0..MaxTokens]
  /\ lost \in BOOLEAN

\* The page is loaded by somebody who is logged in, or by nobody; of the
\* bounded steps some may be set aside.
SessionInit(aside) ==
  /\ token \in [who : Admins, n : {1}] \cup {NoToken}
  /\ stored = token
  /\ issued = 1
  /\ aged = IF token = NoToken THEN 1 ELSE 0
  /\ active = Admins
  /\ calls = {}
  /\ mfa = NoMfa
  /\ timer = FALSE
  /\ steps = aside
  /\ fails = 0
  /\ out = FALSE
  /\ blockAt = [a \in Admins |-> 0]
  /\ lost = FALSE

Step == steps < MaxSteps /\ steps' = steps + 1

NewCall(kind, who, n) == [kind |-> kind, who |-> who, n |-> n, res |-> "none", new |-> 0]

\* parseJwtPayload: the expiry of a token is read from the token itself.
Expired(t) == t # NoToken /\ t.n <= aged

-----------------------------------------------------------------------------
(* The page.                                                               *)

\* Mutant: the profile is read once, when the page is loaded.
SetTokenOnly(t, cs) ==
  /\ token' = t
  /\ stored' = t
  /\ timer' = (timer /\ t = token)
  /\ calls' = cs

\* setToken and the effects that follow it: the token is stored or removed,
\* a scheduled refresh is cleared, and the own profile is read.
SetToken(t, cs) ==
  /\ token' = t
  /\ stored' = t
  /\ timer' = (timer /\ t = token)
  /\ calls' = IF t \in {token, NoToken} THEN cs ELSE cs \cup {NewCall("me", t.who, t.n)}

\* login sends the credentials; the button has no busy state.
Login(a) ==
  /\ Step
  /\ token = NoToken
  /\ mfa = NoMfa
  /\ calls' = calls \cup {NewCall("login", a, 0)}
  /\ out' = FALSE
  /\ UNCHANGED <<token, stored, issued, aged, active, mfa, timer, fails, blockAt, lost>>

\* submitMfaLogin.
SubmitMfa ==
  /\ Step
  /\ token = NoToken
  /\ mfa.who # NoAdmin
  /\ ~mfa.busy
  /\ mfa' = [mfa EXCEPT !.busy = TRUE]
  /\ calls' = calls \cup {NewCall("mfa", mfa.who, 0)}
  /\ out' = FALSE
  /\ UNCHANGED <<token, stored, issued, aged, active, timer, fails, blockAt, lost>>

\* closeMfaModal: the cross and the backdrop work while the code is checked.
CloseMfa ==
  /\ Step
  /\ token = NoToken
  /\ mfa.who # NoAdmin
  /\ mfa' = NoMfa
  /\ UNCHANGED <<token, stored, issued, aged, active, calls, timer, fails, out, blockAt, lost>>

\* A key, a click or a scroll schedules a refresh.
Activity ==
  /\ Step
  /\ token # NoToken
  /\ ~timer
  /\ timer' = TRUE
  /\ UNCHANGED <<token, stored, issued, aged, active, calls, mfa, fails, out, blockAt, lost>>

\* refreshSession, 600 ms after the last activity.
Refresh ==
  /\ timer
  /\ token # NoToken
  /\ timer' = FALSE
  /\ calls' = calls \cup {NewCall("refresh", token.who, token.n)}
  /\ UNCHANGED <<token, stored, issued, aged, active, mfa, steps, fails, out, blockAt, lost>>

\* Any other request of a page (request, with a token).
Request ==
  /\ Step
  /\ token # NoToken
  /\ calls' = calls \cup {NewCall("get", token.who, token.n)}
  /\ UNCHANGED <<token, stored, issued, aged, active, mfa, timer, fails, out, blockAt, lost>>

Quiet == \A c \in calls : c.kind \notin {"login", "mfa", "refresh"}

\* Mutant: the stored token is left where it is.
LogoutKeepsStored ==
  /\ Step
  /\ token # NoToken
  /\ token' = NoToken
  /\ timer' = FALSE
  /\ out' = Quiet
  /\ UNCHANGED <<stored, issued, aged, active, calls, mfa, fails, blockAt, lost>>

Logout ==
  /\ Step
  /\ token # NoToken
  /\ SetToken(NoToken, calls)
  /\ out' = Quiet
  /\ UNCHANGED <<issued, aged, active, mfa, fails, blockAt, lost>>

\* The page is loaded anew: readStoredTokenIfValid; the handlers of the calls
\* in flight are gone.
Reload ==
  /\ Step
  /\ LET t == IF Expired(stored) THEN NoToken ELSE stored IN
       /\ token' = t
       /\ stored' = t
       /\ calls' = IF t = NoToken THEN {} ELSE {NewCall("me", t.who, t.n)}
  /\ mfa' = NoMfa
  /\ timer' = FALSE
  /\ UNCHANGED <<issued, aged, active, fails, out, blockAt, lost>>

\* Mutant: the ticker only moves the clock.
TickClock ==
  /\ token # NoToken
  /\ Expired(token)
  /\ UNCHANGED sessionVars

\* The ticker of one second: an expired token ends the session (onInvalid).
Tick ==
  /\ token # NoToken
  /\ Expired(token)
  /\ SetToken(NoToken, calls)
  /\ UNCHANGED <<issued, aged, active, mfa, steps, fails, out, blockAt, lost>>

-----------------------------------------------------------------------------
(* The panel.                                                              *)

Issue(a) == [who |-> a, n |-> issued + 1]

Answered(c, res, new) == calls' = (calls \ {c}) \cup {[c EXCEPT !.res = res, !.new = new]}

\* Login and the second factor look at isActive; the code may be wrong.
ServeLogin(c) ==
  /\ c.kind \in {"login", "mfa"}
  /\ c.res = "none"
  /\ \/ Answered(c, "refused", 0) /\ UNCHANGED issued
     \/ /\ c.kind = "login" /\ c.who \in active \cap MfaAdmins
        /\ Answered(c, "mfa", 0)
        /\ UNCHANGED issued
     \/ /\ c.who \in active
        /\ c.kind = "mfa" \/ c.who \notin MfaAdmins
        /\ issued < MaxTokens
        /\ issued' = issued + 1
        /\ Answered(c, "token", issued + 1)
  /\ UNCHANGED <<token, stored, aged, active, mfa, timer, steps, fails, out, blockAt, lost>>

\* RequireAuth, then the handler: /auth/refresh issues a token to whoever
\* holds a valid one; /admins/me wants the administrator to be active.
ServeCall(c) ==
  /\ c.kind \in {"refresh", "me", "get"}
  /\ c.res = "none"
  /\ \/ /\ c.n <= aged \/ (c.kind = "me" /\ c.who \notin active)
        /\ Answered(c, "401", 0)
        /\ UNCHANGED issued
     \/ /\ c.n > aged
        /\ c.kind = "get" \/ (c.kind = "me" /\ c.who \in active)
        /\ Answered(c, "ok", 0)
        /\ UNCHANGED issued
     \/ /\ c.n > aged
        /\ c.kind = "refresh"
        /\ issued < MaxTokens
        /\ issued' = issued + 1
        /\ Answered(c, "token", issued + 1)
  /\ UNCHANGED <<token, stored, aged, active, mfa, timer, steps, fails, out, blockAt, lost>>

\* Time passes: the oldest token expires.
Age ==
  /\ aged < issued
  /\ aged' = aged + 1
  /\ UNCHANGED <<token, stored, issued, active, calls, mfa, timer, steps, fails, out, blockAt, lost>>

\* Another administrator blocks a, or lets a in again.
Block(a) ==
  /\ Step
  /\ active' = IF a \in active THEN active \ {a} ELSE active \cup {a}
  /\ blockAt' = [blockAt EXCEPT ![a] = issued]
  /\ UNCHANGED <<token, stored, issued, aged, calls, mfa, timer, fails, out, lost>>

-----------------------------------------------------------------------------
(* The answers.                                                            *)

\* 401 to a call with a token: the event SESSION_INVALID ends the session,
\* whatever token it has by then.
Unauthorized(c) ==
  /\ c.res = "401"
  /\ SetToken(NoToken, calls \ {c})
  /\ UNCHANGED <<issued, aged, active, mfa, steps, fails, out, blockAt, lost>>

\* refreshSession takes the new token, whatever happened since.
Refreshed(c) ==
  /\ c.kind = "refresh" /\ c.res = "token"
  /\ SetToken([who |-> c.who, n |-> c.new], calls \ {c})
  /\ lost' = FALSE
  /\ UNCHANGED <<issued, aged, active, mfa, steps, fails, out, blockAt>>

LoggedIn(c) ==
  /\ c.kind \in {"login", "mfa"} /\ c.res = "token"
  /\ SetToken([who |-> c.who, n |-> c.new], calls \ {c})
  /\ mfa' = IF c.kind = "mfa" THEN NoMfa ELSE mfa
  /\ lost' = FALSE
  /\ UNCHANGED <<issued, aged, active, steps, fails, out, blockAt>>

MfaAsked(c) ==
  /\ c.res = "mfa"
  /\ mfa' = [mfa EXCEPT !.who = c.who]
  /\ calls' = calls \ {c}
  /\ UNCHANGED <<token, stored, issued, aged, active, timer, steps, fails, out, blockAt, lost>>

\* An answer that changes nothing, or the refusal of a login.
Settled(c) ==
  /\ c.res \in {"ok", "refused"}
  /\ mfa' = IF c.kind = "mfa" THEN [mfa EXCEPT !.busy = FALSE] ELSE mfa
  /\ calls' = calls \ {c}
  /\ UNCHANGED <<token, stored, issued, aged, active, timer, steps, fails, out, blockAt, lost>>

\* The network fails; a refresh that fails does not end the session.
CallFails(c) ==
  /\ fails < MaxFails
  /\ fails' = fails + 1
  /\ mfa' = IF c.kind = "mfa" THEN [mfa EXCEPT !.busy = FALSE] ELSE mfa
  /\ calls' = calls \ {c}
  /\ lost' = (lost \/ c.kind = "me")
  /\ UNCHANGED <<token, stored, issued, aged, active, timer, steps, out, blockAt>>

\* What becomes of a call, where the page stays and where it does not.
LeadsHome(c) == Unauthorized(c) \/ LoggedIn(c)
Stays(c) ==
  ServeLogin(c) \/ ServeCall(c) \/ Refreshed(c) \/ MfaAsked(c) \/ Settled(c)

\* Steps that lead to the first page: the end of a session, and a login.
GoesHome ==
  \/ Logout
  \/ Tick
  \/ \E c \in calls : LeadsHome(c)

\* Of the steps that leave the page where it is: those of a new login
\* without a second factor, and the others.
ComesBack ==
  \/ \E a \in Admins \ MfaAdmins : Login(a)
  \/ Age
  \/ \E c \in calls : ServeLogin(c) \/ ServeCall(c) \/ Settled(c)

Otherwise ==
  \/ \E a \in MfaAdmins : Login(a)
  \/ \E a \in Admins : Block(a)
  \/ SubmitMfa
  \/ CloseMfa
  \/ Activity
  \/ Refresh
  \/ Request
  \/ \E c \in calls : CallFails(c) \/ Refreshed(c) \/ MfaAsked(c)

StaysOnPage == ComesBack \/ Otherwise

SessionNext == GoesHome \/ StaysOnPage \/ Reload

SessionSpec == SessionInit(0) /\ [][SessionNext]_sessionVars

-----------------------------------------------------------------------------
(* Properties.                                                             *)

\* A session with an expired token does not last: the ticker ends it or a
\* refresh that was already answered replaces it.  (App.tsx:5184-5198.)
ExpiredEnds == Expired(token) ~> ~Expired(token)

\* A blocked administrator whose session goes on being refreshed is thrown
\* out without waiting for the expiry, although neither the middleware nor
\* the refresh looks at isActive: the new token makes the page read the own
\* profile, and that call does.  (App.tsx:3302-3309 with admins.go:40-46.)
BlockedNow == token # NoToken /\ token.who \notin active /\ token.n > blockAt[token.who] /\ ~lost
BlockedLeaves == BlockedNow ~> ~BlockedNow

\* After a logout with no login and no refresh in flight nothing but a new
\* login brings a session back, neither a late answer nor a reload of the
\* page.  (logout, App.tsx:6433-6452; readStoredTokenIfValid, 365-379.)
LogoutHolds == out => token = NoToken /\ stored = NoToken

\* The inductive invariant of LogoutHolds: types; an answer with a token has
\* one; after such a logout nothing is in flight that would bring one.
TokensNamed == \A c \in calls : c.res = "token" => c.new > 0
SessionInv ==
  /\ SessionTypeOK
  /\ TokensNamed
  /\ LogoutHolds
  /\ out => Quiet
=============================================================================
