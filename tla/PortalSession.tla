---------------------------- MODULE PortalSession ----------------------------
(***************************************************************************)
(* How an account comes to work in an organization: it applies, a platform *)
(* administrator decides, and the portal opens a session once the sign-in  *)
(* is done and the server has named a membership.  One browser tab, in     *)
(* which people sign in and out, reload, and in which look-ups and pop-ups *)
(* end whenever they end.                                                  *)
(*                                                                         *)
(* The decision and the application are single steps: each holds its lock  *)
(* (advisory, or on the application's row) until it commits.               *)
(*                                                                         *)
(* Source: src/packages/browser-auth/src/index.js, src/apps/portal-web/src *)
(* (portal-app.jsx, hooks/use-membership.js), src/apps/api/src/app.ts and  *)
(* src/infra/postgres/migrations/0001_baseline.sql                         *)
(***************************************************************************)
EXTENDS Naturals, FiniteSets

CONSTANTS Accounts, Organizations, Nil

ASSUME NilAssumption == Nil \notin Accounts \union Organizations

VARIABLES
    application,    \* app.landlord_onboarding_applications, by applicant
    member,         \* the active rows of app.memberships
    granted,        \* every membership there ever was
    auth,           \* the snapshot of browser-auth: status and account
    active,         \* the account the sign-in library acts for
    popup,          \* the one interaction it has open
    lookup,         \* the membership look-up and the last one given up
    membership,     \* the first membership the look-up named
    session,        \* the portal's session
    out             \* nobody signed in since the last sign-out

sessionVars == <<application, member, granted, auth, active, popup, lookup, membership, session, out>>
enrolment == <<application, member, granted>>

\* The roles that have a workspace, and one that has none.
Roles == {"landlord", "auditor"}
Membership == [account : Accounts, organization : Organizations, role : Roles]

Popup == [kind : {"login", "logout"}, account : Accounts \union {Nil}]
Lookup == [account : Accounts, stage : {"sent", "answered"}, first : Membership \union {Nil}]
Session == [account : Accounts, organization : Organizations]

SessionTypeOK ==
    /\ application \in [Accounts -> {"none", "pending", "approved", "rejected"}]
    /\ member \in SUBSET Membership /\ granted \in SUBSET Membership
    /\ auth \in [status : {"loading", "signed-in", "signed-out", "authenticating", "error"},
                 account : Accounts \union {Nil}]
    /\ auth.status = "signed-in" <=> auth.account # Nil
    /\ active \in Accounts \union {Nil}
    /\ popup \in Popup \union {Nil}
    /\ lookup \in [now : Lookup \union {Nil}, past : Lookup \union {Nil}]
    /\ membership \in Membership \union {Nil}
    /\ session \in Session \union {Nil}
    /\ out \in BOOLEAN

NoLookup == [now |-> Nil, past |-> Nil]

SessionInit ==
    /\ application = [a \in Accounts |-> "none"]
    /\ member = {} /\ granted = {}
    /\ auth = [status |-> "loading", account |-> Nil]
    /\ active = Nil /\ popup = Nil
    /\ lookup = NoLookup
    /\ membership = Nil /\ session = Nil
    /\ out = TRUE

-----------------------------------------------------------------------------
(* Applying and deciding *)

\* One application for every applicant, ever.
Submit(a) ==
    /\ application[a] = "none"
    /\ application' = [application EXCEPT ![a] = "pending"]
    /\ UNCHANGED <<member, granted, auth, active, popup, lookup, membership, session, out>>

Enrol(m) ==
    /\ member' = member \union {m}
    /\ granted' = granted \union {m}

\* An approval founds an organization and makes the applicant its landlord.
Decide(a, outcome) ==
    /\ application[a] = "pending"
    /\ application' = [application EXCEPT ![a] = outcome]
    /\ IF outcome = "approved"
       THEN \E o \in Organizations :
                /\ \A m \in granted : m.organization # o
                /\ Enrol([account |-> a, organization |-> o, role |-> "landlord"])
       ELSE UNCHANGED <<member, granted>>
    /\ UNCHANGED <<auth, active, popup, lookup, membership, session, out>>

\* Memberships that come and go by other ways.
Administer(a, o) ==
    /\ \E m \in granted : m.organization = o
    /\ \/ Enrol([account |-> a, organization |-> o, role |-> "auditor"])
       \/ /\ member' = {m \in member : m.account # a \/ m.organization # o}
          /\ UNCHANGED granted
    /\ UNCHANGED <<application, auth, active, popup, lookup, membership, session, out>>

-----------------------------------------------------------------------------
(* Looking memberships up *)

\* Mutant: a look-up that was given up is listened to all the same.
AnyLookup(slot) == TRUE

\* `active` in useMembership.
Current(slot) == slot = "now"

\* The effect on auth.status: whatever ran is given up; a sign-in looks up anew,
\* with a token of the account the library acts for.
LookUp(status, account) ==
    /\ membership' = Nil
    /\ lookup' = [now |-> IF status = "signed-in"
                          THEN [account |-> account, stage |-> "sent", first |-> Nil] ELSE Nil,
                  past |-> IF lookup.now = Nil THEN lookup.past ELSE lookup.now]

\* Mutant: a failed sign-in keeps the account in the snapshot.
PublishKeeping(status, account) ==
    /\ auth' = [status |-> status, account |-> IF account = Nil THEN auth.account ELSE account]
    /\ IF status = auth.status THEN UNCHANGED <<lookup, membership>> ELSE LookUp(status, account)

\* Publishing a snapshot, with the effect that listens to its status.
Publish(status, account) ==
    /\ auth' = [status |-> status, account |-> account]
    /\ IF status = auth.status THEN UNCHANGED <<lookup, membership>> ELSE LookUp(status, account)

\* lookupMemberships.
Memberships(a) == {m \in member : m.account = a}

\* resolve_actor_memberships: the rows come in no order, the portal takes the
\* first.
AnswerLookup(slot) ==
    LET l == lookup[slot]
        named == Memberships(l.account)
    IN  /\ l # Nil /\ l.stage = "sent"
        /\ \E first \in IF named = {} THEN {Nil} ELSE named :
              lookup' = [lookup EXCEPT ![slot] = [@ EXCEPT !.stage = "answered", !.first = first]]
        /\ UNCHANGED <<enrolment, auth, active, popup, membership, session, out>>

ReceiveLookup(slot) ==
    LET l == lookup[slot]
    IN  /\ l # Nil /\ l.stage = "answered"
        /\ lookup' = [lookup EXCEPT ![slot] = Nil]
        /\ membership' = IF Current(slot) THEN l.first ELSE membership
        /\ UNCHANGED <<enrolment, auth, active, popup, session, out>>

LookupFails(slot) ==
    /\ lookup[slot] # Nil
    /\ lookup' = [lookup EXCEPT ![slot] = Nil]
    /\ membership' = IF Current(slot) THEN Nil ELSE membership
    /\ UNCHANGED <<enrolment, auth, active, popup, session, out>>

\* The portal's effect; it takes the e-mail from the snapshot and the
\* organization from the look-up.
OpenSession ==
    /\ session = Nil /\ auth.status = "signed-in"
    /\ membership # Nil /\ membership.role = "landlord"
    /\ session' = [account |-> auth.account, organization |-> membership.organization]
    /\ UNCHANGED <<enrolment, auth, active, popup, lookup, membership, out>>

-----------------------------------------------------------------------------
(* Signing in and out *)

\* Loading the page: from the redirect or the browser's own sign-in cookie.
Initialize ==
    /\ auth.status = "loading"
    /\ \/ \E a \in Accounts : Publish("signed-in", a) /\ active' = a /\ out' = FALSE
       \/ Publish("signed-out", Nil) /\ UNCHANGED <<active, out>>
       \/ Publish("error", Nil) /\ UNCHANGED <<active, out>>
    /\ UNCHANGED <<enrolment, popup, session>>

\* browser-auth's signIn.  The library runs one interaction at a time.
Interact ==
    /\ IF popup = Nil
       THEN Publish("authenticating", Nil) /\ popup' = [kind |-> "login", account |-> Nil]
       ELSE Publish("error", Nil) /\ UNCHANGED popup
    /\ UNCHANGED <<enrolment, active, session, out>>

\* The button of LoginGate.
SignIn == session = Nil /\ auth.status = "signed-out" /\ Interact

\* A session whose token cannot be had silently may sign in again, also while
\* it still counts as signed in.
EnableLiveCommands == session # Nil /\ Interact

FinishSignIn(a) ==
    /\ popup # Nil /\ popup.kind = "login"
    /\ Publish("signed-in", a)
    /\ active' = a /\ popup' = Nil /\ out' = FALSE
    /\ UNCHANGED <<enrolment, session>>

SignInFails ==
    /\ popup # Nil /\ popup.kind = "login"
    /\ Publish("error", Nil)
    /\ popup' = Nil
    /\ UNCHANGED <<enrolment, active, session, out>>

\* The library refuses to open a second pop-up; the page is signed out anyway.
LeavingPopup == IF popup = Nil THEN [kind |-> "logout", account |-> active] ELSE popup

\* Mutant: the page hears of the sign-out only when the pop-up is done.
SignOutLate ==
    /\ popup' = LeavingPopup
    /\ session' = Nil /\ out' = TRUE
    /\ UNCHANGED <<enrolment, auth, lookup, membership, active>>

\* The snapshot is published before the pop-up is awaited.
SignOut ==
    /\ Publish("signed-out", Nil)
    /\ popup' = LeavingPopup
    /\ session' = Nil /\ out' = TRUE
    /\ UNCHANGED <<enrolment, active>>

Logout == session # Nil /\ SignOut

\* PendingWorkspaceAccess: signed in and without a workspace.
LeavePending == session = Nil /\ auth.status = "signed-in" /\ SignOut

\* It forgets the account, or it was closed and does not.
FinishSignOut ==
    /\ popup # Nil /\ popup.kind = "logout"
    /\ popup' = Nil
    /\ active' \in {active, IF active = popup.account THEN Nil ELSE active}
    /\ UNCHANGED <<enrolment, auth, lookup, membership, session, out>>

\* Memory storage: nothing survives but the browser's own cookie.
ReloadPage ==
    /\ auth.status # "loading"
    /\ auth' = [status |-> "loading", account |-> Nil]
    /\ active' = Nil /\ popup' = Nil /\ lookup' = NoLookup
    /\ membership' = Nil /\ session' = Nil /\ out' = TRUE
    /\ UNCHANGED enrolment

SessionNext ==
    \/ \E a \in Accounts :
          \/ Submit(a)
          \/ \E outcome \in {"approved", "rejected"} : Decide(a, outcome)
          \/ \E o \in Organizations : Administer(a, o)
          \/ FinishSignIn(a)
    \/ \E slot \in {"now", "past"} : AnswerLookup(slot) \/ ReceiveLookup(slot) \/ LookupFails(slot)
    \/ OpenSession
    \/ Initialize \/ SignIn \/ EnableLiveCommands \/ SignInFails
    \/ Logout \/ LeavePending \/ FinishSignOut \/ ReloadPage

SessionSpec == SessionInit /\ [][SessionNext]_sessionVars

-----------------------------------------------------------------------------
(* Properties *)

(***************************************************************************)
(* The organization of a session is one the account the session names has  *)
(* been a member of with a role that has a workspace, whoever else used    *)
(* the tab before (useMembership's and Portal's effects).                  *)
(***************************************************************************)
SessionIsEarned ==
    session # Nil =>
        \E m \in granted : /\ m.account = session.account
                           /\ m.organization = session.organization
                           /\ m.role = "landlord"

(***************************************************************************)
(* After a sign-out no session opens before somebody signs in again,       *)
(* although the pop-up may stay open and the look-up may have answered     *)
(* (logout and browser-auth's signOut).                                    *)
(***************************************************************************)
SignOutSticks == [][session = Nil /\ session' # Nil => ~out]_sessionVars

=============================================================================
