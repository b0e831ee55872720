------------------------------ MODULE Session ------------------------------
(***************************************************************************)
(* Who is signed in at the storefront: the session provider and the forms  *)
(* under components/auth, and the route handlers under api/bff/auth and    *)
(* api/bff/me, in two tabs.                                                *)
(*                                                                         *)
(* identity-service and the storefront disagree about what a sign-in       *)
(* answers, so as the code stands nobody gets to be signed in: sign-out,   *)
(* which is offered to a signed-in user only, and what follows a profile   *)
(* are out of reach and have no action here.  Module Tokens has the other  *)
(* side, with clients that understand identity-service.                    *)
(***************************************************************************)
EXTENDS Bff

CONSTANTS
    MaxForms,          \* bound: forms submitted
    MaxSessionFaults   \* bound: exchanges and connections that fail

ASSUME SessionAssumption == MaxForms \in Nat /\ MaxSessionFaults \in Nat

VARIABLES
    cookie,      \* whether the browser holds souq_rt
    opened,      \* identity-service: sessions that sign-ins of these tabs opened
    tabs,        \* what each tab shows
    asked,       \* the requests of each tab: of the provider's mount, and of a form
    submitted,   \* how many forms were
    breaks       \* how many exchanges and connections failed

sessionVars == <<cookie, opened, tabs, asked, submitted, breaks>>

Tabs == {1, 2}
Slot == Tabs \X {"mount", "form"}
NoRequest == [pc |-> "none"]
Request(op) == [pc |-> "sent", op |-> op]
Reply(op, status, code) == [pc |-> "answered", op |-> op, status |-> status, code |-> code]

SessionInit ==
    /\ cookie = FALSE /\ opened = 0
    /\ tabs = [n \in Tabs |-> [open |-> FALSE, user |-> FALSE, form |-> "form"]]
    /\ asked = [s \in Slot |-> NoRequest]
    /\ submitted = 0 /\ breaks = 0

Submitting(tab) == asked[<<tab, "form">>] # NoRequest

-----------------------------------------------------------------------------
(* The tabs. *)

(* The provider mounts without a user and calls refresh(). *)
OpenTab(tab) ==
    /\ ~tabs[tab].open /\ \A n \in 1 .. tab - 1 : tabs[n].open
    /\ tabs' = [tabs EXCEPT ![tab].open = TRUE]
    /\ asked' = [asked EXCEPT ![<<tab, "mount">>] = Request("profile")]
    /\ UNCHANGED <<cookie, opened, submitted, breaks>>

(* onSubmit of a form: the button is disabled while it waits. *)
SubmitForm(tab, op) ==
    /\ tabs[tab].open /\ ~Submitting(tab)
    /\ asked' = [asked EXCEPT ![<<tab, "form">>] = Request(op)]
    /\ submitted < MaxForms /\ submitted' = submitted + 1
    /\ UNCHANGED <<cookie, opened, tabs, breaks>>

Login(tab) == SubmitForm(tab, "login")
ChangePassword(tab) == SubmitForm(tab, "password")

-----------------------------------------------------------------------------
(* The route handlers and identity-service. *)

Awaits(s, ops) == asked[s].pc = "sent" /\ asked[s].op \in ops
Answer(s, status, code) ==
    asked' = [asked EXCEPT ![s] = Reply(asked[s].op, ProblemStatus(status), code)]

(* /api/bff/me and what is under it need an access token.  The cookie is scoped to
   /api/bff/auth and does not reach them. *)
CookieReaches(op) == cookie /\ op = "login"
WithoutToken(s) ==
    /\ Awaits(s, {"profile", "password"})
    /\ Answer(s, TokenStatus(CookieReaches(asked[s].op), 200), "UNAUTHENTICATED")
    /\ UNCHANGED <<cookie, opened, tabs, submitted, breaks>>

(* The body of a sign-in or a refresh, and what the storefront's schemas accept.
   The refresh token is in identity-service's own cookie, which no call of the
   storefront's server keeps. *)
TokenResponse == {"accessToken", "tokenType", "expiresIn", "userId", "roles"}
LoginResponse == {"tokens", "user"}

(* POST /v1/auth/login: issue() opens a session; or the credentials are not those
   of an account, or a second factor is wanted. *)
Authenticate(s) ==
    /\ Awaits(s, {"login"})
    /\ \/ /\ opened' = opened + 1
          /\ Answer(s, IF Strict(TokenResponse, LoginResponse, {}) THEN 200 ELSE Garbled,
                    CodeOf(Garbled))
       \/ /\ \E code \in {"UNAUTHENTICATED", "MFA_REQUIRED"} : Answer(s, 401, code)
          /\ UNCHANGED opened
    /\ UNCHANGED <<cookie, tabs, submitted, breaks>>

(* The exchange of a sign-in with identity-service fails, before or after it did
   something (not retried: a POST without a key), or the browser's connection. *)
LoginFails(s) ==
    /\ Awaits(s, {"login"})
    /\ breaks < MaxSessionFaults /\ breaks' = breaks + 1
    /\ opened' \in {opened, opened + 1}
    /\ \E status \in Once({}) : Answer(s, status, CodeOf(status))
    /\ UNCHANGED <<cookie, tabs, submitted>>

ConnectionBreaks(s) ==
    /\ asked[s].pc = "answered"
    /\ breaks < MaxSessionFaults /\ breaks' = breaks + 1
    /\ Answer(s, Unreachable, CodeOf(Unreachable))
    /\ UNCHANGED <<cookie, opened, tabs, submitted>>

-----------------------------------------------------------------------------
(* The answers. *)

Arrives(s, op) == asked[s].pc = "answered" /\ asked[s].op = op
Free(s) == [asked EXCEPT ![s] = NoRequest]

(* refresh(): any error is a signed-out visitor. *)
ProfileArrives(s) ==
    /\ Arrives(s, "profile")
    /\ tabs' = [tabs EXCEPT ![s[1]].user = Succeeds(asked[s].status)]
    /\ asked' = Free(s)
    /\ UNCHANGED <<cookie, opened, submitted, breaks>>

(* The login form: the cookie comes with the answer and the profile is awaited;
   MFA_REQUIRED opens the field for the code, anything else is an error. *)
LoginArrives(s) ==
    /\ Arrives(s, "login")
    /\ cookie' = (cookie \/ Succeeds(asked[s].status))
    /\ tabs' = [tabs EXCEPT ![s[1]].form = IF asked[s].code = "MFA_REQUIRED" THEN "mfa" ELSE @]
    /\ asked' = IF Succeeds(asked[s].status) THEN [asked EXCEPT ![s] = Request("profile")]
                                             ELSE Free(s)
    /\ UNCHANGED <<opened, submitted, breaks>>

(* The form that changes the password: done, or the error is shown. *)
PasswordArrives(s) ==
    /\ Arrives(s, "password")
    /\ tabs' = [tabs EXCEPT ![s[1]].form = IF Succeeds(asked[s].status) THEN "done" ELSE @]
    /\ asked' = Free(s)
    /\ UNCHANGED <<cookie, opened, submitted, breaks>>

-----------------------------------------------------------------------------
SessionServe(s) ==
    \/ WithoutToken(s) \/ Authenticate(s)
    \/ ProfileArrives(s) \/ LoginArrives(s) \/ PasswordArrives(s)

SessionNext ==
    \/ \E tab \in Tabs : OpenTab(tab) \/ Login(tab) \/ ChangePassword(tab)
    \/ \E s \in Slot : SessionServe(s) \/ LoginFails(s) \/ ConnectionBreaks(s)

(* Handlers run on and a call to a service ends at its timeout. *)
SessionSpec == SessionInit /\ [][SessionNext]_sessionVars /\ WF_sessionVars(\E s \in Slot : SessionServe(s))
=============================================================================
