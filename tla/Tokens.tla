------------------------------- MODULE Tokens -------------------------------
(***************************************************************************)
(* The refresh tokens of identity-service (TokenService and its            *)
(* repository), for the sessions of one user.  The clients are those the   *)
(* service is written for: a browser that holds its cookie, or an app that *)
(* sends the token in the body.  (The storefront and the admin panel       *)
(* cannot read what it answers: module Session.)                           *)
(*                                                                         *)
(* refresh() reads the token's row without a lock and later updates it:    *)
(* the read is a step, and the update with the successor's insert is       *)
(* another.  A revocation that waits for the updated row does not see the  *)
(* successor, which is what it comes to when it commits first.  A handler  *)
(* that throws rolls back and changes no row; a token past its thirty days *)
(* is refused like a revoked one.                                          *)
(***************************************************************************)
EXTENDS Naturals, FiniteSets

CONSTANTS
    TokenIds,  \* tokens that can be minted
    Sessions,  \* sign-ins
    Clients    \* requests for a refresh that may be under way at once

ASSUME TokensAssumption == IsFiniteSet(TokenIds)

VARIABLES
    state,     \* refresh_tokens: the state of each row
    session,   \* refresh_tokens: the session it belongs to, "none" before it is minted
    usable,    \* users.enabled
    reading,   \* the row each refresh under way has read, as a set
    over,      \* history: sessions that were ended
    lost,      \* history: how many exchanges of a session found their token gone when they wrote
    reused     \* history: sessions whose client was told REFRESH_TOKEN_REUSED

tokenVars == <<state, session, usable, reading, over, lost, reused>>

Issued == {session[t] : t \in {u \in TokenIds : state[u] # "none"}}
Live(s) == {t \in TokenIds : state[t] = "ACTIVE" /\ session[t] = s}

TokensInit ==
    /\ state = [t \in TokenIds |-> "none"]
    /\ session = [t \in TokenIds |-> "none"]
    /\ usable = TRUE
    /\ reading = [c \in Clients |-> {}]
    /\ over = {} /\ reused = {}
    /\ lost = [s \in Sessions |-> 0]
-----------------------------------------------------------------------------
\* The token that is minted next: a random value, so it does not matter which.
Unminted == {n \in TokenIds : state[n] = "none" /\ n = CHOOSE t \in TokenIds : state[t] = "none"}

\* mintRefreshToken: a new row of session s, given the others.
MintRefreshToken(rows, n, s) ==
    /\ n \in Unminted
    /\ state' = [rows EXCEPT ![n] = "ACTIVE"]
    /\ session' = [session EXCEPT ![n] = s]

\* issue(), at a sign-in.
IssueToken(s, n) ==
    /\ usable /\ s \notin Issued
    /\ MintRefreshToken(state, n, s)
    /\ UNCHANGED <<usable, reading, over, lost, reused>>

\* refresh() reads the row of an active token.
RefreshRead(c, t) ==
    /\ reading[c] = {} /\ state[t] = "ACTIVE"
    /\ reading' = [reading EXCEPT ![c] = {t}]
    /\ UNCHANGED <<state, session, usable, over, lost, reused>>

\* ... or of one that was used: the family is revoked, and the exception rolls
\* that back.
RefreshReused(t) ==
    /\ state[t] = "USED"
    /\ reused' = reused \cup {session[t]}
    /\ UNCHANGED <<state, session, usable, reading, over, lost>>

\* Mutant: the token is left as it was.
LeaveToken(t) == state

\* markUsed: an update of a row that is still active, whose count nobody reads.
MarkUsed(t) == [state EXCEPT ![t] = IF state[t] = "ACTIVE" THEN "USED" ELSE state[t]]

\* The rest of refresh(): the token is marked and its successor inserted.
RefreshWrite(c, t, n) ==
    /\ t \in reading[c] /\ usable
    /\ MintRefreshToken(MarkUsed(t), n, session[t])
    /\ lost' = IF state[t] = "ACTIVE" THEN lost ELSE [lost EXCEPT ![session[t]] = lost[session[t]] + 1]
    /\ reading' = [reading EXCEPT ![c] = {}]
    /\ UNCHANGED <<usable, over, reused>>

\* ... unless the account was disabled, whose revocation is rolled back too.
RefreshDisabled(c) ==
    /\ reading[c] # {} /\ ~usable
    /\ reading' = [reading EXCEPT ![c] = {}]
    /\ UNCHANGED <<state, session, usable, over, lost, reused>>

\* What is left of the rows when those of some sessions are revoked.
Revoked(sessions, states) ==
    [t \in TokenIds |-> IF session[t] \in sessions /\ state[t] \in states THEN "REVOKED" ELSE state[t]]
End(sessions, states) ==
    /\ state' = Revoked(sessions, states)
    /\ over' = over \cup sessions
    /\ UNCHANGED <<session, usable, reading, lost, reused>>

\* logout with the cookie: revokeFamily.
RevokeByToken(t) == state[t] # "none" /\ End({session[t]}, {"ACTIVE", "USED"})

\* completePasswordReset and disable() of the second factor.
RevokeAllForUser == Issued # {} /\ End(Issued, {"ACTIVE", "USED"})

\* changePassword keeps the session it comes from.
ChangePasswordOf(s) == s \in Issued /\ End(Issued \ {s}, {"ACTIVE"})

\* Support disables the account, or enables it again.
SetEnabled ==
    /\ usable' = ~usable
    /\ UNCHANGED <<state, session, reading, over, lost, reused>>
-----------------------------------------------------------------------------
TokensNext ==
    \/ \E s \in Sessions, n \in TokenIds : IssueToken(s, n)
    \/ \E c \in Clients, t \in TokenIds : RefreshRead(c, t)
    \/ \E t \in TokenIds : RefreshReused(t)
    \/ \E c \in Clients, t \in TokenIds, n \in TokenIds : RefreshWrite(c, t, n)
    \/ \E c \in Clients : RefreshDisabled(c)
    \/ \E t \in TokenIds : RevokeByToken(t)
    \/ RevokeAllForUser
    \/ \E s \in Sessions : ChangePasswordOf(s)
    \/ SetEnabled

TokensSpec == TokensInit /\ [][TokensNext]_tokenVars
-----------------------------------------------------------------------------
\* A session has one live token, and none once it was ended by a logout, a change
\* or reset of the password or the loss of the second factor, but for one more for
\* each exchange that read its token before another exchange or the end got to it
\* (markUsed, whose count is not read): the races cost what they cost, and nothing
\* else does.
LiveTokensAreAccounted ==
    \A s \in Sessions :
        Cardinality(Live(s)) <= (IF s \in over THEN 0 ELSE 1) + lost[s]
=============================================================================
