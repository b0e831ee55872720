------------------------------ MODULE Account ------------------------------
(***************************************************************************)
(* Turning on the second factor: the enrolment page (mfa-enrolment.tsx),   *)
(* the route handlers under api/bff/me/mfa and MfaService of               *)
(* identity-service.  Two tabs may be at the page.  A secret is known by   *)
(* the request that began it, a set of recovery codes by the request that  *)
(* issued it; the statements of a transaction are steps of their own, as   *)
(* they are under READ COMMITTED.  Session models the token exchange that  *)
(* precedes each request, here it succeeds or not.                         *)
(***************************************************************************)
EXTENDS Bff, FiniteSets

CONSTANTS
    MaxRequests,       \* bound: requests of the enrolment page
    MaxAccountFaults   \* bound: requests that fail or whose answer is lost

ASSUME AccountAssumption == MaxRequests \in Nat /\ MaxAccountFaults \in Nat

VARIABLES
    factor,     \* identity-service: mfa_enabled, mfa_secret, mfa_pending_secret, recovery codes
    pages,      \* the enrolment page of each tab
    exchanges,  \* its requests
    verified,   \* history: secrets whose code was checked
    kept,       \* history: recovery codes that were acknowledged, or lost on the way
    disabling,  \* whether a disable() has read and not yet written
    crossed,    \* history: two transactions on the factor overlapped
    failures

accountVars == <<factor, pages, exchanges, verified, kept, disabling, crossed, failures>>

Pages == {1, 2}
Numbers == 1 .. MaxRequests
NoExchange == [pc |-> "none"]
Finished == [pc |-> "over"]
FactorOff == [on |-> FALSE, secret |-> 0, pending |-> 0, codes |-> 0]
EnrolmentPage == [user |-> "off", secret |-> 0, codes |-> 0, acknowledged |-> FALSE, busy |-> 0]

AccountInit ==
    /\ factor = FactorOff
    /\ pages = [p \in Pages |-> EnrolmentPage]
    /\ exchanges = [r \in Numbers |-> NoExchange]
    /\ verified = {} /\ kept = {} /\ disabling = FALSE /\ crossed = FALSE /\ failures = 0

Used == {r \in Numbers : exchanges[r].pc # "none"}
Failure == failures < MaxAccountFaults /\ failures' = failures + 1

-----------------------------------------------------------------------------
(* The page: which of its panels is shown, in the order of its returns. *)
Panel(p) ==
    IF pages[p].user = "none" THEN "signed out"
    ELSE IF pages[p].user = "on" /\ pages[p].codes = 0 THEN "on"
    ELSE IF pages[p].codes > 0 THEN "codes"
    ELSE IF pages[p].secret = 0 THEN "start" ELSE "confirm"

(* busy *)
EnrolmentBusy(p) == pages[p].busy > 0

Send(p, op, code) ==
    /\ ~EnrolmentBusy(p) /\ Cardinality(Used) < MaxRequests
    /\ LET r == Cardinality(Used) + 1
       IN  /\ pages' = [pages EXCEPT ![p].busy = r]
           /\ exchanges' = [exchanges EXCEPT ![r] =
                 [pc |-> "sent", op |-> op, page |-> p, code |-> code, ok |-> FALSE]]
    /\ UNCHANGED <<factor, verified, kept, disabling, crossed, failures>>

(* start() *)
SetUp(p) == Panel(p) = "start" /\ Send(p, "begin", 0)

(* confirm(): the six digits of the secret on display, or mistyped ones. *)
TurnOn(p) == Panel(p) = "confirm" /\ \E code \in {0, pages[p].secret} : Send(p, "confirm", code)

(* The button next to it, which is not disabled while the page waits. *)
CancelEnrolment(p) ==
    /\ Panel(p) = "confirm"
    /\ pages' = [pages EXCEPT ![p].secret = 0]
    /\ UNCHANGED <<factor, exchanges, verified, kept, disabling, crossed, failures>>

Acknowledge(p) ==
    /\ Panel(p) = "codes" /\ ~pages[p].acknowledged
    /\ pages' = [pages EXCEPT ![p].acknowledged = TRUE]
    /\ UNCHANGED <<factor, exchanges, verified, kept, disabling, crossed, failures>>

(* Mutant: the codes can be put away at any time. *)
Dismissable(p) == TRUE

(* Done is disabled until the box is ticked; nothing unticks it again. *)
MayFinish(p) == pages[p].acknowledged

(* refresh(): the account as the page knows it once its profile was read. *)
ReadProfile(status) ==
    IF ~Succeeds(status) THEN "none" ELSE IF factor.on THEN "on" ELSE "off"

(* Done: the codes are gone for good and the profile is read again. *)
FinishEnrolment(p) ==
    /\ Panel(p) = "codes" /\ MayFinish(p)
    /\ \E status \in Once({200, 401}) :
         pages' = [pages EXCEPT ![p].codes = 0, ![p].user = ReadProfile(status)]
    /\ kept' = IF pages[p].acknowledged THEN kept \union {pages[p].codes} ELSE kept
    /\ UNCHANGED <<factor, exchanges, verified, disabling, crossed, failures>>

-----------------------------------------------------------------------------
(* MfaService behind the route handlers. *)

EndExchange(r, status, result) ==
    exchanges' = [exchanges EXCEPT ![r].pc = "answered",
                                   ![r].ok = Succeeds(ProblemStatus(status)), ![r].code = result]

(* A transaction that read before another one wrote. *)
Open(r) == exchanges[r].pc \in {"begin", "promote"}
Crosses(r) == crossed' = (crossed \/ disabling \/ \E o \in Numbers \ {r} : Open(o))

(* begin(): the account must not have a second factor yet. *)
BeginRead(r) ==
    /\ exchanges[r].pc = "sent" /\ exchanges[r].op = "begin"
    /\ IF factor.on THEN EndExchange(r, 409, 0)
       ELSE exchanges' = [exchanges EXCEPT ![r].pc = "begin"]
    /\ UNCHANGED <<factor, pages, verified, kept, disabling, crossed, failures>>

(* The update of begin(): the secret is pending, in place of an earlier one. *)
StoredAsPending(r) == [factor EXCEPT !.pending = r]

BeginWrite(r) ==
    /\ exchanges[r].pc = "begin"
    /\ factor' = StoredAsPending(r)
    /\ EndExchange(r, 200, r)
    /\ Crosses(r)
    /\ UNCHANGED <<pages, verified, kept, disabling, failures>>

(* confirm(): there is a pending secret and the code is one of it. *)
ConfirmRead(r) ==
    /\ exchanges[r].pc = "sent" /\ exchanges[r].op = "confirm"
    /\ \/ /\ factor.pending > 0 /\ exchanges[r].code = factor.pending
          /\ exchanges' = [exchanges EXCEPT ![r].pc = "promote"]
          /\ verified' = verified \union {factor.pending}
       \/ /\ factor.pending = 0
          /\ EndExchange(r, 409, 0) /\ UNCHANGED verified
       \/ /\ factor.pending > 0 /\ exchanges[r].code # factor.pending
          /\ EndExchange(r, 422, 0) /\ UNCHANGED verified
    /\ UNCHANGED <<factor, pages, kept, disabling, crossed, failures>>

(* The update of confirm() and issueRecoveryCodes: whatever is pending by now
   becomes the secret, and the codes of an earlier enrolment are void. *)
ConfirmWrite(r) ==
    /\ exchanges[r].pc = "promote"
    /\ factor' = [on |-> TRUE, secret |-> factor.pending, pending |-> 0, codes |-> r]
    /\ EndExchange(r, 200, r)
    /\ Crosses(r)
    /\ UNCHANGED <<pages, verified, kept, disabling, failures>>

(* clearExpiredPending: half an hour later no request is under way.  confirm()
   clears an expired secret too and then throws, which rolls that back. *)
ClearExpiredPending ==
    /\ factor.pending > 0 /\ \A r \in Numbers : exchanges[r].pc \in {"none", "answered", "over"}
    /\ factor' = [factor EXCEPT !.pending = 0]
    /\ UNCHANGED <<pages, exchanges, verified, kept, disabling, crossed, failures>>

(* disable(), with a code of the secret or a recovery code: no page of the
   storefront calls the route handler for it, other clients may, several at once.
   That it also ends every session is RevokeAllForUser of module Tokens. *)
DisableRead ==
    /\ factor.on /\ factor.secret > 0 /\ ~disabling
    /\ disabling' = TRUE
    /\ UNCHANGED <<factor, pages, exchanges, verified, kept, crossed, failures>>

DisableFactor ==
    /\ disabling /\ disabling' \in BOOLEAN
    /\ factor' = FactorOff
    /\ crossed' = (crossed \/ \E o \in Numbers : Open(o))
    /\ UNCHANGED <<pages, exchanges, verified, kept, failures>>

(* No token, or no answer of identity-service: before it began, or after it was
   done.  Not retried: no key. *)
ExchangeFails(r) ==
    /\ \/ exchanges[r].pc = "sent"
       \/ exchanges[r].pc = "answered" /\ exchanges[r].ok
    /\ Failure
    /\ \E status \in Once({401}) : EndExchange(r, status, 0)
    /\ kept' = kept \union {exchanges[r].code}
    /\ UNCHANGED <<factor, pages, verified, disabling, crossed>>

-----------------------------------------------------------------------------
(* The answer reaches start() or confirm(), also after a Cancel. *)
EnrolmentAnswered(r) ==
    LET p == exchanges[r].page
    IN  /\ exchanges[r].pc = "answered" /\ pages[p].busy = r
        /\ pages' = [pages EXCEPT
              ![p].busy = 0,
              ![p].secret = IF exchanges[r].ok /\ exchanges[r].op = "begin"
                            THEN exchanges[r].code ELSE pages[p].secret,
              ![p].codes = IF exchanges[r].ok /\ exchanges[r].op = "confirm"
                           THEN exchanges[r].code ELSE pages[p].codes]
        /\ exchanges' = [exchanges EXCEPT ![r] = Finished]
        /\ UNCHANGED <<factor, verified, kept, disabling, crossed, failures>>

(* The connection breaks with the request under way, and the button is back. *)
EnrolmentConnectionLost(p) ==
    /\ EnrolmentBusy(p) /\ Failure
    /\ kept' = kept \union {pages[p].busy}
    /\ pages' = [pages EXCEPT ![p].busy = 0]
    /\ UNCHANGED <<factor, exchanges, verified, disabling, crossed>>

(* The tab is closed or loaded anew, with what it showed. *)
ReopenPage(p) ==
    /\ pages[p] # EnrolmentPage
    /\ kept' = kept \union {pages[p].codes, pages[p].busy}
    /\ \E status \in {200, 401} :
         pages' = [pages EXCEPT ![p] = [EnrolmentPage EXCEPT !.user = ReadProfile(status)]]
    /\ UNCHANGED <<factor, exchanges, verified, disabling, crossed, failures>>

-----------------------------------------------------------------------------
AccountServe(r) ==
    BeginRead(r) \/ BeginWrite(r) \/ ConfirmRead(r) \/ ConfirmWrite(r) \/ EnrolmentAnswered(r)

AccountNext ==
    \/ \E p \in Pages : \/ SetUp(p) \/ TurnOn(p) \/ CancelEnrolment(p) \/ Acknowledge(p)
                        \/ FinishEnrolment(p) \/ EnrolmentConnectionLost(p) \/ ReopenPage(p)
    \/ \E r \in Numbers : AccountServe(r) \/ ExchangeFails(r)
    \/ ClearExpiredPending \/ DisableRead \/ DisableFactor

(* Handlers run on and a call to a service ends at its timeout. *)
AccountSpec ==
    /\ AccountInit /\ [][AccountNext]_accountVars
    /\ WF_accountVars(\E r \in Numbers : AccountServe(r))

-----------------------------------------------------------------------------
(* Recovery codes the customer still may get to see. *)
Shown == {pages[p].codes : p \in Pages}
OnTheirWay == {pages[p].busy : p \in Pages}

(* "The secret is not active until a code is verified" and "the flow will not
   finish until [the codes] are acknowledged": a second factor is on only with a
   secret of which a code was checked, and its recovery codes are on display, on
   their way, acknowledged, or were lost with a connection or a tab.  The exception
   is two transactions that overlap: confirm() promotes what is pending
   when it writes, which need not be what it read. *)
SecondFactorIsHeld ==
    factor.on /\ ~crossed =>
        /\ factor.secret \in verified
        /\ factor.codes \in kept \union Shown \union OnTheirWay
=============================================================================
