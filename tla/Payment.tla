------------------------------ MODULE Payment -------------------------------
(***************************************************************************)
(* payment-service: one payment (internal/service/service.go) driven by    *)
(* the saga's commands and by the provider's callbacks.                    *)
(*                                                                         *)
(* A command is claimed and the row moved in a first transaction, then the *)
(* provider is called with no transaction open, then a second transaction  *)
(* records the outcome.  Each of the three is a step; the row is locked    *)
(* within a transaction only, so callbacks and other handlers come in      *)
(* between.  The version UpdatePaymentState checks was read under that     *)
(* lock, so the check always succeeds and the version is not modelled.  A  *)
(* handler that returns an error rolls back and leaves its command         *)
(* unclaimed: it takes no step here.                                       *)
(*                                                                         *)
(* The provider is external.  A rail is the provider with the payment      *)
(* method: the mock, or a Paymob wallet, card (authorize only) or cash on  *)
(* delivery.  money is what the provider has done with the customer's.  An *)
(* order at Paymob may see several attempts by wallet or card, each of     *)
(* them a transaction with its own id; the order is locked once paid       *)
(* (lock_order_when_paid), so only the last one can succeed.               *)
(***************************************************************************)
EXTENDS Naturals, FiniteSets

CONSTANTS
    Workers,    \* consumer goroutines that hold, or still believe to hold, the partition
    Rails,      \* subset of {"mock", "wallet", "card", "cod"}
    MaxSends,   \* bound: how often one command is sent
    MaxFailures,\* bound: failed attempts of the customer at Paymob
    MaxFaults   \* bound: crashes

ASSUME PaymentAssumption ==
    /\ Rails \subseteq {"mock", "wallet", "card", "cod"}
    /\ MaxSends \in Nat /\ MaxFailures \in Nat /\ MaxFaults \in Nat

VARIABLES
    rail,       \* chosen at the start
    row,        \* payments.state, "NONE" when there is no row
    ref,        \* whether psp_authorization_id is set
    ledger,     \* balanced pairs in ledger_entries
    sent,       \* commands on the topic
    inbox,      \* processed_events of commands
    seen,       \* processed_events of callbacks: transaction and kind
    work,       \* what each worker is doing
    events,     \* types of the events in the outbox
    money,      \* provider: none, pending, held, taken, reversed, refunded, refused
    asked,      \* provider: calls of Authorize
    failures,   \* provider: attempts of the customer that failed
    callbacks,  \* callbacks the provider sends, and sends again
    faults

rowVars == <<row, ref, ledger, events>>
pspVars == <<money, asked, failures, callbacks>>
vars == <<rail, rowVars, sent, inbox, seen, work, pspVars, faults>>

Steps == {"AUTHORIZE", "CAPTURE", "VOID"}
RowStates == {"NONE", "AUTHORIZING", "AUTHORIZED", "CAPTURING", "CAPTURED", "VOIDED", "FAILED"}
Outcomes == {"approved", "declined", "pending", "unknown"}
Commands == [step : Steps, n : 1 .. MaxSends]
EventTypes == {"authorized", "failed", "captured", "voided"}
\* What a callback says; transaction 0 stands for those that are no attempt to pay.
Transactions == 0 .. MaxFailures + 1
Callbacks == [txn : Transactions, says : EventTypes \cup {"pending", "refunded"}]
Callback(t, says) == [txn |-> t, says |-> says]
NoWork == [stage |-> "idle"]
Work == {NoWork} \cup [stage : {"calling"}, step : Steps, ref : BOOLEAN]
        \cup [stage : {"called"}, step : Steps, outcome : Outcomes]

Init ==
    /\ rail \in Rails
    /\ row = "NONE" /\ ref = FALSE /\ ledger = 0
    /\ sent = {} /\ inbox = {} /\ seen = {} /\ events = {} /\ callbacks = {}
    /\ work = [w \in Workers |-> NoWork]
    /\ money = "none" /\ asked = 0 /\ failures = 0
    /\ faults = 0
-----------------------------------------------------------------------------
(* What the saga sends: Capture only for a payment it was told is           *)
(* authorized, and never both a Capture and a Void (NoRollbackPastCommit    *)
(* and NoCommitWhenCompensating of module OrderSaga).                       *)
Send(c) ==
    /\ c \notin sent
    /\ c.step = "CAPTURE" => "authorized" \in events /\ ~\E d \in sent : d.step = "VOID"
    /\ c.step = "VOID" => ~\E d \in sent : d.step = "CAPTURE"
    /\ sent' = sent \cup {c}
    /\ UNCHANGED <<rail, rowVars, inbox, seen, work, pspVars, faults>>

\* The first transaction of a handler: claim the command.
Claim(w, c, step) ==
    /\ work[w] = NoWork
    /\ c.step = step /\ c \notin inbox
    /\ inbox' = inbox \cup {c}
    /\ UNCHANGED <<rail, sent, seen, pspVars, faults>>

\* ... and go on to call the provider with the reference just read, or stop here.
Calling(w, step) ==
    work' = [work EXCEPT ![w] = [stage |-> "calling", step |-> step, ref |-> ref]]
Stop == UNCHANGED work

UpdatePaymentState(next) == row' = next
Emit(types) == events' = events \cup types

\* Mutant: the state itself is published.
RawEventFor(state) == {state}

\* emitForState: the event that matches a settled row.
EventFor(state) ==
    CASE state = "AUTHORIZED" -> {"authorized"}
      [] state = "CAPTURED" -> {"captured"}
      [] state = "FAILED" -> {"failed"}
      [] state = "VOIDED" -> {"voided"}
      [] OTHER -> {}

\* The answer of a provider call, kept until the second transaction.
Called(w, step, outcome) ==
    /\ work[w].stage = "calling" /\ work[w].step = step
    /\ work' = [work EXCEPT ![w] = [stage |-> "called", step |-> step, outcome |-> outcome]]
    /\ UNCHANGED <<rail, rowVars, sent, inbox, seen, faults>>

\* The second transaction, with the outcome of the call.
Outcome(w, step, outcomes) ==
    /\ work[w].stage = "called" /\ work[w].step = step /\ work[w].outcome \in outcomes
    /\ work' = [work EXCEPT ![w] = NoWork]
    /\ UNCHANGED <<rail, sent, inbox, seen, pspVars, faults>>
-----------------------------------------------------------------------------
(* Authorize.                                                              *)

\* Mutant: a row that is still AUTHORIZING is authorized again.
AuthorizeNewOrOpen(w, c) ==
    /\ Claim(w, c, "AUTHORIZE")
    /\ row \in {"NONE", "AUTHORIZING"}
    /\ UpdatePaymentState("AUTHORIZING")
    /\ Calling(w, "AUTHORIZE")
    /\ UNCHANGED <<ref, ledger, events>>

AuthorizeNew(w, c) ==
    /\ Claim(w, c, "AUTHORIZE")
    /\ row = "NONE"
    /\ UpdatePaymentState("AUTHORIZING")
    /\ Calling(w, "AUTHORIZE")
    /\ UNCHANGED <<ref, ledger, events>>

\* A row exists (a tombstone too): tell the saga what it says, charge nothing.
AuthorizeKnown(w, c) ==
    /\ Claim(w, c, "AUTHORIZE")
    /\ row # "NONE"
    /\ Emit(EventFor(row))
    /\ Stop
    /\ UNCHANGED <<row, ref, ledger>>

\* What each rail may answer to a first Authorize, with its effect.
AuthorizeAnswers ==
    CASE rail = "mock" -> {<<"approved", "held">>, <<"declined", "refused">>,
                           <<"unknown", "none">>, <<"unknown", "held">>}
      [] rail = "cod" -> {<<"approved", "held">>, <<"declined", "refused">>, <<"unknown", "none">>}
      [] OTHER -> {<<"pending", "pending">>, <<"declined", "refused">>,
                   <<"unknown", "none">>, <<"unknown", "pending">>}

CallAuthorize(w) ==
    \E a \in AuthorizeAnswers :
        /\ money = "none"
        /\ Called(w, "AUTHORIZE", a[1])
        /\ money' = a[2]
        /\ asked' = asked + 1
        /\ UNCHANGED <<failures, callbacks>>

AuthorizeApproved(w) ==
    /\ Outcome(w, "AUTHORIZE", {"approved"})
    /\ UpdatePaymentState("AUTHORIZED")
    /\ ref' = TRUE
    /\ Emit({"authorized"})
    /\ UNCHANGED ledger

\* Mutant: a lost answer counts as a decline.
AuthorizeLostDeclined(w) ==
    /\ Outcome(w, "AUTHORIZE", {"declined", "unknown"})
    /\ UpdatePaymentState("FAILED")
    /\ Emit({"failed"})
    /\ UNCHANGED <<ref, ledger>>

AuthorizeDeclined(w) ==
    /\ Outcome(w, "AUTHORIZE", {"declined"})
    /\ UpdatePaymentState("FAILED")
    /\ Emit({"failed"})
    /\ UNCHANGED <<ref, ledger>>

\* Mutant: the state is written again, whatever happened since.
AuthorizeOpenRewrites(w) ==
    /\ Outcome(w, "AUTHORIZE", {"pending", "unknown"})
    /\ UpdatePaymentState("AUTHORIZING")
    /\ UNCHANGED <<ref, ledger, events>>

\* The customer has to act, or nobody knows: the row stays AUTHORIZING.
AuthorizeOpen(w) ==
    /\ Outcome(w, "AUTHORIZE", {"pending", "unknown"})
    /\ UNCHANGED rowVars
-----------------------------------------------------------------------------
(* Capture.                                                                *)

CaptureBegin(w, c) ==
    /\ Claim(w, c, "CAPTURE")
    /\ row = "AUTHORIZED"
    /\ UpdatePaymentState("CAPTURING")
    /\ Calling(w, "CAPTURE")
    /\ UNCHANGED <<ref, ledger, events>>

CaptureAgain(w, c) ==
    /\ Claim(w, c, "CAPTURE")
    /\ row = "CAPTURED"
    /\ Emit({"captured"})
    /\ Stop
    /\ UNCHANGED <<row, ref, ledger>>

\* SupportsCapture of the method the row was loaded with.  The table has no
\* method column, so that is the empty method: TRUE for the mock, FALSE for
\* Paymob whatever the customer paid with.
SupportsCapture == rail = "mock"

\* Without a separate capture the call is left out and counts as approved.
CallCapture(w) ==
    \/ /\ SupportsCapture
       /\ \E o \in {"approved", "unknown"} :
             /\ Called(w, "CAPTURE", o)
             /\ money' = IF o = "approved" /\ money = "held" THEN "taken" ELSE money
       /\ UNCHANGED <<asked, failures, callbacks>>
    \/ /\ ~SupportsCapture
       /\ Called(w, "CAPTURE", "approved")
       /\ UNCHANGED pspVars

CaptureApproved(w) ==
    /\ Outcome(w, "CAPTURE", {"approved"})
    /\ UpdatePaymentState("CAPTURED")
    /\ ledger' = ledger + 1
    /\ Emit({"captured"})
    /\ UNCHANGED ref

\* Stay in CAPTURING.
CaptureOpen(w) ==
    /\ Outcome(w, "CAPTURE", {"declined", "pending", "unknown"})
    /\ UNCHANGED rowVars
-----------------------------------------------------------------------------
(* Void.                                                                   *)

\* A Void that overtook its Authorize leaves a VOIDED row behind.
VoidTombstone(w, c) ==
    /\ Claim(w, c, "VOID")
    /\ row = "NONE"
    /\ UpdatePaymentState("VOIDED")
    /\ Emit({"voided"})
    /\ Stop
    /\ UNCHANGED <<ref, ledger>>

VoidAgain(w, c) ==
    /\ Claim(w, c, "VOID")
    /\ row \in {"VOIDED", "FAILED"}
    /\ Emit({"voided"})
    /\ Stop
    /\ UNCHANGED <<row, ref, ledger>>

VoidBegin(w, c) ==
    /\ Claim(w, c, "VOID")
    /\ row \in {"AUTHORIZING", "AUTHORIZED", "CAPTURING"}
    /\ Calling(w, "VOID")
    /\ UNCHANGED rowVars

\* With a reference Paymob reverses the transaction (again is approved too) and
\* calls back, or the answer is lost; without one it fails.  The mock approves
\* whatever it is given and, under the void's own key, reverses nothing.
CallVoid(w) ==
    LET reverses == rail # "mock" /\ work[w].ref /\ money \in {"held", "taken"} IN
    \E o \in {"approved", "unknown"} :
        /\ Called(w, "VOID", o)
        /\ o = "approved" => rail = "mock" \/ work[w].ref
        /\ \/ /\ reverses
              /\ money' = "reversed"
              /\ callbacks' = callbacks \cup {Callback(0, "voided")}
           \/ /\ o = "unknown" \/ ~reverses
              /\ UNCHANGED <<money, callbacks>>
        /\ UNCHANGED <<asked, failures>>

VoidApproved(w) ==
    /\ Outcome(w, "VOID", {"approved"})
    /\ UpdatePaymentState("VOIDED")
    /\ Emit({"voided"})
    /\ UNCHANGED <<ref, ledger>>

VoidOpen(w) ==
    /\ Outcome(w, "VOID", {"declined", "pending", "unknown"})
    /\ UNCHANGED rowVars
-----------------------------------------------------------------------------
(* The customer, the courier, support and the callbacks.                   *)

\* Something happens to the money, and Paymob calls back.
Happens(from, to, callback) ==
    /\ money = from /\ money' = to
    /\ callbacks' = callbacks \cup {callback}
    /\ UNCHANGED <<rail, rowVars, sent, inbox, seen, work, asked, faults>>

\* The transaction of the attempt that is under way while the order is unpaid,
\* and the one that paid it.
Attempt == failures + 1

\* 3-D Secure, or the wallet waits for the customer.
AttemptPends == Happens("pending", "pending", Callback(Attempt, "pending")) /\ UNCHANGED failures
CustomerApproves ==
    /\ Happens("pending", IF rail = "wallet" THEN "taken" ELSE "held", Callback(Attempt, "authorized"))
    /\ UNCHANGED failures
\* The order stays open for another attempt.
CustomerFails ==
    /\ failures < MaxFailures
    /\ Happens("pending", "pending", Callback(Attempt, "failed"))
    /\ failures' = failures + 1
\* The parcel leaves once the order is confirmed, which the captured event does.
CourierCollects ==
    /\ rail = "cod" /\ "captured" \in events
    /\ Happens("held", "taken", Callback(0, "captured"))
    /\ UNCHANGED failures
\* "issue a refund instead": support does, at Paymob.
SupportRefunds ==
    /\ row = "CAPTURED"
    /\ Happens("taken", "refunded", Callback(0, "refunded"))
    /\ UNCHANGED failures

\* The dedupe key: a transaction that is still pending is an "authorized" callback
\* without success (normaliseCallback), which its later success shares the key with.
Key(b) == <<b.txn, IF b.says = "pending" THEN "authorized" ELSE b.says>>

\* HandleCallback: claimed once per key.
Deliver(b, says) ==
    /\ b.says = says /\ Key(b) \notin seen
    /\ seen' = seen \cup {Key(b)}
    /\ UNCHANGED <<rail, sent, inbox, work, pspVars, faults>>

CallbackAuthorized(b) ==
    /\ Deliver(b, "authorized")
    /\ IF row \in {"AUTHORIZED", "CAPTURED"}
       THEN UNCHANGED rowVars
       ELSE /\ UpdatePaymentState("AUTHORIZED")
            /\ ref' = TRUE
            /\ Emit({"authorized"})
            /\ UNCHANGED ledger

CallbackFailed(b) ==
    /\ Deliver(b, "failed")
    /\ IF row \in {"AUTHORIZED", "CAPTURED"}
       THEN UNCHANGED rowVars
       ELSE /\ UpdatePaymentState("FAILED")
            /\ Emit({"failed"})
            /\ UNCHANGED <<ref, ledger>>

CallbackCaptured(b) ==
    /\ Deliver(b, "captured")
    /\ UpdatePaymentState("CAPTURED")
    /\ ledger' = ledger + 1
    /\ Emit({"captured"})
    /\ UNCHANGED ref

CallbackVoided(b) ==
    /\ Deliver(b, "voided")
    /\ UpdatePaymentState("VOIDED")
    /\ Emit({"voided"})
    /\ UNCHANGED <<ref, ledger>>

\* No case of the switch: claimed, and nothing else.
CallbackNoted(b) ==
    /\ Deliver(b, "pending") \/ Deliver(b, "refunded")
    /\ UNCHANGED rowVars

HandleCallback ==
    \E b \in callbacks :
        \/ CallbackAuthorized(b) \/ CallbackFailed(b) \/ CallbackCaptured(b)
        \/ CallbackVoided(b) \/ CallbackNoted(b)

\* The process dies before or after the provider call: the command stays claimed.
Crash(w) ==
    /\ work[w] # NoWork
    /\ faults < MaxFaults
    /\ faults' = faults + 1
    /\ work' = [work EXCEPT ![w] = NoWork]
    /\ UNCHANGED <<rail, rowVars, sent, inbox, seen, pspVars>>
-----------------------------------------------------------------------------
Next ==
    \/ \E c \in Commands : Send(c)
    \/ \E w \in Workers, c \in sent :
          \/ AuthorizeNew(w, c) \/ AuthorizeKnown(w, c)
          \/ CaptureBegin(w, c) \/ CaptureAgain(w, c)
          \/ VoidTombstone(w, c) \/ VoidAgain(w, c) \/ VoidBegin(w, c)
    \/ \E w \in Workers :
          \/ CallAuthorize(w) \/ AuthorizeApproved(w) \/ AuthorizeDeclined(w) \/ AuthorizeOpen(w)
          \/ CallCapture(w) \/ CaptureApproved(w) \/ CaptureOpen(w)
          \/ CallVoid(w) \/ VoidApproved(w) \/ VoidOpen(w)
          \/ Crash(w)
    \/ AttemptPends \/ CustomerApproves \/ CustomerFails \/ CourierCollects \/ SupportRefunds
    \/ HandleCallback

Spec == Init /\ [][Next]_vars
-----------------------------------------------------------------------------
\* Every variable has its declared type; only event types the saga subscribes
\* to are published (emitForState).
TypeOK ==
    /\ rail \in Rails
    /\ row \in RowStates /\ ref \in BOOLEAN /\ ledger \in Nat
    /\ sent \subseteq Commands /\ inbox \subseteq Commands
    /\ seen \subseteq Transactions \X (EventTypes \cup {"refunded"})
    /\ work \in [Workers -> Work]
    /\ events \subseteq EventTypes /\ callbacks \subseteq Callbacks
    /\ money \in {"none", "pending", "held", "taken", "reversed", "refunded", "refused"}
    /\ asked \in Nat /\ failures \in 0 .. MaxFailures /\ faults \in 0 .. MaxFaults

Approved == {"held", "taken", "reversed", "refunded"}
Charged == money \in {"held", "taken"}

\* The provider is asked to authorize at most once per payment and revenue is
\* booked once, however often the saga resends, whichever replica dies and however
\* often the customer tries or a callback is repeated.  (On cash on delivery revenue
\* is booked by Capture and again by the courier's callback.)
ChargedOnce == asked <= 1 /\ (rail # "cod" => ledger <= 1)

\* What the saga is told is true, with lost answers, callbacks, crashes and a
\* second handler in between: "authorized" only if the provider approved, and
\* "failed" or "voided" of money the provider has only if the customer paid after
\* an attempt that failed: the failed row is voided without a call, and the order
\* at Paymob stays open.  (The mock approves a Void and reverses nothing.)
ToldIsTrue ==
    /\ "authorized" \in events => money \in Approved
    /\ "failed" \in events /\ Charged => failures > 0
    /\ rail # "mock" /\ "voided" \in events /\ Charged => failures > 0

\* A captured payment stays captured whatever answer, command or callback comes
\* late.  Off the mock, which approves a Void while the charge is under way, a
\* VOIDED or FAILED row moves only through the callbacks of several attempts, and
\* a VOIDED one never back to AUTHORIZED or CAPTURED.
SettledIsFinal ==
    [][ /\ row = "CAPTURED" => row' = "CAPTURED"
        /\ rail # "mock" /\ row \in {"VOIDED", "FAILED"} /\ row' # row => failures > 0
        /\ rail # "mock" /\ row = "VOIDED" => row' \in {"VOIDED", "FAILED"} ]_vars
=============================================================================
