-------------------------------- MODULE Saga --------------------------------
(***************************************************************************)
(* The order saga's state machine: the pure function                       *)
(* saga.Next(from, trigger, ctx) of                                        *)
(* order-service/internal/saga/machine.go.  It decides and does nothing:   *)
(* the orchestrator (module OrderSaga) applies its decisions inside a      *)
(* database transaction.  The operators below have one definition per      *)
(* `case` of the switch in Next; an illegal transition is the decision     *)
(* Illegal.                                                                *)
(***************************************************************************)
EXTENDS Naturals

None == "none"

States == {"PENDING", "STOCK_RESERVED", "PAID", "STOCK_COMMITTED",
           "CONFIRMED", "COMPENSATING", "CANCELLED"}

Events == {"Reserved", "ReserveFailed", "Released", "Committed",
           "Authorized", "AuthFailed", "Captured", "Voided"}

Triggers == Events \cup {"Timeout"}

Steps == {"RESERVE", "AUTHORIZE", "COMMIT", "CAPTURE", "RELEASE", "VOID"}

Compensations == {"RELEASE", "VOID"}

Reasons == {"INSUFFICIENT_STOCK", "PAYMENT_DECLINED", "PAYMENT_TIMEOUT",
            "RESERVATION_TIMEOUT", "CUSTOMER_CANCELLED", "FRAUD_REJECTED"}

\* What the machine is told beyond the current state (type Ctx).  The
\* roll-forward counter of Ctx is read by no branch of Next.
Ctx == [authorizeSent : BOOLEAN, inventorySettled : BOOLEAN,
        paymentSettled : BOOLEAN, retriable : BOOLEAN]

\* A decision.  deadline is in seconds, 0 when no timeout applies.
Decisions == [legal : BOOLEAN, next : States, emit : SUBSET Steps,
              ackOnly : BOOLEAN, reason : Reasons \cup {None},
              failedStep : Steps \cup {None}, deadline : Nat]

TimeoutPending == 30
TimeoutStockReserved == 120
TimeoutCompensating == 300
RetryCommitInterval == 5
RetryCaptureInterval == 5
MaxRollForwardRetries == 5
-----------------------------------------------------------------------------
\* The three shapes a decision takes.
Decide(next, emit, deadline) ==
    [legal |-> TRUE, next |-> next, emit |-> emit, ackOnly |-> FALSE,
     reason |-> None, failedStep |-> None, deadline |-> deadline]

AckOnly(s) == [Decide(s, {}, 0) EXCEPT !.ackOnly = TRUE]

Illegal(s) == [Decide(s, {}, 0) EXCEPT !.legal = FALSE]

Because(d, reason, step) == [d EXCEPT !.reason = reason, !.failedStep = step]

\* Start(): a freshly accepted order.
Start == Decide("PENDING", {"RESERVE"}, TimeoutPending)

IsTerminal(s) == s \in {"CONFIRMED", "CANCELLED"}

\* Past the point of no return: PAID is the state in which COMMIT was emitted.
RollbackForbidden(s) == s \in {"PAID", "STOCK_COMMITTED", "CONFIRMED"}

\* Mutant of SettleOrWait: payment is not waited for.
SettleInventoryOnly(c) ==
    IF c.inventorySettled
    THEN Because(Decide("CANCELLED", {}, 0), "PAYMENT_DECLINED", None)
    ELSE AckOnly("COMPENSATING")

\* settleOrWait(): cancel once both participants acknowledged.  A payment that
\* was never engaged counts as settled.
SettleOrWait(c) ==
    IF c.inventorySettled /\ (c.paymentSettled \/ ~c.authorizeSent)
    THEN Because(Decide("CANCELLED", {}, 0), "PAYMENT_DECLINED", None)
    ELSE AckOnly("COMPENSATING")

\* compensationsFor(): the compensations still outstanding.
CompensationsFor(c) ==
    {s \in Compensations :
        \/ s = "RELEASE" /\ ~c.inventorySettled
        \/ s = "VOID" /\ c.authorizeSent /\ ~c.paymentSettled}
-----------------------------------------------------------------------------
OnPending(t) ==
    CASE t = "Reserved" ->
            Decide("STOCK_RESERVED", {"AUTHORIZE"}, TimeoutStockReserved)
      [] t = "ReserveFailed" ->
            Because(Decide("CANCELLED", {}, 0), "INSUFFICIENT_STOCK", "RESERVE")
      [] t = "Timeout" ->
            Decide("COMPENSATING", {"RELEASE"}, TimeoutCompensating)
      [] t \in {"Released", "Voided"} -> AckOnly("PENDING")
      [] OTHER -> Illegal("PENDING")

OnStockReserved(t, c) ==
    CASE t = "Authorized" -> Decide("PAID", {"COMMIT"}, 0)
      [] t = "AuthFailed" /\ c.retriable -> AckOnly("STOCK_RESERVED")
      [] t = "AuthFailed" /\ ~c.retriable ->
            Because(Decide("COMPENSATING", {"RELEASE"}, TimeoutCompensating),
                    "PAYMENT_DECLINED", "AUTHORIZE")
      [] t = "Timeout" ->
            Because(Decide("COMPENSATING", {"RELEASE", "VOID"}, TimeoutCompensating),
                    "PAYMENT_TIMEOUT", "AUTHORIZE")
      [] t = "Reserved" -> AckOnly("STOCK_RESERVED")
      [] OTHER -> Illegal("STOCK_RESERVED")

OnPaid(t) ==
    CASE t = "Committed" -> Decide("STOCK_COMMITTED", {"CAPTURE"}, 0)
      [] t = "Authorized" -> AckOnly("PAID")
      [] t = "Timeout" -> Decide("PAID", {"COMMIT"}, RetryCommitInterval)
      [] OTHER -> Illegal("PAID")

OnStockCommitted(t) ==
    CASE t = "Captured" -> Decide("CONFIRMED", {}, 0)
      [] t = "Committed" -> AckOnly("STOCK_COMMITTED")
      [] t = "Timeout" -> Decide("STOCK_COMMITTED", {"CAPTURE"}, RetryCaptureInterval)
      [] OTHER -> Illegal("STOCK_COMMITTED")

\* Mutant of OnCompensating: a late authorization resumes the order.
OnCompensatingResumes(t, c) ==
    CASE t \in {"Released", "ReserveFailed"} ->
            SettleOrWait([c EXCEPT !.inventorySettled = TRUE])
      [] t = "Authorized" -> Decide("PAID", {"COMMIT"}, 0)
      [] OTHER -> AckOnly("COMPENSATING")

OnCompensating(t, c) ==
    CASE t \in {"Released", "ReserveFailed"} ->
            SettleOrWait([c EXCEPT !.inventorySettled = TRUE])
      [] t \in {"Voided", "AuthFailed"} ->
            SettleOrWait([c EXCEPT !.paymentSettled = TRUE])
      [] t = "Reserved" -> AckOnly("COMPENSATING")
      [] t = "Authorized" /\ ~c.authorizeSent -> AckOnly("COMPENSATING")
      [] t = "Authorized" /\ c.authorizeSent ->
            Decide("COMPENSATING", {"VOID"}, TimeoutCompensating)
      [] t = "Timeout" ->
            Decide("COMPENSATING", CompensationsFor(c), TimeoutCompensating)
      [] OTHER -> Illegal("COMPENSATING")

\* Next(from, trigger, ctx): the whole machine.
Machine(from, t, c) ==
    CASE from = "PENDING" -> OnPending(t)
      [] from = "STOCK_RESERVED" -> OnStockReserved(t, c)
      [] from = "PAID" -> OnPaid(t)
      [] from = "STOCK_COMMITTED" -> OnStockCommitted(t)
      [] from = "COMPENSATING" -> OnCompensating(t, c)
      [] OTHER -> AckOnly(from)
=============================================================================
