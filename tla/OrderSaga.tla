----------------------------- MODULE OrderSaga ------------------------------
(***************************************************************************)
(* order-service driving the saga of one order (the rows of two orders are *)
(* disjoint, so orders do not interact inside this service).               *)
(*                                                                         *)
(* Three kinds of actor write the order: the Kafka consumers of the        *)
(* replicas (orchestrator.Handle), the timeout sweeper (Sweeper.fire) and  *)
(* the HTTP handlers (PlaceOrder, CancelOrder).  Each runs one READ        *)
(* COMMITTED transaction.  A transaction is two steps here: the reads (the *)
(* order row and its saga_steps rows, without a lock), kept in tx[a], and  *)
(* the writes with the commit, which apply to the rows as they are then.   *)
(* What protects the order in between is the version column and nothing    *)
(* else, and a decision that does not change the status does not check it. *)
(* The sweeper alone holds the row lock (FOR UPDATE OF o SKIP LOCKED).     *)
(* The order and the step rows are read by two statements; one step stands *)
(* for both, because only COMPENSATING decides on the step rows and a      *)
(* status that changed between the two reads fails the version check.      *)
(*                                                                         *)
(* Kafka is the pair of sets commands and events.  Nothing leaves them, so *)
(* a message is delivered late, again, or never, in any order.             *)
(***************************************************************************)
EXTENDS Saga, Sequences, FiniteSets

CONSTANTS
    Consumers,   \* the consumer goroutines of the order-service replicas
    MaxSends,    \* bound: how often one command is emitted
    MaxFaults,   \* bound: crashes and exhausted retry budgets
    PayAnswers,  \* how payment may answer an Authorize
    TtlSweep     \* whether inventory's TTL sweep may release on its own

ASSUME OrderSagaAssumption ==
    /\ MaxSends \in Nat \ {0}
    /\ MaxFaults \in Nat
    /\ PayAnswers \subseteq {"authorized", "declined", "unavailable"}
    /\ TtlSweep \in BOOLEAN
    /\ "sweeper" \notin Consumers /\ "api" \notin Consumers

VARIABLES
    order,       \* the row of table orders
    steps,       \* the rows of table saga_steps, one per step
    inbox,       \* event ids in processed_events
    dlq,         \* events parked on the dead letter topic
    commands,    \* commands in the outbox or on order-commands
    events,      \* events the participants published
    published,   \* public order events, in the order they were enqueued
    tx,          \* what each actor's open transaction has read
    faults       \* faults so far (bounded by MaxFaults)

orderVars == <<order, steps, inbox, dlq, commands, published, tx>>
vars == <<orderVars, events, faults>>

Actors == Consumers \cup {"sweeper", "api"}
Rows == [state : {"NONE", "SENT", "ACKED"}, attempts : Nat, timed : BOOLEAN]
Orders == [status : States \cup {None}, version : Nat,
           reason : Reasons \cup {None}, failedStep : Steps \cup {None}]
Commands == [step : Steps, n : Nat]
EventMsgs == [type : Events, n : Nat, retriable : BOOLEAN]
Published == [type : {"created", "confirmed", "cancelled"}, reason : Reasons \cup {None}]
NoEvent == [type |-> "Timeout", n |-> 0, retriable |-> FALSE]
Txs == [kind : {"idle", "handle", "sweep", "cancel"}, event : EventMsgs \cup {NoEvent},
        step : Steps \cup {None}, attempts : Nat, order : Orders, ctx : Ctx]

NoRow == [state |-> "NONE", attempts |-> 0, timed |-> FALSE]
NoOrder == [status |-> None, version |-> 0, reason |-> None, failedStep |-> None]
Idle == [kind |-> "idle", event |-> NoEvent, step |-> None, attempts |-> 0,
         order |-> NoOrder,
         ctx |-> [authorizeSent |-> FALSE, inventorySettled |-> FALSE,
                  paymentSettled |-> FALSE, retriable |-> FALSE]]

Init ==
    /\ order = NoOrder
    /\ steps = [s \in Steps |-> NoRow]
    /\ inbox = {} /\ dlq = {} /\ commands = {} /\ events = {}
    /\ published = <<>>
    /\ tx = [a \in Actors |-> Idle]
    /\ faults = 0
-----------------------------------------------------------------------------
(* The store: what one statement does to the rows.                         *)

\* Mutant of RecordStepSent: the deadline is not written.
RecordStepSentUntimed(rows, sent, deadline) ==
    [s \in Steps |->
        IF s \in sent
        THEN [state |-> "SENT", attempts |-> rows[s].attempts + 1, timed |-> FALSE]
        ELSE rows[s]]

\* RecordStepSent: upsert as SENT, count the attempt, set or clear the deadline.
RecordStepSent(rows, sent, deadline) ==
    [s \in Steps |->
        IF s \in sent
        THEN [state |-> "SENT", attempts |-> rows[s].attempts + 1, timed |-> deadline > 0]
        ELSE rows[s]]

\* RecordStepAcked: upsert as ACKED and clear the deadline.
RecordStepAcked(rows, acked) ==
    [s \in Steps |->
        IF s \in acked
        THEN [state |-> "ACKED", timed |-> FALSE,
              attempts |-> IF rows[s].state = "NONE" THEN 1 ELSE rows[s].attempts]
        ELSE rows[s]]

\* Mutant of VersionStale: UPDATE ... WHERE id = $1.
NeverStale(snapshot) == FALSE

\* UpdateStatus: the optimistic lock.
VersionStale(snapshot) == order.version # snapshot.version

UpdateStatus(next, reason, failedStep) ==
    order' = [status |-> next, version |-> order.version + 1,
              reason |-> IF reason = None THEN order.reason ELSE reason,
              failedStep |-> IF failedStep = None THEN order.failedStep ELSE failedStep]

\* emitCommand for each step of emit: an outbox row with a fresh id (the
\* attempt number makes it fresh) and the step row.
EmitCommands(rows, emit, deadline) ==
    LET sent == RecordStepSent(rows, emit, deadline)
    IN  /\ steps' = sent
        /\ commands' = commands \cup {[step |-> s, n |-> sent[s].attempts] : s \in emit}

\* stepAckedBy: the step an event closes out.
StepAckedBy(t) ==
    CASE t \in {"Reserved", "ReserveFailed"} -> {"RESERVE"}
      [] t \in {"Authorized", "AuthFailed"} -> {"AUTHORIZE"}
      [] t = "Committed" -> {"COMMIT"}
      [] t = "Captured" -> {"CAPTURE"}
      [] t = "Released" -> {"RELEASE"}
      [] t = "Voided" -> {"VOID"}
      [] OTHER -> {}

\* The bound on resends: the sweeper, the only actor that resends on its own
\* account, stops once a compensation was sent MaxSends times, unless the
\* answer to the last one was lost.
MayResend ==
    \/ \A s \in Compensations : steps[s].attempts < MaxSends
    \/ \E s \in Compensations, e \in dlq :
          steps[s].state = "SENT" /\ e.n = steps[s].attempts /\ s \in StepAckedBy(e.type)

\* ClaimOverdue: the rows the sweeper's query returns once their deadline passed.
Overdue == {s \in Steps : steps[s].state = "SENT" /\ steps[s].timed
                          /\ order.status # None /\ ~IsTerminal(order.status)}

\* The sweeper's transaction holds the lock on the order row: nobody else can
\* update the row, or insert a step row that references it.
RowLocked(a) == a # "sweeper" /\ tx["sweeper"].kind = "sweep"
MayInsert(a, written) == (\E s \in written : steps[s].state = "NONE") => ~RowLocked(a)
-----------------------------------------------------------------------------
(* The orchestrator.                                                       *)

\* buildCtx: the machine's context, read back from the step rows.
BuildCtx(retriable) ==
    [authorizeSent |-> steps["AUTHORIZE"].state # "NONE",
     inventorySettled |-> steps["RELEASE"].state = "ACKED",
     paymentSettled |-> steps["VOID"].state = "ACKED",
     retriable |-> retriable]

\* Mutant of ReasonOf: no isKnownReason, the participant's code as it comes.
RawReasonOf(t) ==
    CASE t = "ReserveFailed" -> "INSUFFICIENT_STOCK"
      [] t = "AuthFailed" -> "CARD_DECLINED"
      [] OTHER -> None

\* The reasonCode of an event, when it is one the saga knows (isKnownReason).
ReasonOf(t) == IF t = "ReserveFailed" THEN "INSUFFICIENT_STOCK" ELSE None

\* pickReason: an existing reason wins, then the event's, then the decision's.
PickReason(fromDecision, fromEvent, existing) ==
    IF existing # None THEN existing
    ELSE IF fromEvent # None THEN fromEvent ELSE fromDecision

\* Mutant of StateEvents: the customer is told as soon as compensation starts.
StateEventsEarly(d, snapshot) ==
    CASE d.next = "CONFIRMED" -> <<[type |-> "confirmed", reason |-> None]>>
      [] d.next \in {"COMPENSATING", "CANCELLED"} ->
            <<[type |-> "cancelled", reason |-> PickReason(d.reason, None, snapshot.reason)]>>
      [] OTHER -> <<>>

\* emitStateEvents: the public event of a terminal decision.
StateEvents(d, snapshot) ==
    CASE d.next = "CONFIRMED" -> <<[type |-> "confirmed", reason |-> None]>>
      [] d.next = "CANCELLED" ->
            <<[type |-> "cancelled", reason |-> PickReason(d.reason, None, snapshot.reason)]>>
      [] OTHER -> <<>>

\* An actor opens its transaction and reads.
Read(a, kind, event, step) ==
    /\ tx[a].kind = "idle"
    /\ tx' = [tx EXCEPT ![a] =
                [kind |-> kind, event |-> event, step |-> step,
                 attempts |-> IF step = None THEN 0 ELSE steps[step].attempts,
                 order |-> order, ctx |-> BuildCtx(event.retriable)]]
    /\ UNCHANGED <<order, steps, inbox, dlq, commands, published, events, faults>>

Close(a) == tx' = [tx EXCEPT ![a] = Idle]

\* apply(): the writes of a decision, in the caller's transaction.
Apply(a, t, d) ==
    LET snapshot == tx[a].order
        acked == RecordStepAcked(steps, StepAckedBy(t))
    IN  /\ MayInsert(a, StepAckedBy(t) \cup d.emit)
        /\ IF d.ackOnly /\ d.next = snapshot.status /\ d.emit = {}
           THEN /\ steps' = acked
                /\ UNCHANGED <<order, commands, published>>
           ELSE
             /\ IF d.next = snapshot.status
                THEN UNCHANGED order
                ELSE /\ ~RowLocked(a) /\ ~VersionStale(snapshot)
                     /\ UpdateStatus(d.next,
                            IF d.next = "CANCELLED"
                            THEN PickReason(d.reason, ReasonOf(t), snapshot.reason)
                            ELSE None,
                            d.failedStep)
             /\ EmitCommands(acked, d.emit, d.deadline)
             /\ published' = published \o StateEvents(d, snapshot)
-----------------------------------------------------------------------------
(* The operations.                                                         *)

\* PlaceOrder: order row, first step, Reserve command and order.created.
PlaceOrder ==
    /\ order.status = None
    /\ order' = [NoOrder EXCEPT !.status = Start.next]
    /\ EmitCommands(steps, Start.emit, Start.deadline)
    /\ published' = Append(published, [type |-> "created", reason |-> None])
    /\ UNCHANGED <<inbox, dlq, tx, events, faults>>

\* Handle, first half: claim the event in the inbox, read order and steps.
\* A second claim of the same id waits for the first transaction to end.
HandleBegin(a, e) ==
    /\ e \notin inbox \cup dlq
    /\ \A b \in Consumers : tx[b].event # e
    /\ Read(a, "handle", e, None)

HandleDecision(a) == Machine(tx[a].order.status, tx[a].event.type, tx[a].ctx)

\* Handle, second half: apply the decision and commit with the inbox row.
HandleCommit(a) ==
    LET e == tx[a].event
        d == HandleDecision(a)
    IN  /\ tx[a].kind = "handle"
        /\ d.legal
        /\ Apply(a, e.type, d)
        /\ inbox' = inbox \cup {e}
        /\ Close(a)
        /\ UNCHANGED <<dlq, events, faults>>

\* An illegal transition is permanent: roll back and park the event.
HandleIllegal(a) ==
    /\ tx[a].kind = "handle"
    /\ ~HandleDecision(a).legal
    /\ dlq' = dlq \cup {tx[a].event}
    /\ Close(a)
    /\ UNCHANGED <<order, steps, inbox, commands, published, events, faults>>

\* ErrVersionStale: somebody moved the order since the read.  Roll back; a
\* consumer delivers the event again, the API answers the customer 409.
Stale(a) ==
    /\ \/ tx[a].kind = "handle" /\ HandleDecision(a).legal
          /\ HandleDecision(a).next # tx[a].order.status
       \/ tx[a].kind = "cancel"
    /\ VersionStale(tx[a].order)
    /\ Close(a)
    /\ UNCHANGED <<order, steps, inbox, dlq, commands, published, events, faults>>

\* The process dies, or the database does, before the commit.
Crash(a) ==
    /\ tx[a].kind # "idle"
    /\ faults < MaxFaults
    /\ faults' = faults + 1
    /\ Close(a)
    /\ UNCHANGED <<order, steps, inbox, dlq, commands, published, events>>

\* MaxAttempts transient failures in a row: the consumer parks the event.
Exhausted(a) ==
    /\ tx[a].kind = "handle"
    /\ faults < MaxFaults
    /\ faults' = faults + 1
    /\ dlq' = dlq \cup {tx[a].event}
    /\ Close(a)
    /\ UNCHANGED <<order, steps, inbox, commands, published, events>>

\* Sweeper.tick claims one overdue row and locks the order.
SweepBegin(s) ==
    /\ s \in Overdue /\ MayResend
    /\ Read("sweeper", "sweep", NoEvent, s)

\* fire(): past the point of no return with the retries used up, only the
\* deadline moves; otherwise apply the timeout decision, unless it would
\* compensate past the point of no return.
SweepCommit ==
    LET t == tx["sweeper"]
        d == Machine(t.order.status, "Timeout", t.ctx)
        refused == RollbackForbidden(t.order.status) /\ d.emit \cap Compensations # {}
        escalate == RollbackForbidden(t.order.status) /\ t.attempts >= MaxRollForwardRetries
    IN  /\ t.kind = "sweep"
        /\ IF escalate \/ refused \/ ~d.legal
           THEN UNCHANGED <<order, steps, commands, published>>
           ELSE Apply("sweeper", "Timeout", d)
        /\ Close("sweeper")
        /\ UNCHANGED <<inbox, dlq, events, faults>>

Cancellable(s) == s \in {"PENDING", "STOCK_RESERVED"}

CancelBegin ==
    /\ Cancellable(order.status)
    /\ Read("api", "cancel", NoEvent, None)

\* Mutant of CancelCommit: no version check.
CancelCommitUnversioned ==
    LET t == tx["api"]
        emit == {"RELEASE"} \cup IF t.ctx.authorizeSent THEN {"VOID"} ELSE {}
    IN  /\ t.kind = "cancel"
        /\ ~RowLocked("api")
        /\ UpdateStatus("COMPENSATING", "CUSTOMER_CANCELLED", None)
        /\ EmitCommands(steps, emit, TimeoutCompensating)
        /\ Close("api")
        /\ UNCHANGED <<inbox, dlq, published, events, faults>>

\* CancelOrder: compensate what was engaged, as far as the read showed it.
CancelCommit ==
    LET t == tx["api"]
        emit == {"RELEASE"} \cup IF t.ctx.authorizeSent THEN {"VOID"} ELSE {}
    IN  /\ t.kind = "cancel"
        /\ ~RowLocked("api")
        /\ ~VersionStale(t.order)
        /\ UpdateStatus("COMPENSATING", "CUSTOMER_CANCELLED", None)
        /\ EmitCommands(steps, emit, TimeoutCompensating)
        /\ Close("api")
        /\ UNCHANGED <<inbox, dlq, published, events, faults>>
-----------------------------------------------------------------------------
(* The participants, as far as the saga may rely on them: each command is  *)
(* answered at most once by an event that answers it, but for a failed     *)
(* authorization, which another attempt of the customer may follow, and    *)
(* inventory's TTL sweep may release a reservation nobody asked it to      *)
(* release, after which a Commit goes unanswered.                          *)

Event(t, n) == [type |-> t, n |-> n, retriable |-> FALSE]

AnswersTo(c) ==
    CASE c.step = "RESERVE" -> {Event("Reserved", c.n), Event("ReserveFailed", c.n)}
      [] c.step = "COMMIT" -> {Event("Committed", c.n)}
      [] c.step = "CAPTURE" -> {Event("Captured", c.n)}
      [] c.step = "RELEASE" -> {Event("Released", c.n)}
      [] c.step = "VOID" -> {Event("Voided", c.n)}
      [] c.step = "AUTHORIZE" ->
            {Event("Authorized", c.n) : x \in PayAnswers \cap {"authorized"}} \cup
            {Event("AuthFailed", c.n) : x \in PayAnswers \cap {"declined"}} \cup
            {[Event("AuthFailed", c.n) EXCEPT !.retriable = TRUE] :
                x \in PayAnswers \cap {"unavailable"}}

Publish(e) ==
    /\ events' = events \cup {e}
    /\ UNCHANGED <<orderVars, faults>>

Answer(c) ==
    /\ AnswersTo(c) \cap events = {}
    /\ c.step = "COMMIT" => Event("Released", 0) \notin events
    /\ \E e \in AnswersTo(c) : Publish(e)

\* The customer pays after an attempt that failed.
PaidAfterFailure(c) ==
    /\ "authorized" \in PayAnswers /\ Event("Authorized", c.n) \notin events
    /\ \E e \in AnswersTo(c) \cap events : e.type = "AuthFailed"
    /\ Publish(Event("Authorized", c.n))

ReservationExpires ==
    /\ TtlSweep
    /\ \E e \in events : e.type = "Reserved"
    /\ ~\E e \in events : e.type \in {"Released", "Committed"}
    /\ Publish(Event("Released", 0))
-----------------------------------------------------------------------------
Next ==
    \/ PlaceOrder
    \/ \E a \in Consumers :
          \/ \E e \in events : HandleBegin(a, e)
          \/ HandleCommit(a)
          \/ HandleIllegal(a)
          \/ Exhausted(a)
    \/ \E a \in Actors : Stale(a) \/ Crash(a)
    \/ \E s \in Steps : SweepBegin(s)
    \/ SweepCommit
    \/ CancelBegin
    \/ CancelCommit
    \/ \E c \in commands : Answer(c) \/ PaidAfterFailure(c)
    \/ ReservationExpires

Spec == Init /\ [][Next]_vars

(***************************************************************************)
(* Fairness.  The consumers fetch and finish what they fetched, the sweeper *)
(* ticks, an open transaction ends, and the participants answer what they  *)
(* are sent.  Commits get strong fairness: PostgreSQL queues the waiters   *)
(* for a row lock, so a sweeper that keeps taking it cannot starve them.   *)
(* Nothing obliges a customer to cancel or a fault to happen.              *)
(***************************************************************************)
Fairness ==
    /\ \A a \in Consumers :
          /\ WF_vars(\E e \in events : HandleBegin(a, e))
          /\ SF_vars(HandleCommit(a) \/ HandleIllegal(a) \/ Stale(a))
    /\ WF_vars(\E s \in Steps : SweepBegin(s))
    /\ WF_vars(SweepCommit)
    /\ SF_vars(CancelCommit \/ Stale("api"))
    /\ WF_vars(\E c \in commands : Answer(c))

FairSpec == Spec /\ Fairness
-----------------------------------------------------------------------------
\* Every variable has its declared type; the reason of a cancelled order is one
\* the saga knows (isKnownReason filters what a participant reports).
TypeOK ==
    /\ order \in Orders
    /\ steps \in [Steps -> Rows]
    /\ inbox \subseteq EventMsgs /\ dlq \subseteq EventMsgs
    /\ commands \subseteq Commands /\ events \subseteq EventMsgs
    /\ published \in Seq(Published)
    /\ tx \in [Actors -> Txs]
    /\ faults \in 0 .. MaxFaults

Emitted(s) == \E c \in commands : c.step = s
Processed(types) == \E e \in inbox : e.type \in types

\* Compensation never coexists with the point of no return: once the order is
\* PAID or beyond, no Release or Void command was ever emitted, whatever the
\* sweeper, a cancelling customer and the consumers did concurrently (the
\* version check of UpdateStatus, RollbackForbidden).
NoRollbackPastCommit ==
    RollbackForbidden(order.status) => ~Emitted("RELEASE") /\ ~Emitted("VOID")

\* ... and the other way round: no Commit command for an order being rolled back.
NoCommitWhenCompensating ==
    order.status \in {"COMPENSATING", "CANCELLED"} => ~Emitted("COMMIT") /\ ~Emitted("CAPTURE")

\* An order is cancelled only after inventory acknowledged that it holds
\* nothing, and after payment did so if an Authorize was ever sent to it
\* (settleOrWait, over acknowledgements applied in any order).
CancelledIsSettled ==
    order.status = "CANCELLED" =>
        /\ Processed({"Released", "ReserveFailed"})
        /\ Emitted("AUTHORIZE") => Processed({"Voided", "AuthFailed"})

\* The customer hears exactly one outcome and it is the one in the database:
\* order.created first, then confirmed or cancelled once, with the row.
OneOutcome ==
    [i \in DOMAIN published |-> published[i].type] =
        CASE order.status = None -> <<>>
          [] order.status = "CONFIRMED" -> <<"created", "confirmed">>
          [] order.status = "CANCELLED" -> <<"created", "cancelled">>
          [] OTHER -> <<"created">>

\* The CHECK constraint cancelled_has_reason never rejects a write.
CancelledHasReason == order.status = "CANCELLED" => order.reason # None

\* A terminal order never changes again, whatever arrives late.
TerminalIsStable == [][IsTerminal(order.status) => order' = order]_vars

\* A step leaves COMPENSATING only for CANCELLED, and never re-enters the
\* forward path: the saga moves along the edges of the state diagram.
ForwardOrBack ==
    [][ /\ order.status = "COMPENSATING" => order'.status \in {"COMPENSATING", "CANCELLED"}
        /\ RollbackForbidden(order.status) => RollbackForbidden(order'.status) ]_vars

\* Every placed order is eventually confirmed or cancelled.
Termination == (order.status # None) ~> IsTerminal(order.status)

\* Every Release or Void that was sent is eventually acknowledged, or the order
\* ends without it, although an acknowledgement is lost to the dead letter topic, a
\* replica dies before its commit or two consumers race: the step's deadline makes
\* the sweeper resend.
CompensationsAreAcknowledged ==
    \A s \in Compensations :
        (steps[s].state = "SENT") ~> (steps[s].state = "ACKED" \/ IsTerminal(order.status))
=============================================================================
