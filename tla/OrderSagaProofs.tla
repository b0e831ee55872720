-------------------------- MODULE OrderSagaProofs ---------------------------
(***************************************************************************)
(* Proofs about module OrderSaga, for every number of consumers and every  *)
(* value of the bounds.                                                    *)
(***************************************************************************)
EXTENDS OrderSaga, SequenceTheorems, TLAPS

\* What every decision of the state machine guarantees: its fields have their
\* types, a terminal state is left alone, compensation commands belong to
\* COMPENSATING, forward commands to the states past the point of no return.
AnyStatus == States \cup {None}

AnyDecision == [legal : BOOLEAN, next : AnyStatus, emit : SUBSET Steps,
                ackOnly : BOOLEAN, reason : Reasons \cup {None},
                failedStep : Steps \cup {None}, deadline : Nat]

RolledBack(s) == s \in {"COMPENSATING", "CANCELLED"}
Backward == {"RELEASE", "VOID"}
Forward == {"COMMIT", "CAPTURE"}

Sound(from, d) ==
    /\ d \in AnyDecision
    /\ IsTerminal(from) \/ from = None => d = AckOnly(from)
    /\ d.next # from => d.next # None
    /\ RolledBack(from) => RolledBack(d.next)
    /\ RollbackForbidden(from) => RollbackForbidden(d.next)
    /\ d.emit \cap Backward # {} => d.next = "COMPENSATING"
    /\ d.emit \cap Forward # {} => RollbackForbidden(d.next)
    /\ d.next = "CANCELLED" /\ from # "CANCELLED" => d.reason # None

\* A decision built by Decide, with or without a reason, is sound for from
\* when its next state and its commands are.
LEMMA DecideSound ==
    ASSUME NEW from \in States, ~IsTerminal(from), NEW next \in States,
           NEW emit \in SUBSET Steps, NEW deadline \in Nat,
           NEW reason \in Reasons \cup {None}, NEW step \in Steps \cup {None},
           RolledBack(from) => RolledBack(next),
           RollbackForbidden(from) => RollbackForbidden(next),
           emit \cap Backward # {} => next = "COMPENSATING",
           emit \cap Forward # {} => RollbackForbidden(next),
           next = "CANCELLED" => reason # None
    PROVE  /\ next # "CANCELLED" => Sound(from, Decide(next, emit, deadline))
           /\ Sound(from, Because(Decide(next, emit, deadline), reason, step))
  <1> DEFINE d == Decide(next, emit, deadline)
             b == Because(d, reason, step)
  <1>1. d.next = next /\ d.emit = emit /\ d \in AnyDecision
    BY DEF Decide, AnyDecision, AnyStatus
  <1>2. b.next = next /\ b.emit = emit /\ b.reason = reason /\ b \in AnyDecision
    BY DEF Because, Decide, AnyDecision, AnyStatus
  <1>3. from # None /\ next # None
    BY DEF States, None
  <1> HIDE DEF d, b
  <1>4. (next # "CANCELLED" => Sound(from, d)) /\ Sound(from, b)
    BY <1>1, <1>2, <1>3 DEF Sound
  <1> QED
    BY <1>4 DEF d, b

\* Doing nothing, or refusing, is sound in every state.
LEMMA StaySound ==
    ASSUME NEW from \in AnyStatus
    PROVE  /\ Sound(from, AckOnly(from))
           /\ ~IsTerminal(from) /\ from # None => Sound(from, Illegal(from))
  BY DEF Sound, AckOnly, Illegal, Decide, AnyDecision, AnyStatus, RolledBack,
         RollbackForbidden, IsTerminal, Backward, Forward, States, Steps, Reasons, None

LEMMA PendingSound == \A t \in Triggers : Sound("PENDING", OnPending(t))
  <1> SUFFICES ASSUME NEW t \in Triggers
               PROVE  Sound("PENDING", OnPending(t))
    OBVIOUS
  <1>1. CASE t = "Reserved"
    <2>1. Sound("PENDING", Decide("STOCK_RESERVED", {"AUTHORIZE"}, TimeoutStockReserved))
      BY DecideSound DEF States, Steps, Reasons, None, IsTerminal, RolledBack,
         RollbackForbidden, Backward, Forward, TimeoutStockReserved,
         TimeoutCompensating
    <2> QED
      BY <1>1, <2>1 DEF OnPending
  <1>2. CASE t = "ReserveFailed"
    <2>1. Sound("PENDING", Because(Decide("CANCELLED", {}, 0), "INSUFFICIENT_STOCK", "RESERVE"))
      BY DecideSound DEF States, Steps, Reasons, None, IsTerminal, RolledBack,
         RollbackForbidden, Backward, Forward, TimeoutStockReserved,
         TimeoutCompensating
    <2> QED
      BY <1>2, <2>1 DEF OnPending
  <1>3. CASE t = "Timeout"
    <2>1. Sound("PENDING", Decide("COMPENSATING", {"RELEASE"}, TimeoutCompensating))
      BY DecideSound DEF States, Steps, Reasons, None, IsTerminal, RolledBack,
         RollbackForbidden, Backward, Forward, TimeoutStockReserved,
         TimeoutCompensating
    <2> QED
      BY <1>3, <2>1 DEF OnPending
  <1>4. CASE t \notin {"Reserved", "ReserveFailed", "Timeout"}
    BY <1>4, StaySound DEF OnPending, AnyStatus, States, IsTerminal, None, Triggers, Events
  <1> QED
    BY <1>1, <1>2, <1>3, <1>4 DEF Triggers, Events

LEMMA StockReservedSound == \A t \in Triggers, c \in Ctx : Sound("STOCK_RESERVED", OnStockReserved(t, c))
  <1> SUFFICES ASSUME NEW t \in Triggers, NEW c \in Ctx
               PROVE  Sound("STOCK_RESERVED", OnStockReserved(t, c))
    OBVIOUS
  <1>1. CASE t = "Authorized"
    <2>1. Sound("STOCK_RESERVED", Decide("PAID", {"COMMIT"}, 0))
      BY DecideSound DEF States, Steps, Reasons, None, IsTerminal, RolledBack,
         RollbackForbidden, Backward, Forward, TimeoutCompensating
    <2> QED
      BY <1>1, <2>1 DEF OnStockReserved
  <1>2. CASE t = "AuthFailed" /\ ~c.retriable
    <2>1. Sound("STOCK_RESERVED", Because(Decide("COMPENSATING", {"RELEASE"}, TimeoutCompensating),
                          "PAYMENT_DECLINED", "AUTHORIZE"))
      BY DecideSound DEF States, Steps, Reasons, None, IsTerminal, RolledBack,
         RollbackForbidden, Backward, Forward, TimeoutCompensating
    <2> QED
      BY <1>2, <2>1 DEF OnStockReserved
  <1>3. CASE t = "Timeout"
    <2>1. Sound("STOCK_RESERVED", Because(Decide("COMPENSATING", {"RELEASE", "VOID"}, TimeoutCompensating),
                          "PAYMENT_TIMEOUT", "AUTHORIZE"))
      BY DecideSound DEF States, Steps, Reasons, None, IsTerminal, RolledBack,
         RollbackForbidden, Backward, Forward, TimeoutCompensating
    <2> QED
      BY <1>3, <2>1 DEF OnStockReserved
  <1>4. CASE t \notin {"Authorized", "Timeout"} /\ (t = "AuthFailed" => c.retriable)
    BY <1>4, StaySound DEF OnStockReserved, AnyStatus, States, IsTerminal, None, Triggers, Events, Ctx
  <1> QED
    BY <1>1, <1>2, <1>3, <1>4 DEF Triggers, Events

LEMMA PaidSound == \A t \in Triggers : Sound("PAID", OnPaid(t))
  <1> SUFFICES ASSUME NEW t \in Triggers
               PROVE  Sound("PAID", OnPaid(t))
    OBVIOUS
  <1>1. CASE t = "Committed"
    <2>1. Sound("PAID", Decide("STOCK_COMMITTED", {"CAPTURE"}, 0))
      BY DecideSound DEF States, Steps, Reasons, None, IsTerminal, RolledBack,
         RollbackForbidden, Backward, Forward, RetryCommitInterval
    <2> QED
      BY <1>1, <2>1 DEF OnPaid
  <1>2. CASE t = "Timeout"
    <2>1. Sound("PAID", Decide("PAID", {"COMMIT"}, RetryCommitInterval))
      BY DecideSound DEF States, Steps, Reasons, None, IsTerminal, RolledBack,
         RollbackForbidden, Backward, Forward, RetryCommitInterval
    <2> QED
      BY <1>2, <2>1 DEF OnPaid
  <1>3. CASE t \notin {"Committed", "Timeout"}
    BY <1>3, StaySound DEF OnPaid, AnyStatus, States, IsTerminal, None, Triggers, Events
  <1> QED
    BY <1>1, <1>2, <1>3 DEF Triggers, Events

LEMMA StockCommittedSound == \A t \in Triggers : Sound("STOCK_COMMITTED", OnStockCommitted(t))
  <1> SUFFICES ASSUME NEW t \in Triggers
               PROVE  Sound("STOCK_COMMITTED", OnStockCommitted(t))
    OBVIOUS
  <1>1. CASE t = "Captured"
    <2>1. Sound("STOCK_COMMITTED", Decide("CONFIRMED", {}, 0))
      BY DecideSound DEF States, Steps, Reasons, None, IsTerminal, RolledBack,
         RollbackForbidden, Backward, Forward, RetryCaptureInterval
    <2> QED
      BY <1>1, <2>1 DEF OnStockCommitted
  <1>2. CASE t = "Timeout"
    <2>1. Sound("STOCK_COMMITTED", Decide("STOCK_COMMITTED", {"CAPTURE"}, RetryCaptureInterval))
      BY DecideSound DEF States, Steps, Reasons, None, IsTerminal, RolledBack,
         RollbackForbidden, Backward, Forward, RetryCaptureInterval
    <2> QED
      BY <1>2, <2>1 DEF OnStockCommitted
  <1>3. CASE t \notin {"Captured", "Timeout"}
    BY <1>3, StaySound DEF OnStockCommitted, AnyStatus, States, IsTerminal, None, Triggers, Events
  <1> QED
    BY <1>1, <1>2, <1>3 DEF Triggers, Events

LEMMA SettleSound == \A c \in Ctx : Sound("COMPENSATING", SettleOrWait(c))
  <1>1. Sound("COMPENSATING", Because(Decide("CANCELLED", {}, 0), "PAYMENT_DECLINED", None))
    BY DecideSound DEF States, Steps, Reasons, None, IsTerminal, RolledBack,
         RollbackForbidden, Backward, Forward
  <1>2. Sound("COMPENSATING", AckOnly("COMPENSATING"))
    BY StaySound DEF AnyStatus, States
  <1> QED
    BY <1>1, <1>2 DEF SettleOrWait

LEMMA CompensatingSound ==
    \A t \in Triggers, c \in Ctx : Sound("COMPENSATING", OnCompensating(t, c))
  <1> SUFFICES ASSUME NEW t \in Triggers, NEW c \in Ctx
               PROVE  Sound("COMPENSATING", OnCompensating(t, c))
    OBVIOUS
  <1>1. CASE t \in {"Released", "ReserveFailed"}
    <2>1. [c EXCEPT !.inventorySettled = TRUE] \in Ctx
      BY DEF Ctx
    <2> QED
      BY <1>1, <2>1, SettleSound DEF OnCompensating
  <1>2. CASE t \in {"Voided", "AuthFailed"}
    <2>1. [c EXCEPT !.paymentSettled = TRUE] \in Ctx
      BY DEF Ctx
    <2> QED
      BY <1>2, <2>1, SettleSound DEF OnCompensating
  <1>3. CASE t = "Authorized" /\ c.authorizeSent
    <2>1. Sound("COMPENSATING", Decide("COMPENSATING", {"VOID"}, TimeoutCompensating))
      BY DecideSound DEF States, Steps, Reasons, None, IsTerminal, RolledBack,
         RollbackForbidden, Backward, Forward, TimeoutCompensating
    <2> QED
      BY <1>3, <2>1 DEF OnCompensating
  <1>4. CASE t = "Timeout"
    <2>1. CompensationsFor(c) \subseteq Backward
      BY DEF CompensationsFor, Compensations, Backward
    <2>2. Sound("COMPENSATING", Decide("COMPENSATING", CompensationsFor(c), TimeoutCompensating))
      BY <2>1, DecideSound DEF States, Steps, Reasons, None, IsTerminal, RolledBack,
         RollbackForbidden, Backward, Forward, TimeoutCompensating
    <2> QED
      BY <1>4, <2>2 DEF OnCompensating
  <1>5. CASE /\ t \notin {"Released", "ReserveFailed", "Voided", "AuthFailed", "Timeout"}
             /\ t = "Authorized" => ~c.authorizeSent
    BY <1>5, StaySound DEF OnCompensating, AnyStatus, States, IsTerminal, None, Ctx, Triggers, Events
  <1> QED
    BY <1>1, <1>2, <1>3, <1>4, <1>5 DEF Triggers, Events, Ctx

\* Every decision of the machine is sound for the state it was made in.
LEMMA MachineSound ==
    \A from \in AnyStatus, t \in Triggers, c \in Ctx : Sound(from, Machine(from, t, c))
  BY PendingSound, StockReservedSound, PaidSound, StockCommittedSound, CompensatingSound, StaySound
     DEF Machine, AnyStatus, States, None
-----------------------------------------------------------------------------
(* Types.                                                                  *)

\* The row writes return rows.
LEMMA RowsTyped ==
    ASSUME NEW rows \in [Steps -> Rows], NEW set, NEW deadline \in Nat
    PROVE  /\ RecordStepSent(rows, set, deadline) \in [Steps -> Rows]
           /\ RecordStepAcked(rows, set) \in [Steps -> Rows]
  BY DEF RecordStepSent, RecordStepAcked, Rows

\* emitCommand writes typed rows and commands.
LEMMA EmitTyped ==
    ASSUME NEW rows \in [Steps -> Rows], NEW emit \in SUBSET Steps, NEW deadline \in Nat,
           commands \subseteq Commands, EmitCommands(rows, emit, deadline)
    PROVE  steps' \in [Steps -> Rows] /\ commands' \subseteq Commands
  <1> DEFINE sent == RecordStepSent(rows, emit, deadline)
  <1>1. sent \in [Steps -> Rows]
    BY RowsTyped
  <1>2. steps' = sent /\ commands' = commands \cup {[step |-> s, n |-> sent[s].attempts] : s \in emit}
    BY DEF EmitCommands
  <1> HIDE DEF sent
  <1> QED
    BY <1>1, <1>2 DEF Commands, Rows

\* A reason that is picked is one of those it is picked from.
LEMMA PickTyped ==
    ASSUME NEW x \in Reasons \cup {None}, NEW y \in Reasons \cup {None}, NEW z \in Reasons \cup {None}
    PROVE  /\ PickReason(x, y, z) \in Reasons \cup {None}
           /\ x # None => PickReason(x, y, z) # None
  BY DEF PickReason

\* The writes of a decision are typed.
LEMMA ApplyTyped ==
    ASSUME TypeOK, NEW a \in Actors, NEW t \in Triggers, NEW d,
           Sound(tx[a].order.status, d), Apply(a, t, d)
    PROVE  /\ order' \in Orders
           /\ steps' \in [Steps -> Rows]
           /\ commands' \subseteq Commands
           /\ published' \in Seq(Published)
  <1> DEFINE snapshot == tx[a].order
             acked == RecordStepAcked(steps, StepAckedBy(t))
             reason == IF d.next = "CANCELLED"
                       THEN PickReason(d.reason, ReasonOf(t), snapshot.reason) ELSE None
             plain == d.ackOnly /\ d.next = snapshot.status /\ d.emit = {}
  <1>1. /\ order \in Orders /\ steps \in [Steps -> Rows] /\ commands \subseteq Commands
        /\ published \in Seq(Published) /\ snapshot \in Orders
    BY DEF TypeOK, Txs
  <1>2. acked \in [Steps -> Rows]
    BY <1>1, RowsTyped
  <1>3. d \in AnyDecision /\ (d.next # snapshot.status => d.next # None)
    BY DEF Sound
  <1>4. reason \in Reasons \cup {None}
    <2>1. ReasonOf(t) \in Reasons \cup {None}
      BY DEF ReasonOf, Reasons
    <2>2. d.reason \in Reasons \cup {None} /\ snapshot.reason \in Reasons \cup {None}
      BY <1>1, <1>3 DEF AnyDecision, Orders
    <2> QED
      BY <2>1, <2>2, PickTyped
  <1>5. CASE plain
    <2>1. steps' = acked /\ order' = order /\ commands' = commands /\ published' = published
      BY <1>5 DEF Apply
    <2> QED
      BY <2>1, <1>1, <1>2
  <1>6. CASE ~plain
    <2>1. /\ \/ order' = order
             \/ UpdateStatus(d.next, reason, d.failedStep)
          /\ EmitCommands(acked, d.emit, d.deadline)
          /\ published' = published \o StateEvents(d, snapshot)
      BY <1>6 DEF Apply
    <2>2. order' \in Orders
      BY <2>1, <1>1, <1>3, <1>4 DEF UpdateStatus, Orders, AnyDecision, AnyStatus
    <2>3. steps' \in [Steps -> Rows] /\ commands' \subseteq Commands
      BY <2>1, <1>1, <1>2, <1>3, EmitTyped DEF AnyDecision
    <2>4. StateEvents(d, snapshot) \in Seq(Published)
      <3>1. PickReason(d.reason, None, snapshot.reason) \in Reasons \cup {None}
        BY <1>1, <1>3, PickTyped DEF AnyDecision, Orders
      <3> DEFINE told == [type |-> "cancelled", reason |-> PickReason(d.reason, None, snapshot.reason)]
                 done == [type |-> "confirmed", reason |-> None]
      <3>2. told \in Published /\ done \in Published
        BY <3>1 DEF Published
      <3>3. StateEvents(d, snapshot) \in {<<>>, <<told>>, <<done>>}
        BY DEF StateEvents
      <3> HIDE DEF told, done
      <3>4. <<>> \in Seq(Published) /\ <<told>> \in Seq(Published) /\ <<done>> \in Seq(Published)
        BY <3>2
      <3> QED
        BY <3>3, <3>4
    <2> QED
      BY <2>1, <2>2, <2>3, <2>4, <1>1
  <1> QED
    BY <1>5, <1>6

\* Reading fills a typed transaction.
LEMMA ReadTyped ==
    ASSUME TypeOK, NEW a \in Actors, NEW kind \in {"handle", "sweep", "cancel"},
           NEW e \in EventMsgs \cup {NoEvent}, NEW s \in Steps \cup {None}, Read(a, kind, e, s)
    PROVE  TypeOK'
  <1>1. BuildCtx(e.retriable) \in Ctx
    <2>1. e.retriable \in BOOLEAN
      <3>1. CASE e \in EventMsgs
        BY <3>1 DEF EventMsgs
      <3>2. NoEvent.retriable = FALSE
        BY DEF NoEvent
      <3> QED
        BY <3>1, <3>2
    <2> DEFINE x == steps["AUTHORIZE"].state # "NONE"
               y == steps["RELEASE"].state = "ACKED"
               z == steps["VOID"].state = "ACKED"
    <2>2. x \in BOOLEAN /\ y \in BOOLEAN /\ z \in BOOLEAN
      OBVIOUS
    <2>3. BuildCtx(e.retriable) = [authorizeSent |-> x, inventorySettled |-> y,
                                   paymentSettled |-> z, retriable |-> e.retriable]
      BY Zenon DEF BuildCtx
    <2> HIDE DEF x, y, z
    <2> QED
      BY <2>1, <2>2, <2>3 DEF Ctx
  <1>2. (IF s = None THEN 0 ELSE steps[s].attempts) \in Nat
    BY DEF TypeOK, Rows
  <1>3. tx' \in [Actors -> Txs]
    BY <1>1, <1>2 DEF Read, TypeOK, Txs
  <1> QED
    BY <1>3 DEF Read, TypeOK

LEMMA CloseTyped ==
    ASSUME TypeOK, NEW a \in Actors, Close(a)
    PROVE  tx' \in [Actors -> Txs]
  <1>1. Idle \in Txs
    BY DEF Idle, Txs, NoEvent, NoOrder, Orders, Ctx, None
  <1> QED
    BY <1>1 DEF Close, TypeOK

LEMMA AnswersTyped ==
    ASSUME NEW c \in Commands
    PROVE  AnswersTo(c) \subseteq EventMsgs
  <1>1. \A t \in Events, b \in BOOLEAN : [type |-> t, n |-> c.n, retriable |-> b] \in EventMsgs
    BY DEF EventMsgs, Commands
  <1>2. c.step \in Steps
    BY DEF Commands
  <1>3. CASE c.step = "AUTHORIZE"
    <2>1. \A e \in AnswersTo(c) : \/ e = [type |-> "Authorized", n |-> c.n, retriable |-> FALSE]
                                  \/ e = [type |-> "AuthFailed", n |-> c.n, retriable |-> FALSE]
                                  \/ e = [type |-> "AuthFailed", n |-> c.n, retriable |-> TRUE]
      BY <1>3 DEF AnswersTo, Event
    <2> QED
      BY <1>1, <2>1 DEF Events
  <1>4. CASE c.step = "RESERVE"
    BY <1>1, <1>4 DEF AnswersTo, Event, Events
  <1>5. CASE c.step \in {"COMMIT", "CAPTURE", "RELEASE", "VOID"}
    BY <1>1, <1>5 DEF AnswersTo, Event, Events
  <1> QED
    BY <1>2, <1>3, <1>4, <1>5 DEF Steps

\* The invariants of an open transaction's decision.
LEMMA DecisionSound ==
    ASSUME TypeOK, NEW a \in Actors, NEW t \in Triggers
    PROVE  Sound(tx[a].order.status, Machine(tx[a].order.status, t, tx[a].ctx))
  BY MachineSound DEF TypeOK, Txs, Orders, AnyStatus

\* A consumer's transaction is about an event, so that is what it claims or parks.
HandlesEvent == \A a \in Actors : tx[a].kind = "handle" => tx[a].event \in EventMsgs

TypeInv == TypeOK /\ HandlesEvent

LEMMA ReadInv ==
    ASSUME TypeInv, NEW a \in Actors, NEW kind \in {"handle", "sweep", "cancel"},
           NEW e \in EventMsgs \cup {NoEvent}, kind = "handle" => e \in EventMsgs,
           NEW s \in Steps \cup {None}, Read(a, kind, e, s)
    PROVE  TypeInv'
  <1>1. TypeOK'
    BY ReadTyped DEF TypeInv
  <1>2. HandlesEvent'
    BY DEF TypeInv, TypeOK, HandlesEvent, Read
  <1> QED
    BY <1>1, <1>2 DEF TypeInv

LEMMA CloseInv ==
    ASSUME TypeInv, NEW a \in Actors, Close(a)
    PROVE  tx' \in [Actors -> Txs] /\ HandlesEvent'
  BY CloseTyped DEF TypeInv, TypeOK, HandlesEvent, Close, Idle

\* Every step keeps the types, and what an open transaction is about.
LEMMA TypeStep == TypeInv /\ [Next]_vars => TypeInv'
  <1> SUFFICES ASSUME TypeInv, [Next]_vars PROVE TypeInv'
    OBVIOUS
  <1>0. /\ TypeOK
        /\ Consumers \subseteq Actors /\ "sweeper" \in Actors /\ "api" \in Actors
        /\ \A a \in Actors : tx[a].event.type \in Triggers
    BY DEF TypeInv, TypeOK, Actors, Txs, EventMsgs, NoEvent, Triggers
  <1>1. CASE PlaceOrder
    <2>1. Start.emit \in SUBSET Steps /\ Start.deadline \in Nat /\ Start.next \in States
      BY DEF Start, Decide, Steps, States, TimeoutPending
    <2>2. steps' \in [Steps -> Rows] /\ commands' \subseteq Commands
      BY <1>0, <1>1, <2>1, EmitTyped DEF PlaceOrder, TypeOK
    <2>3. order' \in Orders
      BY <1>1, <2>1 DEF PlaceOrder, NoOrder, Orders, None
    <2>4. published' \in Seq(Published)
      BY <1>0, <1>1 DEF PlaceOrder, TypeOK, Published
    <2> QED
      BY <1>1, <2>2, <2>3, <2>4 DEF PlaceOrder, TypeInv, TypeOK, HandlesEvent
  <1>2. ASSUME NEW a \in Consumers, NEW e \in events, HandleBegin(a, e) PROVE TypeInv'
    BY <1>0, <1>2, ReadInv DEF HandleBegin, TypeOK
  <1>3. ASSUME NEW a \in Consumers, HandleCommit(a) PROVE TypeInv'
    <2>1. tx[a].event \in EventMsgs
      BY <1>0, <1>3 DEF HandleCommit, TypeInv, HandlesEvent
    <2>2. /\ order' \in Orders /\ steps' \in [Steps -> Rows]
          /\ commands' \subseteq Commands /\ published' \in Seq(Published)
      BY <1>0, <1>3, DecisionSound, ApplyTyped DEF HandleCommit, HandleDecision
    <2> QED
      BY <1>0, <1>3, <2>1, <2>2, CloseInv DEF HandleCommit, TypeInv, TypeOK
  <1>4. ASSUME NEW a \in Consumers, HandleIllegal(a) \/ Exhausted(a) PROVE TypeInv'
    <2>1. tx[a].event \in EventMsgs
      BY <1>0, <1>4 DEF HandleIllegal, Exhausted, TypeInv, HandlesEvent
    <2>2. faults' \in 0 .. MaxFaults
      BY <1>0, <1>4, OrderSagaAssumption DEF HandleIllegal, Exhausted, TypeOK
    <2> QED
      BY <1>0, <1>4, <2>1, <2>2, CloseInv DEF HandleIllegal, Exhausted, TypeInv, TypeOK
  <1>5. ASSUME NEW a \in Actors, Stale(a) \/ Crash(a) PROVE TypeInv'
    <2>1. faults' \in 0 .. MaxFaults
      BY <1>0, <1>5, OrderSagaAssumption DEF Stale, Crash, TypeOK
    <2> QED
      BY <1>0, <1>5, <2>1, CloseInv DEF Stale, Crash, TypeInv, TypeOK
  <1>6. ASSUME NEW s \in Steps, SweepBegin(s) PROVE TypeInv'
    BY <1>0, <1>6, ReadInv DEF SweepBegin
  <1>7. CASE SweepCommit
    <2>1. /\ order' \in Orders /\ steps' \in [Steps -> Rows]
          /\ commands' \subseteq Commands /\ published' \in Seq(Published)
      <3> DEFINE d == Machine(tx["sweeper"].order.status, "Timeout", tx["sweeper"].ctx)
      <3>1. UNCHANGED <<order, steps, commands, published>> \/ Apply("sweeper", "Timeout", d)
        BY <1>7 DEF SweepCommit
      <3>2. Sound(tx["sweeper"].order.status, d)
        BY <1>0, DecisionSound DEF Triggers
      <3> HIDE DEF d
      <3>3. CASE Apply("sweeper", "Timeout", d)
        BY <1>0, <3>2, <3>3, ApplyTyped DEF Triggers
      <3> QED
        BY <1>0, <3>1, <3>3 DEF TypeOK
    <2> QED
      BY <1>0, <1>7, <2>1, CloseInv DEF SweepCommit, TypeInv, TypeOK
  <1>8. CASE CancelBegin
    BY <1>0, <1>8, ReadInv DEF CancelBegin
  <1>9. CASE CancelCommit
    <2> DEFINE emit == {"RELEASE"} \cup IF tx["api"].ctx.authorizeSent THEN {"VOID"} ELSE {}
    <2>1. /\ EmitCommands(steps, emit, TimeoutCompensating)
          /\ UpdateStatus("COMPENSATING", "CUSTOMER_CANCELLED", None)
      BY <1>9 DEF CancelCommit
    <2>2. emit \in SUBSET Steps /\ TimeoutCompensating \in Nat
      BY DEF Steps, TimeoutCompensating
    <2> HIDE DEF emit
    <2>3. steps' \in [Steps -> Rows] /\ commands' \subseteq Commands
      BY <1>0, <2>1, <2>2, EmitTyped DEF TypeOK
    <2>4. order' \in Orders
      BY <1>0, <2>1 DEF TypeOK, UpdateStatus, Orders, States, Reasons, None
    <2> QED
      BY <1>0, <1>9, <2>3, <2>4, CloseInv DEF CancelCommit, TypeInv, TypeOK
  <1>10. CASE \E c \in commands : Answer(c)
    <2>1. PICK c \in commands : Answer(c)
      BY <1>10
    <2>2. events' \subseteq EventMsgs
      BY <1>0, <2>1, AnswersTyped DEF Answer, Publish, TypeOK
    <2> QED
      BY <1>0, <2>1, <2>2 DEF Answer, Publish, orderVars, TypeInv, TypeOK, HandlesEvent
  <1>13. CASE \E c \in commands : PaidAfterFailure(c)
    <2>1. PICK c \in commands : PaidAfterFailure(c)
      BY <1>13
    <2>2. events' \subseteq EventMsgs
      <3>1. PICK e \in AnswersTo(c) \cap events : e.type = "AuthFailed"
        BY <2>1 DEF PaidAfterFailure
      <3>2. Event("Authorized", c.n) \in EventMsgs
        BY <1>0, <3>1, <2>1 DEF TypeOK, Commands, Event, EventMsgs, Events
      <3> QED
        BY <1>0, <2>1, <3>2 DEF PaidAfterFailure, Publish, TypeOK
    <2> QED
      BY <1>0, <2>1, <2>2 DEF PaidAfterFailure, Publish, orderVars, TypeInv, TypeOK, HandlesEvent
  <1>11. CASE ReservationExpires
    <2>1. Event("Released", 0) \in EventMsgs
      BY DEF Event, EventMsgs, Events
    <2> QED
      BY <1>0, <1>11, <2>1 DEF ReservationExpires, Publish, orderVars, TypeInv, TypeOK, HandlesEvent
  <1>12. CASE UNCHANGED vars
    BY <1>12 DEF vars, orderVars, TypeInv, TypeOK, HandlesEvent
  <1> QED
    BY <1>1, <1>2, <1>3, <1>4, <1>5, <1>6, <1>7, <1>8, <1>9, <1>10, <1>11, <1>12, <1>13 DEF Next

LEMMA TypeInit == Init => TypeInv
  BY OrderSagaAssumption DEF Init, TypeInv, TypeOK, HandlesEvent, NoOrder, Orders, NoRow, Rows,
     Idle, Txs, NoEvent, Ctx, None

\* Type correctness: the rows, messages and open transactions stay well formed
\* whatever the actors do.
THEOREM TypeCorrect == Spec => []TypeOK
  <1>1. TypeInv => TypeOK
    BY DEF TypeInv
  <1> QED
    BY <1>1, TypeInit, TypeStep, PTL DEF Spec
-----------------------------------------------------------------------------
(* Safety.  The status moves along the edges of the machine, and an open   *)
(* transaction that still has the current version has the current status.  *)

\* Before the order is placed nothing has happened.
Unplaced ==
    order.status = None =>
        events = {} /\ commands = {} /\ \A a \in Actors : tx[a].kind = "idle"

\* What a snapshot still says about the order when its transaction commits.
SnapshotOK(t) ==
    /\ t.order.version <= order.version
    /\ t.order.version = order.version => t.order.status = order.status
    /\ RolledBack(t.order.status) => RolledBack(order.status)
    /\ RollbackForbidden(t.order.status) => RollbackForbidden(order.status)
    /\ t.kind = "cancel" => Cancellable(t.order.status)

Snapshots == \A a \in Actors : tx[a].kind # "idle" => SnapshotOK(tx[a])

\* A command was emitted only on the side of the point of no return it belongs to.
Placed(c) ==
    /\ c.step \in Backward => RolledBack(order.status)
    /\ c.step \in Forward => RollbackForbidden(order.status)

AllPlaced == \A c \in commands : Placed(c)

SagaInv == TypeInv /\ Unplaced /\ Snapshots /\ AllPlaced /\ CancelledHasReason

\* What a step may do to the order row.
Move ==
    \/ order' = order
    \/ /\ order'.version = order.version + 1
       /\ order.status # None /\ order'.status # None
       /\ ~IsTerminal(order.status)
       /\ RolledBack(order.status) => RolledBack(order'.status)
       /\ RollbackForbidden(order.status) => RollbackForbidden(order'.status)
       /\ order'.status = "CANCELLED" => order'.reason # None

\* ... and to the commands.
NewPlaced == \A c \in commands' \ commands : Placed(c)'

\* The writes of a sound decision move the order and place its commands.
LEMMA ApplyMoves ==
    ASSUME SagaInv, NEW a \in Actors, tx[a].kind # "idle", NEW t \in Triggers, NEW d,
           Sound(tx[a].order.status, d), Apply(a, t, d)
    PROVE  Move /\ NewPlaced
  <1> DEFINE snapshot == tx[a].order
             acked == RecordStepAcked(steps, StepAckedBy(t))
             plain == d.ackOnly /\ d.next = snapshot.status /\ d.emit = {}
             reason == PickReason(d.reason, ReasonOf(t), snapshot.reason)
  <1>1. SnapshotOK(tx[a]) /\ order.status # None
    BY DEF SagaInv, Snapshots, Unplaced
  <1>2. order \in Orders /\ snapshot \in Orders /\ d \in AnyDecision
    BY DEF SagaInv, TypeInv, TypeOK, Txs, Sound
  <1>3. CASE plain
    BY <1>3 DEF Apply, Move, NewPlaced
  <1>4. CASE ~plain
    <2>1. /\ IF d.next = snapshot.status
             THEN order' = order
             ELSE /\ ~VersionStale(snapshot)
                  /\ UpdateStatus(d.next, IF d.next = "CANCELLED" THEN reason ELSE None, d.failedStep)
          /\ EmitCommands(acked, d.emit, d.deadline)
      BY <1>4 DEF Apply
    <2>2. ~IsTerminal(snapshot.status) /\ snapshot.status # None
      BY <1>4, <1>2 DEF Sound, AckOnly, Decide
    <2>3. \A c \in commands' \ commands : c.step \in d.emit
      BY <2>1 DEF EmitCommands
    <2>4. CASE d.next = snapshot.status
      <3>1. order' = order
        BY <2>1, <2>4
      <3>2. RolledBack(d.next) => RolledBack(order'.status)
        BY <1>1, <2>4, <3>1 DEF SnapshotOK
      <3>3. RollbackForbidden(d.next) => RollbackForbidden(order'.status)
        BY <1>1, <2>4, <3>1 DEF SnapshotOK
      <3>4. NewPlaced
        BY <2>3, <3>2, <3>3 DEF Sound, NewPlaced, Placed, RolledBack
      <3> QED
        BY <3>1, <3>4 DEF Move
    <2>5. CASE d.next # snapshot.status
      <3>1. /\ ~VersionStale(snapshot)
            /\ UpdateStatus(d.next, IF d.next = "CANCELLED" THEN reason ELSE None, d.failedStep)
        BY <2>1, <2>5
      <3>2. order.status = snapshot.status
        BY <1>1, <3>1 DEF SnapshotOK, VersionStale
      <3>3. order'.status = d.next /\ order'.version = order.version + 1
        BY <3>1 DEF UpdateStatus
      <3>4. order'.status = "CANCELLED" => order'.reason # None
        <4>1. ASSUME d.next = "CANCELLED" PROVE reason \in Reasons \cup {None} /\ reason # None
          <5>1. d.reason \in Reasons \cup {None} /\ d.reason # None
            BY <4>1, <1>2, <2>5 DEF Sound, AnyDecision
          <5>2. ReasonOf(t) \in Reasons \cup {None} /\ snapshot.reason \in Reasons \cup {None}
            BY <1>2 DEF ReasonOf, Reasons, Orders
          <5> QED
            BY <5>1, <5>2, PickTyped
        <4> HIDE DEF reason
        <4> QED
          BY <4>1, <3>1, <3>3 DEF UpdateStatus
      <3>5. Move
        BY <1>1, <2>2, <2>5, <3>2, <3>3, <3>4 DEF Move, Sound
      <3>6. NewPlaced
        BY <2>3, <3>3 DEF Sound, NewPlaced, Placed, RolledBack
      <3> QED
        BY <3>5, <3>6
    <2> QED
      BY <2>4, <2>5
  <1> QED
    BY <1>3, <1>4

\* A move with well-placed commands that at most closes transactions keeps the
\* invariant.
LEMMA MoveKeeps ==
    ASSUME SagaInv, TypeInv', order.status # None, Move, NewPlaced,
           \A a \in Actors : tx'[a] = tx[a] \/ tx'[a].kind = "idle"
    PROVE  SagaInv'
  <1>1. order \in Orders /\ order' \in Orders /\ \A a \in Actors : tx[a].order \in Orders
    BY DEF SagaInv, TypeInv, TypeOK, Txs
  <1>2. /\ order'.status # None
        /\ RolledBack(order.status) => RolledBack(order'.status)
        /\ RollbackForbidden(order.status) => RollbackForbidden(order'.status)
    BY DEF Move
  <1>3. Unplaced'
    BY <1>2 DEF Unplaced
  <1>4. Snapshots'
    <2> SUFFICES ASSUME NEW a \in Actors, tx'[a].kind # "idle"
                 PROVE  SnapshotOK(tx[a])'
      BY DEF Snapshots
    <2>1. tx'[a] = tx[a] /\ SnapshotOK(tx[a])
      BY DEF SagaInv, Snapshots
    <2>2. /\ tx[a].order.version <= order'.version
          /\ tx[a].order.version = order'.version => order' = order
      BY <1>1, <2>1 DEF Move, SnapshotOK, Orders
    <2> QED
      BY <1>2, <2>1, <2>2 DEF SnapshotOK
  <1>5. AllPlaced'
    BY <1>2 DEF SagaInv, AllPlaced, NewPlaced, Placed
  <1>6. CancelledHasReason'
    BY DEF SagaInv, CancelledHasReason, Move
  <1> QED
    BY <1>3, <1>4, <1>5, <1>6 DEF SagaInv

\* A transaction that has just read agrees with the order.
LEMMA ReadKeeps ==
    ASSUME SagaInv, TypeInv', order.status # None,
           NEW a \in Actors, NEW kind, NEW e, NEW s, Read(a, kind, e, s),
           kind = "cancel" => Cancellable(order.status)
    PROVE  SagaInv'
  <1>1. UNCHANGED <<order, commands, events>>
    BY DEF Read
  <1>2. tx'[a].order = order /\ tx'[a].kind = kind /\ \A b \in Actors : b # a => tx'[b] = tx[b]
    BY DEF Read, SagaInv, TypeInv, TypeOK
  <1>3. Snapshots'
    <2>1. order.version \in Nat
      BY DEF SagaInv, TypeInv, TypeOK, Orders
    <2> QED
      BY <1>1, <1>2, <2>1 DEF SagaInv, Snapshots, SnapshotOK
  <1> QED
    BY <1>1, <1>3 DEF SagaInv, Unplaced, AllPlaced, Placed, CancelledHasReason

\* Every step except PlaceOrder moves the order, if at all, along the machine.
LEMMA StepMoves ==
    ASSUME SagaInv, [Next]_vars
    PROVE  PlaceOrder \/ (Move /\ NewPlaced)
  <1>0. /\ Consumers \subseteq Actors /\ "sweeper" \in Actors /\ "api" \in Actors
        /\ TypeOK /\ \A a \in Actors : tx[a].event.type \in Triggers
    BY DEF SagaInv, TypeInv, TypeOK, Actors, Txs, EventMsgs, NoEvent, Triggers
  <1>1. ASSUME UNCHANGED <<order, commands>> PROVE Move /\ NewPlaced
    BY <1>1 DEF Move, NewPlaced
  <1>2. ASSUME NEW a \in Consumers, HandleCommit(a) PROVE Move /\ NewPlaced
    <2>1. Sound(tx[a].order.status, HandleDecision(a))
      BY <1>0, DecisionSound DEF HandleDecision
    <2> QED
      BY <1>0, <1>2, <2>1, ApplyMoves DEF HandleCommit
  <1>3. CASE SweepCommit
    <2> DEFINE d == Machine(tx["sweeper"].order.status, "Timeout", tx["sweeper"].ctx)
    <2>1. /\ tx["sweeper"].kind = "sweep"
          /\ UNCHANGED <<order, commands>> \/ Apply("sweeper", "Timeout", d)
      BY <1>3 DEF SweepCommit
    <2>2. Sound(tx["sweeper"].order.status, d)
      BY <1>0, DecisionSound DEF Triggers
    <2> HIDE DEF d
    <2>3. CASE Apply("sweeper", "Timeout", d)
      BY <1>0, <2>1, <2>2, <2>3, ApplyMoves DEF Triggers
    <2> QED
      BY <1>1, <2>1, <2>3
  <1>4. CASE CancelCommit
    <2> DEFINE emit == {"RELEASE"} \cup IF tx["api"].ctx.authorizeSent THEN {"VOID"} ELSE {}
    <2>1. /\ tx["api"].kind = "cancel" /\ ~VersionStale(tx["api"].order)
          /\ UpdateStatus("COMPENSATING", "CUSTOMER_CANCELLED", None)
          /\ EmitCommands(steps, emit, TimeoutCompensating)
      BY <1>4 DEF CancelCommit
    <2>2. SnapshotOK(tx["api"])
      BY <1>0, <2>1 DEF SagaInv, Snapshots
    <2>3. Cancellable(order.status)
      BY <2>1, <2>2 DEF SnapshotOK, VersionStale
    <2>4. order'.status = "COMPENSATING" /\ order'.version = order.version + 1
      BY <2>1 DEF UpdateStatus
    <2>5. Move
      BY <2>3, <2>4 DEF Move, Cancellable, IsTerminal, RolledBack, RollbackForbidden, None
    <2>6. \A c \in commands' \ commands : c.step \in emit
      BY <2>1 DEF EmitCommands
    <2>7. NewPlaced
      BY <2>4, <2>6 DEF NewPlaced, Placed, RolledBack, Forward
    <2> QED
      BY <2>5, <2>7
  <1> QED
    BY <1>1, <1>2, <1>3, <1>4 DEF Next, HandleBegin, Read, HandleIllegal, Exhausted, Stale, Crash,
       SweepBegin, CancelBegin, Answer, PaidAfterFailure, Publish, ReservationExpires, vars, orderVars

\* The invariant is inductive.
LEMMA SagaStep == SagaInv /\ [Next]_vars => SagaInv'
  <1> SUFFICES ASSUME SagaInv, [Next]_vars PROVE SagaInv'
    OBVIOUS
  <1>0. /\ TypeInv /\ TypeInv' /\ TypeOK
        /\ Consumers \subseteq Actors /\ "sweeper" \in Actors /\ "api" \in Actors
    BY TypeStep DEF SagaInv, TypeInv, Actors
  <1>1. CASE PlaceOrder
    <2>1. order.status = None /\ commands = {} /\ \A a \in Actors : tx[a].kind = "idle"
      BY <1>1 DEF PlaceOrder, SagaInv, Unplaced
    <2>2. order'.status = "PENDING" /\ tx' = tx
      BY <1>1 DEF PlaceOrder, NoOrder, Start, Decide
    <2>3. \A c \in commands' : c.step = "RESERVE"
      BY <1>1, <2>1 DEF PlaceOrder, EmitCommands, Start, Decide
    <2> QED
      BY <1>0, <2>1, <2>2, <2>3
         DEF SagaInv, Unplaced, Snapshots, AllPlaced, Placed, CancelledHasReason, Backward, Forward, None
  <1>2. CASE order.status = None /\ ~PlaceOrder
    <2>1. events = {} /\ commands = {} /\ \A a \in Actors : tx[a].kind = "idle"
      BY <1>2 DEF SagaInv, Unplaced
    <2>2. UNCHANGED vars
      BY <1>0, <1>2, <2>1 DEF Next, HandleCommit, HandleIllegal, Exhausted, Stale, Crash, SweepBegin,
         Overdue, SweepCommit, CancelBegin, Cancellable, CancelCommit, ReservationExpires, None
    <2> QED
      BY <1>0, <2>2 DEF vars, orderVars, SagaInv, Unplaced, Snapshots, SnapshotOK, AllPlaced, Placed,
         CancelledHasReason
  <1>3. CASE order.status # None /\ ~PlaceOrder
    <2>1. Move /\ NewPlaced
      BY <1>3, StepMoves
    <2>2. ASSUME NEW a \in Consumers, NEW e \in events, HandleBegin(a, e) PROVE SagaInv'
      BY <1>0, <1>3, <2>2, ReadKeeps DEF HandleBegin
    <2>3. ASSUME NEW s \in Steps, SweepBegin(s) PROVE SagaInv'
      BY <1>0, <1>3, <2>3, ReadKeeps DEF SweepBegin
    <2>4. CASE CancelBegin
      BY <1>0, <1>3, <2>4, ReadKeeps DEF CancelBegin
    <2>5. ASSUME NEW a \in Actors, Close(a) PROVE SagaInv'
      <3>1. \A b \in Actors : tx'[b] = tx[b] \/ tx'[b].kind = "idle"
        BY <1>0, <2>5 DEF Close, Idle, TypeOK
      <3> QED
        BY <1>0, <1>3, <2>1, <3>1, MoveKeeps
    <2>6. ASSUME tx' = tx PROVE SagaInv'
      BY <1>0, <1>3, <2>1, <2>6, MoveKeeps
    <2> QED
      BY <1>0, <1>3, <2>2, <2>3, <2>4, <2>5, <2>6 DEF Next, HandleCommit, HandleIllegal, Exhausted,
         Stale, Crash, SweepCommit, CancelCommit, Answer, PaidAfterFailure, Publish, ReservationExpires, vars, orderVars
  <1> QED
    BY <1>1, <1>2, <1>3

LEMMA SagaInit == Init => SagaInv
  <1>1. Init => TypeInv
    BY TypeInit
  <1> QED
    BY <1>1 DEF Init, SagaInv, Unplaced, Snapshots, AllPlaced, CancelledHasReason, Idle, NoOrder, None

LEMMA SagaInvariant == Spec => []SagaInv
  BY SagaInit, SagaStep, PTL DEF Spec

\* Once the order is PAID or beyond no Release and no Void was ever emitted, and
\* once it is being rolled back no Commit and no Capture, for any number of
\* consumers, resends and faults: commitment and compensation exclude each other.
THEOREM PointOfNoReturn == Spec => [](NoRollbackPastCommit /\ NoCommitWhenCompensating)
  <1>1. SagaInv => NoRollbackPastCommit /\ NoCommitWhenCompensating
    BY DEF SagaInv, AllPlaced, Placed, NoRollbackPastCommit, NoCommitWhenCompensating, Emitted,
       Backward, Forward, RolledBack, RollbackForbidden
  <1> QED
    BY <1>1, SagaInvariant, PTL

\* A cancelled order has a reason: the CHECK constraint never rejects a commit.
THEOREM CancellationHasReason == Spec => []CancelledHasReason
  <1>1. SagaInv => CancelledHasReason
    BY DEF SagaInv
  <1> QED
    BY <1>1, SagaInvariant, PTL

\* A confirmed or cancelled order is never written again.
THEOREM TerminalStability == Spec => TerminalIsStable
  <1>1. SagaInv /\ [Next]_vars => [IsTerminal(order.status) => order' = order]_vars
    BY StepMoves DEF PlaceOrder, Move, IsTerminal, None
  <1> QED
    BY <1>1, SagaInvariant, PTL DEF Spec, TerminalIsStable

\* Compensation leads to CANCELLED only, commitment to CONFIRMED only.
THEOREM NoWayBack == Spec => ForwardOrBack
  <1>1. SagaInv /\ [Next]_vars =>
          [ /\ order.status = "COMPENSATING" => order'.status \in {"COMPENSATING", "CANCELLED"}
            /\ RollbackForbidden(order.status) => RollbackForbidden(order'.status) ]_vars
    BY StepMoves DEF PlaceOrder, Move, RolledBack, RollbackForbidden, None
  <1> QED
    BY <1>1, SagaInvariant, PTL DEF Spec, ForwardOrBack
-----------------------------------------------------------------------------
(* Cancellation is settled.                                                *)

\* The machine cancels only what is settled, counting the event t it decides
\* on, and authorizes only on leaving PENDING.
Settles(from, t, c, d) ==
    /\ d.next = "CANCELLED" /\ from # "CANCELLED" =>
          /\ t # "Timeout" /\ d.emit = {}
          /\ t \in {"Released", "ReserveFailed"} \/ c.inventorySettled
          /\ from = "PENDING" \/ t \in {"Voided", "AuthFailed"} \/ c.paymentSettled \/ ~c.authorizeSent
    /\ "AUTHORIZE" \in d.emit => from = "PENDING" /\ d.next = "STOCK_RESERVED"
    /\ d.next = "PENDING" => from = "PENDING"

LEMMA MachineSettles ==
    \A from \in AnyStatus, t \in Triggers, c \in Ctx : Settles(from, t, c, Machine(from, t, c))
  <1> SUFFICES ASSUME NEW from \in AnyStatus, NEW t \in Triggers, NEW c \in Ctx
               PROVE  Settles(from, t, c, Machine(from, t, c))
    OBVIOUS
  <1>1. ASSUME from # "CANCELLED" PROVE Settles(from, t, c, AckOnly(from)) /\ Settles(from, t, c, Illegal(from))
    BY <1>1 DEF Settles, AckOnly, Illegal, Decide
  <1>2. Settles("CANCELLED", t, c, AckOnly("CANCELLED"))
    BY DEF Settles, AckOnly, Decide
  <1>3. ASSUME NEW next \in States \ {"CANCELLED", "PENDING"}, NEW emit, NEW deadline, NEW reason, NEW step,
               "AUTHORIZE" \notin emit
        PROVE  /\ Settles(from, t, c, Decide(next, emit, deadline))
               /\ Settles(from, t, c, Because(Decide(next, emit, deadline), reason, step))
    BY <1>3 DEF Settles, Decide, Because
  <1>4. CASE from = "PENDING"
    <2>1. CASE t = "Reserved"
      BY <1>4, <2>1 DEF Settles, Machine, OnPending, Decide
    <2>2. CASE t = "ReserveFailed"
      BY <1>4, <2>2 DEF Settles, Machine, OnPending, Decide, Because
    <2>3. CASE t \notin {"Reserved", "ReserveFailed"}
      BY <1>1, <1>3, <1>4, <2>3 DEF Machine, OnPending, States
    <2> QED
      BY <2>1, <2>2, <2>3
  <1>5. CASE from = "STOCK_RESERVED"
    <2>1. Machine(from, t, c) = OnStockReserved(t, c)
      BY <1>5 DEF Machine
    <2>2. CASE t \in {"Authorized", "Timeout"}
      BY <1>3, <1>5, <2>1, <2>2 DEF OnStockReserved, States
    <2>3. CASE t = "AuthFailed"
      BY <1>1, <1>3, <1>5, <2>1, <2>3 DEF OnStockReserved, States, Ctx
    <2>4. CASE t \notin {"Authorized", "Timeout", "AuthFailed"}
      BY <1>1, <1>5, <2>1, <2>4 DEF OnStockReserved
    <2> QED
      BY <2>2, <2>3, <2>4
  <1>6. CASE from = "PAID"
    BY <1>1, <1>3, <1>6 DEF Machine, OnPaid, States
  <1>7. CASE from = "STOCK_COMMITTED"
    BY <1>1, <1>3, <1>7 DEF Machine, OnStockCommitted, States
  <1>8. CASE from = "COMPENSATING"
    <2>1. Machine(from, t, c) = OnCompensating(t, c)
      BY <1>8 DEF Machine
    <2>2. CASE t \in {"Released", "ReserveFailed"}
      <3>1. /\ OnCompensating(t, c) = SettleOrWait([c EXCEPT !.inventorySettled = TRUE])
            /\ [c EXCEPT !.inventorySettled = TRUE].paymentSettled = c.paymentSettled
            /\ [c EXCEPT !.inventorySettled = TRUE].authorizeSent = c.authorizeSent
        BY <2>2 DEF OnCompensating, Ctx
      <3> QED
        BY <1>1, <1>8, <2>1, <2>2, <3>1 DEF SettleOrWait, Settles, Decide, Because
    <2>3. CASE t \in {"Voided", "AuthFailed"}
      <3>1. /\ OnCompensating(t, c) = SettleOrWait([c EXCEPT !.paymentSettled = TRUE])
            /\ [c EXCEPT !.paymentSettled = TRUE].inventorySettled = c.inventorySettled
        BY <2>3 DEF OnCompensating, Ctx
      <3> QED
        BY <1>1, <1>8, <2>1, <2>3, <3>1 DEF SettleOrWait, Settles, Decide, Because
    <2>4. CASE t = "Timeout"
      <3>1. "AUTHORIZE" \notin CompensationsFor(c)
        BY DEF CompensationsFor, Compensations
      <3> QED
        BY <1>3, <2>1, <2>4, <3>1 DEF OnCompensating, States
    <2>5. CASE t = "Authorized"
      BY <1>1, <1>3, <1>8, <2>1, <2>5 DEF OnCompensating, States, Ctx
    <2>6. CASE t \notin {"Released", "ReserveFailed", "Voided", "AuthFailed", "Timeout", "Authorized"}
      BY <1>1, <1>8, <2>1, <2>6 DEF OnCompensating
    <2> QED
      BY <2>2, <2>3, <2>4, <2>5, <2>6
  <1>9. CASE from \in {"CONFIRMED", "CANCELLED", None}
    BY <1>1, <1>2, <1>9 DEF Machine, None
  <1> QED
    BY <1>4, <1>5, <1>6, <1>7, <1>8, <1>9 DEF AnyStatus, States

\* An acknowledged compensation was acknowledged by an event that is processed.
RowsAcked ==
    /\ steps["RELEASE"].state = "ACKED" => Processed({"Released"})
    /\ steps["VOID"].state = "ACKED" => Processed({"Voided"})

\* Authorize is emitted with its row, on leaving PENDING.
AuthorizeRow ==
    /\ Emitted("AUTHORIZE") => steps["AUTHORIZE"].state # "NONE"
    /\ order.status \in {None, "PENDING"} => ~Emitted("AUTHORIZE")

\* A context is right about what is settled, and about Authorize as long as the
\* version still is the one it was read with.
CtxOK(t) ==
    /\ t.ctx.inventorySettled => Processed({"Released"})
    /\ t.ctx.paymentSettled => Processed({"Voided"})
    /\ t.order.version = order.version /\ Emitted("AUTHORIZE") => t.ctx.authorizeSent

Contexts == \A a \in Actors : tx[a].kind # "idle" => CtxOK(tx[a])

SettledInv == SagaInv /\ RowsAcked /\ AuthorizeRow /\ Contexts /\ CancelledIsSettled

\* What a step may do to rows, commands and inbox together.
Write ==
    /\ inbox \subseteq inbox'
    /\ steps'["AUTHORIZE"].state = "NONE" => steps["AUTHORIZE"].state = "NONE"
    /\ steps'["RELEASE"].state = "ACKED" => steps["RELEASE"].state = "ACKED" \/ Processed({"Released"})'
    /\ steps'["VOID"].state = "ACKED" => steps["VOID"].state = "ACKED" \/ Processed({"Voided"})'
    /\ Emitted("AUTHORIZE")' =>
          \/ Emitted("AUTHORIZE")
          \/ /\ order'.version = order.version + 1
             /\ order'.status = "STOCK_RESERVED" /\ steps'["AUTHORIZE"].state = "SENT"
    /\ order'.status = "PENDING" => order.status = "PENDING"
    /\ order'.status = "CANCELLED" /\ order.status # "CANCELLED" =>
          /\ Processed({"Released", "ReserveFailed"})'
          /\ Emitted("AUTHORIZE")' => Processed({"Voided", "AuthFailed"})'

LEMMA AckedRows ==
    ASSUME NEW rows, NEW t \in Triggers
    PROVE  LET acked == RecordStepAcked(rows, StepAckedBy(t))
           IN  /\ acked["AUTHORIZE"].state = "NONE" => rows["AUTHORIZE"].state = "NONE"
               /\ acked["RELEASE"].state = "ACKED" => rows["RELEASE"].state = "ACKED" \/ t = "Released"
               /\ acked["VOID"].state = "ACKED" => rows["VOID"].state = "ACKED" \/ t = "Voided"
  <1>1. "RELEASE" \in StepAckedBy(t) => t = "Released"
    BY DEF StepAckedBy, Triggers, Events
  <1>2. "VOID" \in StepAckedBy(t) => t = "Voided"
    BY DEF StepAckedBy, Triggers, Events
  <1> QED
    BY <1>1, <1>2 DEF RecordStepAcked, Steps

LEMMA SentRows ==
    ASSUME NEW rows, NEW emit, NEW deadline, EmitCommands(rows, emit, deadline)
    PROVE  /\ steps'["AUTHORIZE"].state = "NONE" => rows["AUTHORIZE"].state = "NONE"
           /\ steps'["RELEASE"].state = "ACKED" => rows["RELEASE"].state = "ACKED"
           /\ steps'["VOID"].state = "ACKED" => rows["VOID"].state = "ACKED"
           /\ "AUTHORIZE" \in emit => steps'["AUTHORIZE"].state = "SENT"
           /\ Emitted("AUTHORIZE")' => Emitted("AUTHORIZE") \/ "AUTHORIZE" \in emit
  <1>1. steps' = RecordStepSent(rows, emit, deadline)
    BY DEF EmitCommands
  <1>2. \A c \in commands' : c \in commands \/ c.step \in emit
    BY DEF EmitCommands
  <1> QED
    BY <1>1, <1>2 DEF RecordStepSent, Steps, Emitted

\* The writes of a decision on an event that is processed with it.
LEMMA ApplyWrites ==
    ASSUME SettledInv, NEW a \in Actors, tx[a].kind # "idle", NEW t \in Triggers, NEW d,
           Sound(tx[a].order.status, d), Settles(tx[a].order.status, t, tx[a].ctx, d),
           Apply(a, t, d), inbox \subseteq inbox', t # "Timeout" => \E e \in inbox' : e.type = t
    PROVE  Write
  <1> DEFINE snapshot == tx[a].order
             acked == RecordStepAcked(steps, StepAckedBy(t))
             plain == d.ackOnly /\ d.next = snapshot.status /\ d.emit = {}
  <1>1. SnapshotOK(tx[a]) /\ CtxOK(tx[a]) /\ SagaInv
    BY DEF SettledInv, SagaInv, Snapshots, Contexts
  <1>2. /\ acked["AUTHORIZE"].state = "NONE" => steps["AUTHORIZE"].state = "NONE"
        /\ acked["RELEASE"].state = "ACKED" => steps["RELEASE"].state = "ACKED" \/ Processed({"Released"})'
        /\ acked["VOID"].state = "ACKED" => steps["VOID"].state = "ACKED" \/ Processed({"Voided"})'
    BY AckedRows DEF Processed
  <1>3. CASE plain
    <2>1. steps' = acked /\ order' = order /\ commands' = commands
      BY <1>3 DEF Apply
    <2> QED
      BY <1>2, <2>1 DEF Write, Emitted
  <1>4. CASE ~plain
    <2>1. /\ IF d.next = snapshot.status
             THEN order' = order
             ELSE /\ ~VersionStale(snapshot)
                  /\ order'.status = d.next /\ order'.version = order.version + 1
          /\ EmitCommands(acked, d.emit, d.deadline)
      BY <1>4 DEF Apply, UpdateStatus
    <2>2. /\ steps'["AUTHORIZE"].state = "NONE" => steps["AUTHORIZE"].state = "NONE"
          /\ steps'["RELEASE"].state = "ACKED" => steps["RELEASE"].state = "ACKED" \/ Processed({"Released"})'
          /\ steps'["VOID"].state = "ACKED" => steps["VOID"].state = "ACKED" \/ Processed({"Voided"})'
          /\ "AUTHORIZE" \in d.emit => steps'["AUTHORIZE"].state = "SENT"
          /\ Emitted("AUTHORIZE")' => Emitted("AUTHORIZE") \/ "AUTHORIZE" \in d.emit
      <3> HIDE DEF acked
      <3> QED
        BY <1>2, <2>1, SentRows
    <2>3. "AUTHORIZE" \in d.emit => /\ order'.version = order.version + 1
                                    /\ order'.status = "STOCK_RESERVED"
      BY <2>1 DEF Settles
    <2>4. d.next # snapshot.status => order.status = snapshot.status /\ snapshot.version = order.version
      BY <1>1, <2>1 DEF SnapshotOK, VersionStale
    <2>5. order'.status = "PENDING" => order.status = "PENDING"
      BY <2>1, <2>4 DEF Settles
    <2>6. ASSUME order'.status = "CANCELLED", order.status # "CANCELLED"
          PROVE  /\ Processed({"Released", "ReserveFailed"})'
                 /\ Emitted("AUTHORIZE")' => Processed({"Voided", "AuthFailed"})'
      <3>1. d.next = "CANCELLED" /\ snapshot.status # "CANCELLED" /\ snapshot.version = order.version
            /\ order.status = snapshot.status
        BY <2>1, <2>4, <2>6
      <3>2. /\ t # "Timeout" /\ d.emit = {}
            /\ t \in {"Released", "ReserveFailed"} \/ tx[a].ctx.inventorySettled
            /\ \/ order.status = "PENDING" \/ t \in {"Voided", "AuthFailed"}
               \/ tx[a].ctx.paymentSettled \/ ~tx[a].ctx.authorizeSent
        BY <3>1 DEF Settles
      <3>3. PICK e \in inbox' : e.type = t
        BY <3>2
      <3>4. Emitted("AUTHORIZE")' => Emitted("AUTHORIZE")
        BY <2>2, <3>2
      <3>5. order.status = "PENDING" => ~Emitted("AUTHORIZE")
        BY DEF SettledInv, AuthorizeRow
      <3>6. Processed({"Released", "ReserveFailed"})'
        BY <1>1, <3>2, <3>3 DEF CtxOK, Processed
      <3>7. Emitted("AUTHORIZE")' => Processed({"Voided", "AuthFailed"})'
        BY <1>1, <3>1, <3>2, <3>3, <3>4, <3>5 DEF CtxOK, Processed
      <3> QED
        BY <3>6, <3>7
    <2> QED
      BY <2>2, <2>3, <2>5, <2>6 DEF Write
  <1> QED
    BY <1>3, <1>4

\* Such a write, with transactions only closed, keeps the invariant.
LEMMA WriteKeeps ==
    ASSUME SettledInv, SagaInv', order.status # None, Move, Write,
           \A a \in Actors : tx'[a] = tx[a] \/ tx'[a].kind = "idle"
    PROVE  SettledInv'
  <1>1. /\ order \in Orders /\ \A a \in Actors : tx[a].order \in Orders
        /\ Snapshots
    BY DEF SettledInv, SagaInv, TypeInv, TypeOK, Txs
  <1>2. \A types : Processed(types) => Processed(types)'
    BY DEF Write, Processed
  <1>3. RowsAcked'
    BY <1>2 DEF SettledInv, RowsAcked, Write
  <1>4. AuthorizeRow'
    <2>1. order'.status # None
      BY DEF Move
    <2> QED
      BY <2>1 DEF SettledInv, AuthorizeRow, Write
  <1>5. Contexts'
    <2> SUFFICES ASSUME NEW a \in Actors, tx'[a].kind # "idle"
                 PROVE  CtxOK(tx[a])'
      BY DEF Contexts
    <2>1. tx'[a] = tx[a] /\ CtxOK(tx[a]) /\ SnapshotOK(tx[a])
      BY <1>1 DEF SettledInv, Contexts, Snapshots
    <2>2. /\ order.version \in Nat /\ tx[a].order.version \in Nat
          /\ tx[a].order.version <= order.version
      BY <1>1, <2>1 DEF SnapshotOK, Orders
    <2>3. tx[a].order.version = order'.version =>
             order'.version = order.version /\ order'.version # order.version + 1
      BY <2>2 DEF Move
    <2> QED
      BY <1>2, <2>1, <2>3 DEF CtxOK, Write
  <1>6. CancelledIsSettled'
    <2>1. CASE order.status = "CANCELLED"
      <3>1. Emitted("AUTHORIZE")' => Emitted("AUTHORIZE")
        BY <1>1, <2>1 DEF Write, Move, IsTerminal, Orders
      <3> QED
        BY <1>2, <2>1, <3>1 DEF SettledInv, CancelledIsSettled
    <2>2. CASE order.status # "CANCELLED"
      BY <2>2 DEF CancelledIsSettled, Write
    <2> QED
      BY <2>1, <2>2
  <1> QED
    BY <1>3, <1>4, <1>5, <1>6 DEF SettledInv

\* Every step of a placed order is such a write.
LEMMA StepWrites ==
    ASSUME SettledInv, [Next]_vars, order.status # None
    PROVE  Write
  <1>0. /\ Consumers \subseteq Actors /\ "sweeper" \in Actors /\ "api" \in Actors
        /\ SagaInv /\ TypeOK /\ \A a \in Actors : tx[a].event.type \in Triggers /\ tx[a].ctx \in Ctx
                                                  /\ tx[a].order.status \in AnyStatus
    BY DEF SettledInv, SagaInv, TypeInv, TypeOK, Actors, Txs, EventMsgs, NoEvent, Triggers, Orders, AnyStatus
  <1>1. ASSUME UNCHANGED <<order, steps, commands, inbox>> PROVE Write
    BY <1>1 DEF Write, Emitted
  <1>2. ASSUME NEW a \in Consumers, HandleCommit(a) PROVE Write
    <2>1. /\ Sound(tx[a].order.status, HandleDecision(a))
          /\ Settles(tx[a].order.status, tx[a].event.type, tx[a].ctx, HandleDecision(a))
      BY <1>0, DecisionSound, MachineSettles DEF HandleDecision
    <2>2. tx[a].event \in inbox' /\ inbox \subseteq inbox'
      BY <1>2 DEF HandleCommit
    <2> QED
      BY <1>0, <1>2, <2>1, <2>2, ApplyWrites DEF HandleCommit
  <1>3. CASE SweepCommit
    <2> DEFINE d == Machine(tx["sweeper"].order.status, "Timeout", tx["sweeper"].ctx)
    <2>1. /\ tx["sweeper"].kind = "sweep" /\ inbox' = inbox
          /\ UNCHANGED <<order, steps, commands>> \/ Apply("sweeper", "Timeout", d)
      BY <1>3 DEF SweepCommit
    <2>2. /\ Sound(tx["sweeper"].order.status, d)
          /\ Settles(tx["sweeper"].order.status, "Timeout", tx["sweeper"].ctx, d)
      BY <1>0, DecisionSound, MachineSettles DEF Triggers
    <2> HIDE DEF d
    <2>3. CASE Apply("sweeper", "Timeout", d)
      BY <1>0, <2>1, <2>2, <2>3, ApplyWrites DEF Triggers
    <2> QED
      BY <1>1, <2>1, <2>3
  <1>4. CASE CancelCommit
    <2> DEFINE emit == {"RELEASE"} \cup IF tx["api"].ctx.authorizeSent THEN {"VOID"} ELSE {}
    <2>1. /\ UpdateStatus("COMPENSATING", "CUSTOMER_CANCELLED", None) /\ inbox' = inbox
          /\ EmitCommands(steps, emit, TimeoutCompensating)
      BY <1>4 DEF CancelCommit
    <2>2. "AUTHORIZE" \notin emit
      OBVIOUS
    <2>3. order'.status = "COMPENSATING"
      BY <2>1 DEF UpdateStatus
    <2> HIDE DEF emit
    <2> QED
      BY <2>1, <2>2, <2>3, SentRows DEF Write
  <1>5. ~PlaceOrder
    BY DEF PlaceOrder
  <1> QED
    BY <1>1, <1>2, <1>3, <1>4, <1>5 DEF Next, HandleBegin, Read, HandleIllegal, Exhausted, Stale, Crash,
       SweepBegin, CancelBegin, Answer, PaidAfterFailure, Publish, ReservationExpires, vars, orderVars

\* A context that has just been read is right.
LEMMA ReadContext ==
    ASSUME SettledInv, SagaInv', NEW a \in Actors, NEW kind, NEW e, NEW s, Read(a, kind, e, s)
    PROVE  SettledInv'
  <1>1. UNCHANGED <<order, steps, commands, inbox>>
    BY DEF Read
  <1>2. /\ tx'[a].ctx = BuildCtx(e.retriable)
        /\ \A b \in Actors : b # a => tx'[b] = tx[b]
    BY DEF Read, SettledInv, SagaInv, TypeInv, TypeOK
  <1>3. Contexts'
    <2>1. CtxOK(tx[a])'
      <3>1. /\ BuildCtx(e.retriable).authorizeSent = (steps["AUTHORIZE"].state # "NONE")
            /\ BuildCtx(e.retriable).inventorySettled = (steps["RELEASE"].state = "ACKED")
            /\ BuildCtx(e.retriable).paymentSettled = (steps["VOID"].state = "ACKED")
        BY DEF BuildCtx
      <3>2. (Processed({"Released"})' <=> Processed({"Released"})) /\ (Processed({"Voided"})' <=> Processed({"Voided"}))
            /\ (Emitted("AUTHORIZE")' <=> Emitted("AUTHORIZE"))
        BY <1>1 DEF Processed, Emitted
      <3> QED
        BY <1>2, <3>1, <3>2 DEF SettledInv, RowsAcked, AuthorizeRow, CtxOK
    <2>2. ASSUME NEW b \in Actors, b # a, tx'[b].kind # "idle" PROVE CtxOK(tx[b])'
      BY <1>1, <1>2, <2>2 DEF SettledInv, Contexts, CtxOK, Processed, Emitted
    <2> QED
      BY <2>1, <2>2 DEF Contexts
  <1> QED
    BY <1>1, <1>3 DEF SettledInv, RowsAcked, AuthorizeRow, CancelledIsSettled, Processed, Emitted

LEMMA SettledStep == SettledInv /\ [Next]_vars => SettledInv'
  <1> SUFFICES ASSUME SettledInv, [Next]_vars PROVE SettledInv'
    OBVIOUS
  <1>0. /\ SagaInv /\ SagaInv' /\ TypeOK
        /\ Consumers \subseteq Actors /\ "sweeper" \in Actors /\ "api" \in Actors
    BY SagaStep DEF SettledInv, SagaInv, TypeInv, Actors
  <1>1. CASE PlaceOrder
    <2>1. commands = {} /\ \A a \in Actors : tx[a].kind = "idle"
      BY <1>0, <1>1 DEF PlaceOrder, SagaInv, Unplaced
    <2>2. /\ order'.status = "PENDING" /\ tx' = tx /\ inbox' = inbox
          /\ EmitCommands(steps, {"RESERVE"}, Start.deadline)
      BY <1>1 DEF PlaceOrder, NoOrder, Start, Decide
    <2>3. ~Emitted("AUTHORIZE")'
      BY <2>1, <2>2, SentRows DEF Emitted
    <2>4. RowsAcked'
      BY <2>2, SentRows DEF SettledInv, RowsAcked, Processed
    <2> QED
      BY <1>0, <2>1, <2>2, <2>3, <2>4 DEF SettledInv, AuthorizeRow, Contexts, CancelledIsSettled
  <1>2. CASE order.status = None /\ ~PlaceOrder
    <2>1. events = {} /\ commands = {} /\ \A a \in Actors : tx[a].kind = "idle"
      BY <1>0, <1>2 DEF SagaInv, Unplaced
    <2>2. UNCHANGED vars
      BY <1>0, <1>2, <2>1 DEF Next, HandleCommit, HandleIllegal, Exhausted, Stale, Crash, SweepBegin,
         Overdue, SweepCommit, CancelBegin, Cancellable, CancelCommit, ReservationExpires, None
    <2> QED
      BY <1>0, <2>2 DEF vars, orderVars, SettledInv, RowsAcked, AuthorizeRow, Contexts, CtxOK,
         CancelledIsSettled, Processed, Emitted
  <1>3. CASE order.status # None /\ ~PlaceOrder
    <2>1. Move /\ Write
      BY <1>0, <1>3, StepMoves, StepWrites
    <2>2. ASSUME NEW a \in Consumers, NEW e \in events, HandleBegin(a, e) PROVE SettledInv'
      BY <1>0, <2>2, ReadContext DEF HandleBegin
    <2>3. ASSUME NEW s \in Steps, SweepBegin(s) PROVE SettledInv'
      BY <1>0, <2>3, ReadContext DEF SweepBegin
    <2>4. CASE CancelBegin
      BY <1>0, <2>4, ReadContext DEF CancelBegin
    <2>5. ASSUME NEW a \in Actors, Close(a) PROVE SettledInv'
      <3>1. \A b \in Actors : tx'[b] = tx[b] \/ tx'[b].kind = "idle"
        BY <1>0, <2>5 DEF Close, Idle, TypeOK
      <3> QED
        BY <1>0, <1>3, <2>1, <3>1, WriteKeeps
    <2>6. ASSUME tx' = tx PROVE SettledInv'
      BY <1>0, <1>3, <2>1, <2>6, WriteKeeps
    <2> QED
      BY <1>0, <1>3, <2>2, <2>3, <2>4, <2>5, <2>6 DEF Next, HandleCommit, HandleIllegal, Exhausted,
         Stale, Crash, SweepCommit, CancelCommit, Answer, PaidAfterFailure, Publish, ReservationExpires, vars, orderVars
  <1> QED
    BY <1>1, <1>2, <1>3

\* An order is cancelled only after inventory acknowledged that it holds nothing
\* and, if an Authorize was ever sent, after payment acknowledged too, although
\* the acknowledgements are read before the commit and without a lock.
THEOREM CancellationIsSettled == Spec => []CancelledIsSettled
  <1>1. Init => SettledInv
    <2>1. Init => SagaInv
      BY SagaInit
    <2> QED
      BY <2>1 DEF Init, SettledInv, RowsAcked, AuthorizeRow, Contexts, CancelledIsSettled, Emitted,
         Idle, NoOrder, NoRow, Steps, None
  <1>2. SettledInv => CancelledIsSettled
    BY DEF SettledInv
  <1> QED
    BY <1>1, <1>2, SettledStep, PTL DEF Spec
-----------------------------------------------------------------------------
(* One outcome.                                                            *)

\* The types of a sequence of public events.
Told(p) == [i \in DOMAIN p |-> p[i].type]

LEMMA ToldNothing ==
    ASSUME NEW p \in Seq(Published), Told(p) = << >>, NEW r \in Published
    PROVE  Told(Append(p, r)) = <<r.type>>
  <1>1. DOMAIN p = DOMAIN Told(p)
    BY DEF Told
  <1>2. DOMAIN p = 1 .. Len(p) /\ Len(p) \in Nat
    OBVIOUS
  <1>3. DOMAIN << >> = {}
    OBVIOUS
  <1>4. Len(p) = 0
    BY <1>1, <1>2, <1>3
  <1>5. DOMAIN Append(p, r) = {1} /\ Append(p, r)[1] = r
    BY <1>4
  <1> QED
    BY <1>5 DEF Told

LEMMA ToldCreated ==
    ASSUME NEW p \in Seq(Published), Told(p) = <<"created">>, NEW r \in Published
    PROVE  Told(p \o <<r>>) = <<"created", r.type>>
  <1>1. DOMAIN p = DOMAIN Told(p)
    BY DEF Told
  <1>2. DOMAIN p = 1 .. Len(p) /\ Len(p) \in Nat
    OBVIOUS
  <1>3. DOMAIN <<"created">> = {1}
    OBVIOUS
  <1>4. Len(p) = 1
    BY <1>1, <1>2, <1>3
  <1>5. p[1].type = "created"
    <2>1. Told(p)[1] = "created" /\ 1 \in DOMAIN p
      BY <1>2, <1>4
    <2> QED
      BY <2>1 DEF Told
  <1>6. /\ DOMAIN (p \o <<r>>) = {1, 2}
        /\ (p \o <<r>>)[1] = p[1] /\ (p \o <<r>>)[2] = r
    <2>1. <<r>> \in Seq(Published) /\ Len(<<r>>) = 1 /\ <<r>>[1] = r
      OBVIOUS
    <2>2. /\ p \o <<r>> \in Seq(Published) /\ Len(p \o <<r>>) = 2
          /\ \A i \in 1 .. 2 : (p \o <<r>>)[i] = IF i <= Len(p) THEN p[i] ELSE <<r>>[i - Len(p)]
      BY <1>4, <2>1, ConcatProperties
    <2> QED
      BY <1>4, <2>1, <2>2
  <1> DEFINE q == p \o <<r>>
             x == <<"created", r.type>>
  <1>7. Told(q) = [i \in {1, 2} |-> q[i].type] /\ q[1].type = "created" /\ q[2].type = r.type
    BY <1>5, <1>6 DEF Told
  <1>8. x = [i \in {1, 2} |-> x[i]] /\ x[1] = "created" /\ x[2] = r.type
    OBVIOUS
  <1> HIDE DEF q, x
  <1>9. Told(q) = x
    BY <1>7, <1>8
  <1> QED
    BY <1>9 DEF q, x

\* A step tells the customer exactly when it ends the order.
Open(s) == s # None /\ ~IsTerminal(s)

Tell ==
    \/ /\ published' = published
       /\ order'.status = order.status \/ (Open(order.status) /\ Open(order'.status))
    \/ \E r \in Published :
          /\ published' = published \o <<r>>
          /\ Open(order.status)
          /\ \/ order'.status = "CONFIRMED" /\ r.type = "confirmed"
             \/ order'.status = "CANCELLED" /\ r.type = "cancelled"

LEMMA ApplyTells ==
    ASSUME SagaInv, NEW a \in Actors, tx[a].kind # "idle", NEW t \in Triggers, NEW d,
           Sound(tx[a].order.status, d), Apply(a, t, d)
    PROVE  Tell
  <1> DEFINE snapshot == tx[a].order
             plain == d.ackOnly /\ d.next = snapshot.status /\ d.emit = {}
             told == [type |-> "cancelled", reason |-> PickReason(d.reason, None, snapshot.reason)]
             done == [type |-> "confirmed", reason |-> None]
  <1>1. SnapshotOK(tx[a]) /\ d \in AnyDecision /\ snapshot \in Orders
    BY DEF SagaInv, Snapshots, TypeInv, TypeOK, Txs, Sound
  <1>2. CASE plain
    BY <1>2 DEF Apply, Tell
  <1>3. CASE ~plain
    <2>1. /\ IF d.next = snapshot.status
             THEN order' = order
             ELSE ~VersionStale(snapshot) /\ order'.status = d.next
          /\ published' = published \o StateEvents(d, snapshot)
      BY <1>3 DEF Apply, UpdateStatus
    <2>2. Open(snapshot.status)
      BY <1>1, <1>3 DEF Sound, AckOnly, Decide, Open
    <2>3. d.next # snapshot.status => order.status = snapshot.status /\ order'.status = d.next
      BY <1>1, <2>1 DEF SnapshotOK, VersionStale
    <2>4. CASE ~IsTerminal(d.next)
      <3>1. StateEvents(d, snapshot) = <<>>
        BY <2>4 DEF StateEvents, IsTerminal
      <3>2. published' = published
        BY <2>1, <3>1 DEF SagaInv, TypeInv, TypeOK
      <3>3. order'.status = order.status \/ (Open(order.status) /\ Open(order'.status))
        BY <2>1, <2>2, <2>3, <2>4 DEF Open, Sound
      <3> QED
        BY <3>2, <3>3 DEF Tell
    <2>5. CASE IsTerminal(d.next)
      <3>1. d.next # snapshot.status
        BY <2>2, <2>5 DEF Open
      <3>2. told \in Published /\ done \in Published
        <4>1. PickReason(d.reason, None, snapshot.reason) \in Reasons \cup {None}
          BY <1>1, PickTyped DEF AnyDecision, Orders
        <4> QED
          BY <4>1 DEF Published
      <3>3. \/ d.next = "CONFIRMED" /\ StateEvents(d, snapshot) = <<done>>
            \/ d.next = "CANCELLED" /\ StateEvents(d, snapshot) = <<told>>
        BY <2>5 DEF StateEvents, IsTerminal
      <3>4. told.type = "cancelled" /\ done.type = "confirmed"
        OBVIOUS
      <3> HIDE DEF told, done
      <3> QED
        BY <2>1, <2>2, <2>3, <3>1, <3>2, <3>3, <3>4 DEF Tell
    <2> QED
      BY <2>4, <2>5
  <1> QED
    BY <1>2, <1>3

\* Every step other than PlaceOrder tells the customer what it does.
LEMMA StepTells ==
    ASSUME SagaInv, [Next]_vars
    PROVE  PlaceOrder \/ Tell
  <1>0. /\ Consumers \subseteq Actors /\ "sweeper" \in Actors /\ "api" \in Actors
        /\ TypeOK /\ \A a \in Actors : tx[a].event.type \in Triggers
    BY DEF SagaInv, TypeInv, TypeOK, Actors, Txs, EventMsgs, NoEvent, Triggers
  <1>1. ASSUME UNCHANGED <<order, published>> PROVE Tell
    BY <1>1 DEF Tell
  <1>2. ASSUME NEW a \in Consumers, HandleCommit(a) PROVE Tell
    <2>1. Sound(tx[a].order.status, HandleDecision(a))
      BY <1>0, DecisionSound DEF HandleDecision
    <2> QED
      BY <1>0, <1>2, <2>1, ApplyTells DEF HandleCommit
  <1>3. CASE SweepCommit
    <2> DEFINE d == Machine(tx["sweeper"].order.status, "Timeout", tx["sweeper"].ctx)
    <2>1. /\ tx["sweeper"].kind = "sweep"
          /\ UNCHANGED <<order, published>> \/ Apply("sweeper", "Timeout", d)
      BY <1>3 DEF SweepCommit
    <2>2. Sound(tx["sweeper"].order.status, d)
      BY <1>0, DecisionSound DEF Triggers
    <2> HIDE DEF d
    <2>3. CASE Apply("sweeper", "Timeout", d)
      BY <1>0, <2>1, <2>2, <2>3, ApplyTells DEF Triggers
    <2> QED
      BY <1>1, <2>1, <2>3
  <1>4. CASE CancelCommit
    <2>1. /\ tx["api"].kind = "cancel" /\ ~VersionStale(tx["api"].order)
          /\ order'.status = "COMPENSATING" /\ published' = published
      BY <1>4 DEF CancelCommit, UpdateStatus
    <2>2. Cancellable(order.status)
      BY <1>0, <2>1 DEF SagaInv, Snapshots, SnapshotOK, VersionStale
    <2> QED
      BY <2>1, <2>2 DEF Tell, Open, Cancellable, IsTerminal, None
  <1> QED
    BY <1>1, <1>2, <1>3, <1>4 DEF Next, HandleBegin, Read, HandleIllegal, Exhausted, Stale, Crash,
       SweepBegin, CancelBegin, Answer, PaidAfterFailure, Publish, ReservationExpires, vars, orderVars

\* The customer hears one outcome, the one in the database: order.created first,
\* then one of confirmed and cancelled with the write that makes it true.
THEOREM OutcomeIsUnique == Spec => []OneOutcome
  <1>1. Init => OneOutcome
    <2>1. [i \in DOMAIN <<>> |-> <<>>[i].type] = <<>>
      OBVIOUS
    <2> QED
      BY <2>1 DEF Init, OneOutcome, NoOrder, None
  <1>2. OneOutcome /\ SagaInv /\ SagaInv' /\ [Next]_vars => OneOutcome'
    <2> SUFFICES ASSUME OneOutcome, SagaInv, SagaInv', [Next]_vars PROVE OneOutcome'
      OBVIOUS
    <2>0. published \in Seq(Published)
      BY DEF SagaInv, TypeInv, TypeOK
    <2> DEFINE Heard(p, st) ==
                 /\ st = None => Told(p) = <<>>
                 /\ st = "CONFIRMED" => Told(p) = <<"created", "confirmed">>
                 /\ st = "CANCELLED" => Told(p) = <<"created", "cancelled">>
                 /\ Open(st) => Told(p) = <<"created">>
    <2>1. Heard(published, order.status)
      BY DEF OneOutcome, Told, Open, IsTerminal, None
    <2>2. Heard(published', order'.status) => OneOutcome'
      BY DEF OneOutcome, Told, Open, IsTerminal, None
    <2>3. CASE PlaceOrder
      <3> DEFINE r == [type |-> "created", reason |-> None]
      <3>1. /\ order.status = None /\ order'.status = "PENDING" /\ published' = Append(published, r)
        BY <2>3 DEF PlaceOrder, NoOrder, Start, Decide
      <3>2. r \in Published /\ r.type = "created"
        BY DEF Published
      <3> HIDE DEF r
      <3>3. Told(published') = <<"created">>
        BY <2>0, <2>1, <3>1, <3>2, ToldNothing
      <3> QED
        BY <2>2, <3>1, <3>3 DEF None
    <2>4. CASE published' = published /\ order'.status = order.status
      BY <2>1, <2>2, <2>4
    <2>5. CASE published' = published /\ Open(order.status) /\ Open(order'.status)
      BY <2>1, <2>2, <2>5 DEF Open, IsTerminal, None
    <2>6. ASSUME NEW r \in Published, published' = published \o <<r>>, Open(order.status),
                 \/ order'.status = "CONFIRMED" /\ r.type = "confirmed"
                 \/ order'.status = "CANCELLED" /\ r.type = "cancelled"
          PROVE  OneOutcome'
      <3>1. Told(published') = <<"created", r.type>>
        BY <2>0, <2>1, <2>6, ToldCreated
      <3> QED
        BY <2>2, <2>6, <3>1 DEF Open, IsTerminal, None
    <2> QED
      BY <2>3, <2>4, <2>5, <2>6, StepTells DEF Tell
  <1> QED
    BY <1>1, <1>2, SagaInvariant, PTL DEF Spec
=============================================================================
