--------------------------- MODULE PaymentProofs ----------------------------
(***************************************************************************)
(* Proofs about module Payment, for every number of workers, resends and   *)
(* crashes and on every rail.                                              *)
(***************************************************************************)
EXTENDS Payment, TLAPS

\* A command handler moves one worker: to the call, to its answer, or home.
Begins(w, step) ==
    /\ work[w] = NoWork
    /\ work' = [work EXCEPT ![w] = [stage |-> "calling", step |-> step, ref |-> ref]]
Answers(w, step, outcome) ==
    /\ work[w].stage = "calling" /\ work[w].step = step
    /\ work' = [work EXCEPT ![w] = [stage |-> "called", step |-> step, outcome |-> outcome]]
Ends(w) == work' = [work EXCEPT ![w] = NoWork]

LEMMA WorkType ==
    ASSUME TypeOK, NEW w \in Workers, NEW step \in Steps, NEW outcome \in Outcomes,
           Begins(w, step) \/ Answers(w, step, outcome) \/ Ends(w) \/ UNCHANGED work
    PROVE  work' \in [Workers -> Work]
  <1>1. ref \in BOOLEAN /\ work \in [Workers -> Work]
    BY DEF TypeOK
  <1>2. [stage |-> "calling", step |-> step, ref |-> ref] \in Work
    BY <1>1 DEF Work
  <1>3. [stage |-> "called", step |-> step, outcome |-> outcome] \in Work
    BY DEF Work
  <1>4. NoWork \in Work
    BY DEF Work
  <1> HIDE DEF Work
  <1> QED
    BY <1>1, <1>2, <1>3, <1>4 DEF Begins, Answers, Ends

LEMMA EventForType == \A s : EventFor(s) \subseteq EventTypes
  BY DEF EventFor, EventTypes

LEMMA TransactionType ==
    ASSUME TypeOK
    PROVE  Attempt \in Transactions /\ 0 \in Transactions
  BY PaymentAssumption DEF TypeOK, Attempt, Transactions

LEMMA CallbackType ==
    ASSUME NEW t \in Transactions, NEW s \in EventTypes \cup {"pending", "refunded"}
    PROVE  Callback(t, s) \in Callbacks
  BY DEF Callbacks, Callback

\* What the delivery of a callback changes.
LEMMA Delivered ==
    ASSUME TypeOK, NEW b \in callbacks, NEW s, Deliver(b, s)
    PROVE  /\ seen' \subseteq Transactions \X (EventTypes \cup {"refunded"})
           /\ UNCHANGED <<rail, sent, inbox, work, money, asked, failures, callbacks, faults>>
  <1>1. b.txn \in Transactions /\ b.says \in EventTypes \cup {"pending", "refunded"}
    BY DEF TypeOK, Callbacks
  <1>2. (IF b.says = "pending" THEN "authorized" ELSE b.says) \in EventTypes \cup {"refunded"}
    BY <1>1 DEF EventTypes
  <1>3. Key(b) \in Transactions \X (EventTypes \cup {"refunded"})
    BY <1>1, <1>2 DEF Key
  <1> QED
    BY <1>3 DEF Deliver, TypeOK, pspVars

LEMMA AnswerFacts ==
    ASSUME NEW a \in AuthorizeAnswers, TypeOK
    PROVE  /\ a[1] \in Outcomes
           /\ a[2] \in {"none", "pending", "held", "refused"}
           /\ a[1] = "approved" => rail \in {"mock", "cod"} /\ a[2] = "held"
           /\ a[1] = "declined" => a[2] = "refused"
           /\ rail \in {"mock", "cod"} => a[2] # "pending"
  <1>1. CASE rail = "mock"
    BY <1>1 DEF AuthorizeAnswers, Outcomes
  <1>2. CASE rail = "cod"
    BY <1>2 DEF AuthorizeAnswers, Outcomes
  <1>3. CASE rail \notin {"mock", "cod"}
    BY <1>3 DEF AuthorizeAnswers, Outcomes
  <1> QED
    BY <1>1, <1>2, <1>3

LEMMA TypeInit == Init => TypeOK
  <1> SUFFICES ASSUME Init
               PROVE  TypeOK
    OBVIOUS
  <1>1. NoWork \in Work
    BY DEF Work
  <1>2. work \in [Workers -> Work]
    BY <1>1 DEF Init
  <1>3. faults \in 0 .. MaxFaults /\ failures \in 0 .. MaxFailures /\ asked \in Nat /\ ledger \in Nat
    BY PaymentAssumption DEF Init
  <1> QED
    BY <1>2, <1>3 DEF Init, TypeOK, RowStates

LEMMA TypeStep == TypeOK /\ [Next]_vars => TypeOK'
  <1> SUFFICES ASSUME TypeOK, [Next]_vars
               PROVE  TypeOK'
    OBVIOUS
  <1> USE DEF rowVars, pspVars
  <1>1. ASSUME NEW c \in Commands, Send(c)
        PROVE  TypeOK'
    BY <1>1 DEF TypeOK, Send
  <1>2. ASSUME NEW w \in Workers, NEW c \in sent,
               \/ AuthorizeNew(w, c) \/ CaptureBegin(w, c) \/ VoidBegin(w, c)
               \/ AuthorizeKnown(w, c) \/ CaptureAgain(w, c)
               \/ VoidTombstone(w, c) \/ VoidAgain(w, c)
        PROVE  TypeOK'
    <2>1. work' \in [Workers -> Work]
      BY <1>2, WorkType DEF AuthorizeNew, CaptureBegin, VoidBegin, AuthorizeKnown, CaptureAgain,
         VoidTombstone, VoidAgain, Claim, Calling, Stop, Begins, Steps, Outcomes
    <2>2. row' \in RowStates /\ events' \subseteq EventTypes
      BY <1>2, EventForType DEF TypeOK, AuthorizeNew, CaptureBegin, VoidBegin, AuthorizeKnown,
         CaptureAgain, VoidTombstone, VoidAgain, UpdatePaymentState, Emit, RowStates, EventTypes
    <2>3. inbox' \subseteq Commands /\ UNCHANGED <<rail, ref, ledger, sent, seen, pspVars, faults>>
      BY <1>2 DEF TypeOK, AuthorizeNew, CaptureBegin, VoidBegin, AuthorizeKnown,
         CaptureAgain, VoidTombstone, VoidAgain, Claim
    <2> QED
      BY <2>1, <2>2, <2>3 DEF TypeOK
  <1>3. ASSUME NEW w \in Workers, CallAuthorize(w) \/ CallCapture(w) \/ CallVoid(w)
        PROVE  TypeOK'
    <2>1. CASE CallAuthorize(w)
      <3>1. PICK a \in AuthorizeAnswers : /\ Called(w, "AUTHORIZE", a[1]) /\ money' = a[2]
                                          /\ asked' = asked + 1 /\ UNCHANGED <<failures, callbacks>>
        BY <2>1 DEF CallAuthorize
      <3>2. a[1] \in Outcomes /\ a[2] \in {"none", "pending", "held", "refused"}
        BY AnswerFacts
      <3>3. work' \in [Workers -> Work]
        BY <3>1, <3>2, WorkType DEF Called, Answers, Steps
      <3> QED
        BY <3>1, <3>2, <3>3 DEF TypeOK, Called
    <2>2. CASE CallCapture(w) \/ CallVoid(w)
      <3>1. work' \in [Workers -> Work]
        BY <2>2, WorkType DEF CallCapture, CallVoid, Called, Answers, Steps, Outcomes
      <3> QED
        <4>1. CASE CallCapture(w)
          BY <4>1, <3>1 DEF TypeOK, CallCapture, Called
        <4>2. CASE CallVoid(w)
          <5>1. Callback(0, "voided") \in Callbacks
            BY TransactionType, CallbackType DEF EventTypes
          <5> QED
            BY <4>2, <3>1, <5>1 DEF TypeOK, CallVoid, Called
        <4> QED
          BY <2>2, <4>1, <4>2
    <2> QED
      BY <1>3, <2>1, <2>2
  <1>4. ASSUME NEW w \in Workers,
               \/ AuthorizeApproved(w) \/ AuthorizeDeclined(w) \/ AuthorizeOpen(w)
               \/ CaptureApproved(w) \/ CaptureOpen(w) \/ VoidApproved(w) \/ VoidOpen(w)
        PROVE  TypeOK'
    <2>1. work' \in [Workers -> Work]
      BY <1>4, WorkType DEF AuthorizeApproved, AuthorizeDeclined, AuthorizeOpen, CaptureApproved,
         CaptureOpen, VoidApproved, VoidOpen, Outcome, Ends, Steps, Outcomes
    <2>2. row' \in RowStates /\ ref' \in BOOLEAN /\ ledger' \in Nat /\ events' \subseteq EventTypes
      <3>1. CASE AuthorizeOpen(w) \/ CaptureOpen(w) \/ VoidOpen(w)
        BY <3>1 DEF TypeOK, AuthorizeOpen, CaptureOpen, VoidOpen
      <3>2. CASE AuthorizeApproved(w) \/ AuthorizeDeclined(w)
        BY <3>2 DEF TypeOK, AuthorizeApproved, AuthorizeDeclined, UpdatePaymentState, Emit,
           RowStates, EventTypes
      <3>3. CASE CaptureApproved(w) \/ VoidApproved(w)
        <4>1. ledger' \in Nat
          BY <3>3 DEF TypeOK, CaptureApproved, VoidApproved
        <4> QED
          BY <3>3, <4>1 DEF TypeOK, CaptureApproved, VoidApproved, UpdatePaymentState, Emit,
             RowStates, EventTypes
      <3> QED
        BY <1>4, <3>1, <3>2, <3>3
    <2>3. UNCHANGED <<rail, sent, inbox, seen, pspVars, faults>>
      BY <1>4 DEF AuthorizeApproved, AuthorizeDeclined, AuthorizeOpen, CaptureApproved,
         CaptureOpen, VoidApproved, VoidOpen, Outcome
    <2> QED
      BY <2>1, <2>2, <2>3 DEF TypeOK
  <1>5. ASSUME NEW w \in Workers, Crash(w)
        PROVE  TypeOK'
    <2>1. work' \in [Workers -> Work]
      BY <1>5, WorkType DEF Crash, Ends, Steps, Outcomes
    <2> QED
      BY <1>5, <2>1, PaymentAssumption DEF TypeOK, Crash
  <1>6. CASE AttemptPends \/ CustomerApproves \/ CustomerFails \/ CourierCollects \/ SupportRefunds
    <2>1. \A s \in EventTypes \cup {"pending", "refunded"} :
             Callback(Attempt, s) \in Callbacks /\ Callback(0, s) \in Callbacks
      BY TransactionType, CallbackType
    <2>2. /\ money' \in {"pending", "held", "taken", "refunded"}
          /\ callbacks' \subseteq Callbacks
          /\ UNCHANGED <<rail, rowVars, sent, inbox, seen, work, asked, faults>>
      BY <1>6, <2>1 DEF AttemptPends, CustomerApproves, CustomerFails, CourierCollects,
         SupportRefunds, Happens, TypeOK, EventTypes
    <2>3. failures' \in 0 .. MaxFailures
      BY <1>6, PaymentAssumption DEF AttemptPends, CustomerApproves, CustomerFails, CourierCollects,
         SupportRefunds, TypeOK
    <2> QED
      BY <2>2, <2>3 DEF TypeOK
  <1>7. ASSUME NEW b \in callbacks,
               \/ CallbackAuthorized(b) \/ CallbackFailed(b) \/ CallbackCaptured(b)
               \/ CallbackVoided(b) \/ CallbackNoted(b)
        PROVE  TypeOK'
    <2>1. ledger' \in Nat
      BY <1>7 DEF TypeOK, CallbackAuthorized, CallbackFailed, CallbackCaptured, CallbackVoided,
         CallbackNoted
    <2>2. row' \in RowStates /\ ref' \in BOOLEAN /\ events' \subseteq EventTypes
      BY <1>7 DEF TypeOK, CallbackAuthorized, CallbackFailed, CallbackCaptured, CallbackVoided,
         CallbackNoted, UpdatePaymentState, Emit, RowStates, EventTypes
    <2>3. /\ seen' \subseteq Transactions \X (EventTypes \cup {"refunded"})
          /\ UNCHANGED <<rail, sent, inbox, work, money, asked, failures, callbacks, faults>>
      BY <1>7, Delivered DEF CallbackAuthorized, CallbackFailed, CallbackCaptured, CallbackVoided,
         CallbackNoted
    <2> QED
      BY <2>1, <2>2, <2>3 DEF TypeOK
  <1>8. CASE UNCHANGED vars
    BY <1>8 DEF TypeOK, vars
  <1> QED
    BY <1>1, <1>2, <1>3, <1>4, <1>5, <1>6, <1>7, <1>8 DEF Next, HandleCallback

\* Every variable keeps its type; only event types the saga subscribes to leave
\* the service.
THEOREM TypeCorrect == Spec => []TypeOK
  BY TypeInit, TypeStep, PTL DEF Spec
-----------------------------------------------------------------------------
(* The inductive invariant.  "Told is true" rests on five facts that no   *)
(* handler checks by itself: Authorize is called by one worker, once; a    *)
(* reference is stored only for money the provider approved, so a Void     *)
(* that has one reverses it; a callback is the echo of what happened to    *)
(* the money; only the last attempt succeeds, so its callback is the one   *)
(* that set the reference; and the saga never sends both Capture and Void. *)

Sent(step) == \E d \in sent : d.step = step

\* In the work table k, w is in the handler of step, or calls the provider for
\* it, or has the provider's answer.
On(k, w, step) == k[w] # NoWork /\ k[w].step = step
Calls(k, w, step) == k[w].stage = "calling" /\ k[w].step = step
Answered(k, w, step, outcome) ==
    k[w].stage = "called" /\ k[w].step = step /\ k[w].outcome = outcome

\* What the provider did, and which callbacks that gave rise to.
MoneyInv ==
    /\ asked <= 1 /\ (asked = 0 => money = "none") /\ (money = "none" => callbacks = {})
    /\ \A b \in callbacks :
          /\ b.says = "authorized" => money \in Approved /\ b.txn = Attempt
          /\ b.says = "captured" => rail = "cod" /\ "captured" \in events
          /\ b.says = "failed" => failures > 0
          /\ b.says = "voided" => money = "reversed"
          /\ b.says \in {"authorized", "failed"} => rail \notin {"mock", "cod"}
    /\ failures > 0 => money \notin {"none", "refused"}
    /\ rail \in {"mock", "cod"} => money # "pending"
    /\ money = "reversed" => rail # "mock" /\ ref /\ Sent("VOID")
    /\ money = "refunded" => row = "CAPTURED"

\* What the row and the events say about it.
RowInv ==
    /\ row = "NONE" => /\ \A w \in Workers : work[w] = NoWork
                       /\ asked = 0 /\ events = {}
    /\ row \in {"NONE", "AUTHORIZING"} => ~ref
    /\ row \in {"AUTHORIZED", "CAPTURING", "CAPTURED"} \/ "authorized" \in events \/ Sent("CAPTURE") => ref
    /\ ref => money \in Approved /\ (rail \in {"wallet", "card"} => <<Attempt, "authorized">> \in seen)
    /\ ~(Sent("CAPTURE") /\ Sent("VOID"))
    /\ row \in {"CAPTURING", "CAPTURED"} => Sent("CAPTURE")
    /\ "captured" \in events \/ ledger # 0 => row = "CAPTURED"
    /\ rail # "cod" => ledger <= 1
    /\ row = "FAILED" \/ "failed" \in events => money = "refused" \/ failures > 0
    /\ row = "VOIDED" \/ "voided" \in events => Sent("VOID")
    /\ rail # "mock" /\ row = "VOIDED" => money = "reversed" \/ asked = 0
    /\ rail # "mock" /\ "voided" \in events =>
          money \in {"reversed", "refused"} \/ failures > 0 \/ (asked = 0 /\ row = "VOIDED")

\* What a worker in the middle of a handler knows.
WorkInv ==
    /\ \A w \in Workers : Calls(work, w, "AUTHORIZE") =>
          /\ asked = 0 /\ row \in {"AUTHORIZING", "VOIDED"} /\ (row = "VOIDED" => rail = "mock")
    /\ \A w \in Workers : Answered(work, w, "AUTHORIZE", "approved") =>
          /\ ~ref /\ money = "held" /\ rail \in {"mock", "cod"}
          /\ row \in {"AUTHORIZING", "VOIDED"} /\ (row = "VOIDED" => rail = "mock")
    /\ \A w \in Workers : Answered(work, w, "AUTHORIZE", "declined") => money = "refused"
    /\ \A v, w \in Workers : On(work, v, "AUTHORIZE") /\ On(work, w, "AUTHORIZE") => v = w
    /\ \A w \in Workers : On(work, w, "CAPTURE") =>
          row \in {"CAPTURING", "FAILED"} /\ ref /\ Sent("CAPTURE")
    /\ \A v, w \in Workers : On(work, v, "CAPTURE") /\ On(work, w, "CAPTURE") => v = w
    /\ \A w \in Workers : On(work, w, "VOID") => Sent("VOID")
    /\ \A w \in Workers : Calls(work, w, "VOID") /\ work[w].ref => ref
    /\ \A w \in Workers : Answered(work, w, "VOID", "approved") /\ rail # "mock" => money = "reversed"

Inv == TypeOK /\ MoneyInv /\ RowInv /\ WorkInv


LEMMA BeginFacts ==
    ASSUME TypeOK, NEW w \in Workers, NEW step \in Steps, Begins(w, step)
    PROVE  \A v \in Workers :
              /\ \A s : On(work', v, s) <=> On(work, v, s) \/ (v = w /\ s = step)
              /\ \A s : Calls(work', v, s) <=> Calls(work, v, s) \/ (v = w /\ s = step)
              /\ \A s, o : Answered(work', v, s, o) => Answered(work, v, s, o)
              /\ work'[v].ref = IF v = w THEN ref ELSE work[v].ref
  <1>1. \A v \in Workers : work'[v] = IF v = w THEN [stage |-> "calling", step |-> step, ref |-> ref]
                                       ELSE work[v]
    BY DEF Begins, TypeOK
  <1> QED
    BY <1>1 DEF Begins, On, Calls, Answered, NoWork

LEMMA CalledFacts ==
    ASSUME TypeOK, NEW w \in Workers, NEW step \in Steps, NEW outcome \in Outcomes,
           Answers(w, step, outcome)
    PROVE  /\ On(work, w, step) /\ Calls(work, w, step)
           /\ \A v \in Workers :
                /\ \A s : On(work', v, s) <=> On(work, v, s)
                /\ \A s : Calls(work', v, s) => Calls(work, v, s) /\ v # w /\ work'[v] = work[v]
                /\ \A s, o : Answered(work', v, s, o) =>
                              Answered(work, v, s, o) \/ (v = w /\ s = step /\ o = outcome)
  <1>1. \A v \in Workers : work'[v] = IF v = w THEN [stage |-> "called", step |-> step, outcome |-> outcome]
                                       ELSE work[v]
    BY DEF Answers, TypeOK
  <1>2. NoWork.stage = "idle"
    BY DEF NoWork
  <1> QED
    BY <1>1, <1>2 DEF Answers, On, Calls, Answered, NoWork

LEMMA EndFacts ==
    ASSUME TypeOK, NEW w \in Workers, Ends(w)
    PROVE  \A v \in Workers :
              /\ \A s : On(work', v, s) => On(work, v, s) /\ v # w
              /\ \A s : Calls(work', v, s) => Calls(work, v, s) /\ v # w /\ work'[v] = work[v]
              /\ \A s, o : Answered(work', v, s, o) => Answered(work, v, s, o) /\ v # w
  <1>1. \A v \in Workers : work'[v] = IF v = w THEN NoWork ELSE work[v]
    BY DEF Ends, TypeOK
  <1> QED
    BY <1>1 DEF On, Calls, Answered, NoWork

\* A worker that calls, or has an answer, is in the handler.
LEMMA InHandler ==
    ASSUME TypeOK, NEW w \in Workers
    PROVE  /\ \A s : Calls(work, w, s) => On(work, w, s)
           /\ \A s, o : Answered(work, w, s, o) => On(work, w, s)
  BY DEF On, Calls, Answered, NoWork

LEMMA RailFacts == TypeOK => rail \in {"mock", "wallet", "card", "cod"}
  BY PaymentAssumption DEF TypeOK

LEMMA SendKeeps ==
    ASSUME Inv, NEW c \in Commands, Send(c)
    PROVE  MoneyInv' /\ RowInv' /\ WorkInv'
  <1>1. /\ UNCHANGED <<rail, rowVars, inbox, seen, work, pspVars, faults>>
        /\ \A x : Sent(x)' <=> Sent(x) \/ x = c.step
        /\ Sent("CAPTURE")' => Sent("CAPTURE") \/ ("authorized" \in events /\ ~Sent("VOID"))
        /\ Sent("VOID")' => Sent("VOID") \/ ~Sent("CAPTURE")
        /\ Sent("CAPTURE") => Sent("CAPTURE")' /\ c.step # "VOID"
        /\ Sent("VOID") => Sent("VOID")' /\ c.step # "CAPTURE"
    BY DEF Send, Sent
  <1>2. MoneyInv'
    BY <1>1 DEF Inv, MoneyInv, rowVars, pspVars, Attempt
  <1>3. RowInv'
    BY <1>1 DEF Inv, RowInv, rowVars, pspVars, Attempt
  <1>4. WorkInv'
    BY <1>1 DEF Inv, WorkInv, rowVars, pspVars
  <1> QED
    BY <1>2, <1>3, <1>4

LEMMA AuthorizeNewKeeps ==
    ASSUME Inv, NEW w \in Workers, NEW c \in sent, AuthorizeNew(w, c)
    PROVE  MoneyInv' /\ RowInv' /\ WorkInv'
  <1>1. /\ UNCHANGED <<rail, ref, ledger, events, sent, seen, pspVars, faults>>
        /\ row = "NONE" /\ row' = "AUTHORIZING" /\ Begins(w, "AUTHORIZE")
        /\ UNCHANGED <<Sent("CAPTURE"), Sent("VOID")>>
    BY DEF AuthorizeNew, Claim, Calling, UpdatePaymentState, Begins, Sent
  <1>2. \A v \in Workers :
          /\ \A x : On(work', v, x) <=> On(work, v, x) \/ (v = w /\ x = "AUTHORIZE")
          /\ \A x : Calls(work', v, x) <=> Calls(work, v, x) \/ (v = w /\ x = "AUTHORIZE")
          /\ \A x, o : Answered(work', v, x, o) => Answered(work, v, x, o)
          /\ \A x, o : ~On(work, v, x) /\ ~Calls(work, v, x) /\ ~Answered(work, v, x, o)
    BY <1>1, BeginFacts DEF Inv, RowInv, Steps, On, Calls, Answered, NoWork
  <1>3. MoneyInv'
    BY <1>1 DEF Inv, MoneyInv, pspVars, Attempt
  <1>4. RowInv'
    BY <1>1 DEF Inv, RowInv, MoneyInv, pspVars, Attempt
  <1>5. WorkInv'
    BY <1>1, <1>2 DEF Inv, RowInv, WorkInv, pspVars
  <1> QED
    BY <1>3, <1>4, <1>5

LEMMA CaptureBeginKeeps ==
    ASSUME Inv, NEW w \in Workers, NEW c \in sent, CaptureBegin(w, c)
    PROVE  MoneyInv' /\ RowInv' /\ WorkInv'
  <1>1. /\ UNCHANGED <<rail, ref, ledger, events, sent, seen, pspVars, faults>>
        /\ row = "AUTHORIZED" /\ row' = "CAPTURING" /\ Begins(w, "CAPTURE")
        /\ UNCHANGED <<Sent("CAPTURE"), Sent("VOID")>> /\ Sent("CAPTURE")
    BY DEF CaptureBegin, Claim, Calling, UpdatePaymentState, Begins, Sent
  <1>2. \A v \in Workers :
          /\ \A x : On(work', v, x) <=> On(work, v, x) \/ (v = w /\ x = "CAPTURE")
          /\ \A x : Calls(work', v, x) <=> Calls(work, v, x) \/ (v = w /\ x = "CAPTURE")
          /\ \A x, o : Answered(work', v, x, o) => Answered(work, v, x, o)
          /\ work'[v].ref = IF v = w THEN ref ELSE work[v].ref
    BY <1>1, BeginFacts DEF Inv, Steps
  <1>3. MoneyInv'
    BY <1>1 DEF Inv, MoneyInv, pspVars, Attempt
  <1>4. RowInv'
    BY <1>1 DEF Inv, RowInv, MoneyInv, pspVars, Attempt
  <1>5. WorkInv'
    BY <1>1, <1>2 DEF Inv, RowInv, WorkInv, pspVars
  <1> QED
    BY <1>3, <1>4, <1>5

LEMMA VoidBeginKeeps ==
    ASSUME Inv, NEW w \in Workers, NEW c \in sent, VoidBegin(w, c)
    PROVE  MoneyInv' /\ RowInv' /\ WorkInv'
  <1>1. /\ UNCHANGED <<rail, row, ref, ledger, events, sent, seen, pspVars, faults>>
        /\ row \in {"AUTHORIZING", "AUTHORIZED", "CAPTURING"} /\ Begins(w, "VOID")
        /\ UNCHANGED <<Sent("CAPTURE"), Sent("VOID")>> /\ Sent("VOID")
    BY DEF VoidBegin, Claim, Calling, Begins, Sent, rowVars
  <1>2. \A v \in Workers :
          /\ \A x : On(work', v, x) <=> On(work, v, x) \/ (v = w /\ x = "VOID")
          /\ \A x : Calls(work', v, x) <=> Calls(work, v, x) \/ (v = w /\ x = "VOID")
          /\ \A x, o : Answered(work', v, x, o) => Answered(work, v, x, o)
          /\ work'[v].ref = IF v = w THEN ref ELSE work[v].ref
    BY <1>1, BeginFacts DEF Inv, Steps
  <1>3. MoneyInv'
    BY <1>1 DEF Inv, MoneyInv, pspVars, Attempt
  <1>4. RowInv'
    BY <1>1 DEF Inv, RowInv, MoneyInv, pspVars, Attempt
  <1>5. WorkInv'
    BY <1>1, <1>2 DEF Inv, RowInv, WorkInv, pspVars
  <1> QED
    BY <1>3, <1>4, <1>5

\* A command that finds its answer in the row.
LEMMA KnownKeeps ==
    ASSUME Inv, NEW w \in Workers, NEW c \in sent,
           \/ AuthorizeKnown(w, c) \/ CaptureAgain(w, c) \/ VoidTombstone(w, c) \/ VoidAgain(w, c)
    PROVE  MoneyInv' /\ RowInv' /\ WorkInv'
  <1>1. /\ UNCHANGED <<rail, ref, ledger, sent, seen, pspVars, faults, work>>
        /\ UNCHANGED <<Sent("CAPTURE"), Sent("VOID")>>
        /\ \/ row' = row /\ row # "NONE" /\ events' = events \cup EventFor(row)
           \/ row' = row /\ row = "CAPTURED" /\ events' = events \cup {"captured"}
           \/ row' = "VOIDED" /\ row = "NONE" /\ events' = events \cup {"voided"} /\ Sent("VOID")
           \/ row' = row /\ row \in {"VOIDED", "FAILED"} /\ events' = events \cup {"voided"} /\ Sent("VOID")
    BY DEF AuthorizeKnown, CaptureAgain, VoidTombstone, VoidAgain, Claim, Stop,
       UpdatePaymentState, Emit, Sent
  <1>2. events' = events \cup EventFor(row) => 
          /\ "authorized" \in events' => "authorized" \in events \/ row = "AUTHORIZED"
          /\ "captured" \in events' => "captured" \in events \/ row = "CAPTURED"
          /\ "failed" \in events' => "failed" \in events \/ row = "FAILED"
          /\ "voided" \in events' => "voided" \in events \/ row = "VOIDED"
          /\ events \subseteq events'
    BY DEF EventFor
  <1>3. MoneyInv'
    BY <1>1, <1>2 DEF Inv, MoneyInv, pspVars, Attempt
  <1>4. RowInv'
    BY <1>1, <1>2 DEF Inv, RowInv, MoneyInv, pspVars, Attempt
  <1>5. WorkInv'
    BY <1>1 DEF Inv, RowInv, MoneyInv, WorkInv, On, Calls, Answered, NoWork, pspVars
  <1> QED
    BY <1>3, <1>4, <1>5

LEMMA CallAuthorizeKeeps ==
    ASSUME Inv, NEW w \in Workers, CallAuthorize(w)
    PROVE  MoneyInv' /\ RowInv' /\ WorkInv'
  <1>0. PICK a \in AuthorizeAnswers :
           /\ money = "none" /\ Called(w, "AUTHORIZE", a[1]) /\ money' = a[2]
           /\ asked' = asked + 1 /\ UNCHANGED <<failures, callbacks>>
    BY DEF CallAuthorize
  <1>1. /\ UNCHANGED <<rail, rowVars, sent, seen, faults>> /\ Answers(w, "AUTHORIZE", a[1])
        /\ UNCHANGED <<Sent("CAPTURE"), Sent("VOID")>>
        /\ a[1] \in Outcomes
        /\ a[2] \in {"none", "pending", "held", "refused"}
        /\ a[1] = "approved" => rail \in {"mock", "cod"} /\ a[2] = "held"
        /\ a[1] = "declined" => a[2] = "refused"
        /\ rail \in {"mock", "cod"} => a[2] # "pending"
    BY <1>0, AnswerFacts DEF Called, Answers, Sent, Inv
  <1>2. /\ On(work, w, "AUTHORIZE") /\ Calls(work, w, "AUTHORIZE")
        /\ \A v \in Workers :
             /\ \A x : On(work', v, x) <=> On(work, v, x)
             /\ \A x : Calls(work', v, x) => Calls(work, v, x) /\ v # w /\ work'[v] = work[v]
             /\ \A x, o : Answered(work', v, x, o) =>
                           Answered(work, v, x, o) \/ (v = w /\ x = "AUTHORIZE" /\ o = a[1])
    BY <1>1, CalledFacts DEF Inv, Steps, Outcomes
  <1>3. asked = 0 /\ asked' = 1 /\ row \in {"AUTHORIZING", "VOIDED"} /\ ~ref /\ callbacks = {}
        /\ (row = "VOIDED" => rail = "mock")
    BY <1>0, <1>2 DEF Inv, WorkInv, MoneyInv, RowInv, Approved
  <1>4. MoneyInv'
    BY <1>0, <1>1, <1>3 DEF Inv, MoneyInv, rowVars, Attempt
  <1>5. RowInv'
    <2>1. "failed" \notin events /\ "authorized" \notin events /\ row # "FAILED"
      BY <1>0, <1>3 DEF Inv, RowInv, MoneyInv, Approved
    <2>2. ~(\A v \in Workers : work[v] = NoWork)
      BY <1>2 DEF On
    <2>3. rail # "mock" => "voided" \notin events
      BY <1>0, <1>3 DEF Inv, RowInv, MoneyInv
    <2> QED
      BY <1>0, <1>1, <1>3, <2>1, <2>2, <2>3 DEF Inv, RowInv, rowVars, Attempt
  <1>6. WorkInv'
    <2>1. \A v \in Workers : ~Answered(work, v, "VOID", "approved") \/ rail = "mock"
      BY <1>0 DEF Inv, WorkInv
    <2>2. \A v \in Workers : \A x : Answered(work, v, "AUTHORIZE", x) => v = w
      BY <1>2, InHandler DEF Inv, WorkInv
    <2>3. \A v \in Workers : Calls(work, v, "AUTHORIZE") => v = w
      BY <1>2, InHandler DEF Inv, WorkInv
    <2>4. \A x : ~Answered(work, w, "AUTHORIZE", x)
      BY <1>2 DEF Answered, Calls
    <2> QED
      BY <1>0, <1>1, <1>2, <1>3, <2>1, <2>2, <2>3, <2>4 DEF Inv, WorkInv, rowVars
  <1> QED
    BY <1>4, <1>5, <1>6

LEMMA CallCaptureKeeps ==
    ASSUME Inv, NEW w \in Workers, CallCapture(w)
    PROVE  MoneyInv' /\ RowInv' /\ WorkInv'
  <1>0. PICK r \in {"approved", "unknown"} : Called(w, "CAPTURE", r)
    BY DEF CallCapture
  <1>1. /\ UNCHANGED <<rail, row, ref, ledger, events, sent, seen, faults, asked, failures, callbacks>>
        /\ money' = money \/ (rail = "mock" /\ money = "held" /\ money' = "taken")
        /\ Answers(w, "CAPTURE", r)
        /\ UNCHANGED <<Sent("CAPTURE"), Sent("VOID")>>
    BY <1>0 DEF CallCapture, Called, Answers, Sent, pspVars, rowVars, SupportsCapture
  <1>2. /\ On(work, w, "CAPTURE") /\ Calls(work, w, "CAPTURE")
        /\ \A v \in Workers :
             /\ \A x : On(work', v, x) <=> On(work, v, x)
             /\ \A x : Calls(work', v, x) => Calls(work, v, x) /\ v # w /\ work'[v] = work[v]
             /\ \A x, o : Answered(work', v, x, o) =>
                           Answered(work, v, x, o) \/ (v = w /\ x = "CAPTURE" /\ o = r)
    BY <1>1, CalledFacts DEF Inv, Steps, Outcomes
  <1>2a. row \in {"CAPTURING", "FAILED"} /\ ref
    BY <1>2 DEF Inv, WorkInv
  <1>3. MoneyInv'
    BY <1>1, <1>2a, RailFacts DEF Inv, MoneyInv, RowInv, WorkInv, Approved, pspVars, Attempt
  <1>4. RowInv'
    BY <1>1, <1>2, <1>2a, RailFacts DEF Inv, RowInv, MoneyInv, WorkInv, Approved, NoWork, pspVars, Attempt
  <1>5. WorkInv'
    BY <1>1, <1>2, <1>2a, RailFacts DEF Inv, RowInv, MoneyInv, WorkInv, Approved, pspVars
  <1> QED
    BY <1>3, <1>4, <1>5

LEMMA CallVoidKeeps ==
    ASSUME Inv, NEW w \in Workers, CallVoid(w)
    PROVE  MoneyInv' /\ RowInv' /\ WorkInv'
  <1> DEFINE reverses == rail # "mock" /\ work[w].ref /\ money \in {"held", "taken"}
  <1>0. PICK r \in {"approved", "unknown"} :
           /\ Called(w, "VOID", r)
           /\ r = "approved" => rail = "mock" \/ work[w].ref
           /\ \/ reverses /\ money' = "reversed" /\ callbacks' = callbacks \cup {Callback(0, "voided")}
              \/ (r = "unknown" \/ ~reverses) /\ UNCHANGED <<money, callbacks>>
    BY DEF CallVoid
  <1>1. /\ UNCHANGED <<rail, row, ref, ledger, events, sent, seen, faults, asked, failures>>
        /\ Answers(w, "VOID", r)
        /\ UNCHANGED <<Sent("CAPTURE"), Sent("VOID")>>
    BY <1>0 DEF CallVoid, Called, Answers, Sent, rowVars
  <1>2. /\ On(work, w, "VOID") /\ Calls(work, w, "VOID")
        /\ \A v \in Workers :
             /\ \A x : On(work', v, x) <=> On(work, v, x)
             /\ \A x : Calls(work', v, x) => Calls(work, v, x) /\ v # w /\ work'[v] = work[v]
             /\ \A x, o : Answered(work', v, x, o) =>
                           Answered(work, v, x, o) \/ (v = w /\ x = "VOID" /\ o = r)
    BY <1>1, CalledFacts DEF Inv, Steps, Outcomes
  <1>3. Sent("VOID") /\ ~Sent("CAPTURE") /\ (work[w].ref => ref)
    BY <1>2 DEF Inv, WorkInv, RowInv
  <1>4. \/ /\ rail # "mock" /\ ref /\ money \in {"held", "taken"} /\ money' = "reversed"
           /\ callbacks' = callbacks \cup {Callback(0, "voided")}
        \/ /\ UNCHANGED <<money, callbacks>>
           /\ r = "approved" /\ rail # "mock" => money = "reversed"
    BY <1>0, <1>3 DEF Inv, RowInv, MoneyInv, Approved
  <1>5. MoneyInv'
    <2>1. \A b \in callbacks' : b \in callbacks \/ (b.says = "voided" /\ money' = "reversed")
      BY <1>4 DEF Callback
    <2> QED
      BY <1>1, <1>3, <1>4, <2>1 DEF Inv, MoneyInv, Approved, Attempt
  <1>6. RowInv'
    <2>1. ~(\A v \in Workers : work[v] = NoWork)
      BY <1>2 DEF On
    <2> QED
      BY <1>1, <1>3, <1>4, <2>1 DEF Inv, MoneyInv, RowInv, Approved, Attempt
  <1>7. WorkInv'
    BY <1>1, <1>2, <1>3, <1>4 DEF Inv, RowInv, WorkInv, Approved
  <1> QED
    BY <1>5, <1>6, <1>7

\* The handler ends without touching the row, or dies.
LEMMA OpenKeeps ==
    ASSUME Inv, NEW w \in Workers,
           AuthorizeOpen(w) \/ CaptureOpen(w) \/ VoidOpen(w) \/ Crash(w)
    PROVE  MoneyInv' /\ RowInv' /\ WorkInv'
  <1>1. /\ UNCHANGED <<rail, row, ref, ledger, events, sent, seen, money, asked, failures, callbacks>>
        /\ UNCHANGED <<Sent("CAPTURE"), Sent("VOID")>> /\ Ends(w)
    BY DEF AuthorizeOpen, CaptureOpen, VoidOpen, Crash, Outcome, Sent, rowVars, pspVars, Ends
  <1>2. \A v \in Workers :
          /\ \A x : On(work', v, x) => On(work, v, x) /\ v # w
          /\ \A x : Calls(work', v, x) => Calls(work, v, x) /\ v # w /\ work'[v] = work[v]
          /\ \A x, o : Answered(work', v, x, o) => Answered(work, v, x, o) /\ v # w
    BY <1>1, EndFacts DEF Inv
  <1>3. MoneyInv'
    BY <1>1 DEF Inv, MoneyInv, Attempt
  <1>4. RowInv'
    <2>1. (\A v \in Workers : work[v] = NoWork) => (\A v \in Workers : work'[v] = NoWork)
      BY <1>1 DEF Ends, Inv, TypeOK
    <2> QED
      BY <1>1, <2>1 DEF Inv, RowInv, Attempt
  <1>5. WorkInv'
    BY <1>1, <1>2 DEF Inv, WorkInv
  <1> QED
    BY <1>3, <1>4, <1>5

LEMMA AuthorizeApprovedKeeps ==
    ASSUME Inv, NEW w \in Workers, AuthorizeApproved(w)
    PROVE  /\ MoneyInv' /\ RowInv' /\ WorkInv'
           /\ row \notin {"CAPTURED", "FAILED"} /\ (row = "VOIDED" => rail = "mock")
  <1>1. /\ UNCHANGED <<rail, ledger, sent, seen, money, asked, failures, callbacks>>
        /\ UNCHANGED <<Sent("CAPTURE"), Sent("VOID")>> /\ Ends(w)
        /\ row' = "AUTHORIZED" /\ ref' = TRUE /\ events' = events \cup {"authorized"}
        /\ Answered(work, w, "AUTHORIZE", "approved")
    BY DEF AuthorizeApproved, Outcome, Sent, pspVars, Ends, UpdatePaymentState, Emit, Answered
  <1>2. \A v \in Workers :
          /\ \A x : On(work', v, x) => On(work, v, x) /\ v # w
          /\ \A x : Calls(work', v, x) => Calls(work, v, x) /\ v # w /\ work'[v] = work[v]
          /\ \A x, o : Answered(work', v, x, o) => Answered(work, v, x, o) /\ v # w
    BY <1>1, EndFacts DEF Inv
  <1>3. /\ ~ref /\ money = "held" /\ rail \in {"mock", "cod"} /\ row \in {"AUTHORIZING", "VOIDED"}
        /\ (row = "VOIDED" => rail = "mock") /\ On(work, w, "AUTHORIZE")
    BY <1>1, InHandler DEF Inv, WorkInv
  <1>4. MoneyInv'
    BY <1>1, <1>3 DEF Inv, MoneyInv, Attempt
  <1>5. RowInv'
    BY <1>1, <1>3 DEF Inv, RowInv, MoneyInv, Approved, Attempt
  <1>6. WorkInv'
    <2>1. \A v \in Workers : v # w => ~Calls(work, v, "AUTHORIZE") /\ ~Answered(work, v, "AUTHORIZE", "approved")
      BY <1>3, InHandler DEF Inv, WorkInv
    <2>2. \A v \in Workers : ~On(work, v, "CAPTURE")
      BY <1>3 DEF Inv, WorkInv
    <2> QED
      BY <1>1, <1>2, <2>1, <2>2 DEF Inv, WorkInv
  <1> QED
    BY <1>3, <1>4, <1>5, <1>6

LEMMA AuthorizeDeclinedKeeps ==
    ASSUME Inv, NEW w \in Workers, AuthorizeDeclined(w)
    PROVE  /\ MoneyInv' /\ RowInv' /\ WorkInv'
           /\ row # "CAPTURED" /\ (row = "VOIDED" => rail = "mock") /\ row' = "FAILED"
  <1>1. /\ UNCHANGED <<rail, ref, ledger, sent, seen, money, asked, failures, callbacks>>
        /\ UNCHANGED <<Sent("CAPTURE"), Sent("VOID")>> /\ Ends(w)
        /\ row' = "FAILED" /\ events' = events \cup {"failed"}
        /\ Answered(work, w, "AUTHORIZE", "declined")
    BY DEF AuthorizeDeclined, Outcome, Sent, pspVars, Ends, UpdatePaymentState, Emit, Answered
  <1>2. \A v \in Workers :
          /\ \A x : On(work', v, x) => On(work, v, x) /\ v # w
          /\ \A x : Calls(work', v, x) => Calls(work, v, x) /\ v # w /\ work'[v] = work[v]
          /\ \A x, o : Answered(work', v, x, o) => Answered(work, v, x, o) /\ v # w
    BY <1>1, EndFacts DEF Inv
  <1>3. money = "refused" /\ On(work, w, "AUTHORIZE") /\ asked # 0
    BY <1>1, InHandler DEF Inv, WorkInv, MoneyInv
  <1>4. ~ref /\ row # "CAPTURED" /\ row # "CAPTURING" /\ ~Sent("CAPTURE")
        /\ (row = "VOIDED" => rail = "mock")
    BY <1>3 DEF Inv, RowInv, Approved
  <1>5. MoneyInv'
    BY <1>1, <1>3 DEF Inv, MoneyInv, Attempt
  <1>6. RowInv'
    BY <1>1, <1>3, <1>4 DEF Inv, RowInv, MoneyInv, Approved, Attempt
  <1>7. WorkInv'
    <2>1. \A v \in Workers : v # w => ~Calls(work, v, "AUTHORIZE") /\ ~Answered(work, v, "AUTHORIZE", "approved")
      BY <1>3, InHandler DEF Inv, WorkInv
    <2>2. \A v \in Workers : ~On(work, v, "CAPTURE")
      BY <1>4 DEF Inv, WorkInv
    <2> QED
      BY <1>1, <1>2, <2>1, <2>2 DEF Inv, WorkInv
  <1> QED
    BY <1>1, <1>4, <1>5, <1>6, <1>7

LEMMA CaptureApprovedKeeps ==
    ASSUME Inv, NEW w \in Workers, CaptureApproved(w)
    PROVE  MoneyInv' /\ RowInv' /\ WorkInv' /\ row \in {"CAPTURING", "FAILED"} /\ ref
  <1>1. /\ UNCHANGED <<rail, ref, sent, seen, money, asked, failures, callbacks>>
        /\ UNCHANGED <<Sent("CAPTURE"), Sent("VOID")>> /\ Ends(w)
        /\ row' = "CAPTURED" /\ events' = events \cup {"captured"} /\ ledger' = ledger + 1
        /\ Answered(work, w, "CAPTURE", "approved")
    BY DEF CaptureApproved, Outcome, Sent, pspVars, Ends, UpdatePaymentState, Emit, Answered
  <1>2. \A v \in Workers :
          /\ \A x : On(work', v, x) => On(work, v, x) /\ v # w
          /\ \A x : Calls(work', v, x) => Calls(work, v, x) /\ v # w /\ work'[v] = work[v]
          /\ \A x, o : Answered(work', v, x, o) => Answered(work, v, x, o) /\ v # w
    BY <1>1, EndFacts DEF Inv
  <1>3. On(work, w, "CAPTURE") /\ row \in {"CAPTURING", "FAILED"} /\ ref /\ Sent("CAPTURE")
    BY <1>1, InHandler DEF Inv, WorkInv
  <1>4. ref /\ ledger = 0 /\ ledger' = 1 /\ Sent("CAPTURE") /\ ~Sent("VOID")
    BY <1>1, <1>3 DEF Inv, RowInv
  <1>5. MoneyInv'
    BY <1>1 DEF Inv, MoneyInv, Attempt
  <1>6. RowInv'
    BY <1>1, <1>3, <1>4 DEF Inv, RowInv, MoneyInv, Approved, Attempt
  <1>7. WorkInv'
    <2>1. \A v \in Workers : ~Calls(work, v, "AUTHORIZE") /\ ~Answered(work, v, "AUTHORIZE", "approved")
      BY <1>3 DEF Inv, WorkInv
    <2>2. \A v \in Workers : On(work, v, "CAPTURE") => v = w
      BY <1>3 DEF Inv, WorkInv
    <2> QED
      BY <1>1, <1>2, <2>1, <2>2 DEF Inv, WorkInv
  <1> QED
    BY <1>3, <1>5, <1>6, <1>7

LEMMA VoidApprovedKeeps ==
    ASSUME Inv, NEW w \in Workers, VoidApproved(w)
    PROVE  /\ MoneyInv' /\ RowInv' /\ WorkInv'
           /\ row # "CAPTURED" /\ (row = "FAILED" => rail = "mock" \/ failures > 0)
           /\ row' = "VOIDED"
  <1>1. /\ UNCHANGED <<rail, ref, ledger, sent, seen, money, asked, failures, callbacks>>
        /\ UNCHANGED <<Sent("CAPTURE"), Sent("VOID")>> /\ Ends(w)
        /\ row' = "VOIDED" /\ events' = events \cup {"voided"}
        /\ Answered(work, w, "VOID", "approved")
    BY DEF VoidApproved, Outcome, Sent, pspVars, Ends, UpdatePaymentState, Emit, Answered
  <1>2. \A v \in Workers :
          /\ \A x : On(work', v, x) => On(work, v, x) /\ v # w
          /\ \A x : Calls(work', v, x) => Calls(work, v, x) /\ v # w /\ work'[v] = work[v]
          /\ \A x, o : Answered(work', v, x, o) => Answered(work, v, x, o) /\ v # w
    BY <1>1, EndFacts DEF Inv
  <1>3. On(work, w, "VOID") /\ Sent("VOID") /\ (rail # "mock" => money = "reversed")
    BY <1>1, InHandler DEF Inv, WorkInv
  <1>4. /\ ~Sent("CAPTURE") /\ row \notin {"CAPTURED", "CAPTURING", "NONE"}
        /\ (row = "FAILED" => rail = "mock" \/ failures > 0) /\ (rail # "mock" => ref)
    BY <1>3 DEF Inv, RowInv, MoneyInv, On
  <1>5. MoneyInv'
    BY <1>1, <1>4 DEF Inv, MoneyInv, RowInv, Attempt
  <1>6. RowInv'
    BY <1>1, <1>3, <1>4 DEF Inv, RowInv, MoneyInv, Approved, Attempt
  <1>7. WorkInv'
    <2>1. \A v \in Workers : Calls(work, v, "AUTHORIZE") \/ Answered(work, v, "AUTHORIZE", "approved") => rail = "mock"
      BY <1>3, <1>4 DEF Inv, WorkInv, MoneyInv
    <2>2. \A v \in Workers : ~On(work, v, "CAPTURE")
      BY <1>4 DEF Inv, WorkInv
    <2> QED
      BY <1>1, <1>2, <2>1, <2>2 DEF Inv, WorkInv
  <1> QED
    BY <1>1, <1>4, <1>5, <1>6, <1>7

\* The money moves outside the service, or an attempt ends.
LEMMA HappensKeeps ==
    ASSUME Inv, AttemptPends \/ CustomerApproves \/ CustomerFails \/ CourierCollects \/ SupportRefunds
    PROVE  MoneyInv' /\ RowInv' /\ WorkInv'
  <1>1. /\ UNCHANGED <<rail, row, ref, ledger, events, sent, seen, work, asked>>
        /\ UNCHANGED <<Sent("CAPTURE"), Sent("VOID")>>
        /\ \/ /\ money = "pending" /\ money' = "pending" /\ UNCHANGED failures
              /\ callbacks' = callbacks \cup {Callback(Attempt, "pending")}
           \/ /\ money = "pending" /\ money' \in {"held", "taken"} /\ UNCHANGED failures
              /\ callbacks' = callbacks \cup {Callback(Attempt, "authorized")}
           \/ /\ money = "pending" /\ money' = "pending" /\ failures' = failures + 1
              /\ callbacks' = callbacks \cup {Callback(Attempt, "failed")}
           \/ /\ rail = "cod" /\ "captured" \in events /\ money = "held" /\ money' = "taken"
              /\ callbacks' = callbacks \cup {Callback(0, "captured")} /\ UNCHANGED failures
           \/ /\ row = "CAPTURED" /\ money = "taken" /\ money' = "refunded"
              /\ callbacks' = callbacks \cup {Callback(0, "refunded")} /\ UNCHANGED failures
    BY DEF AttemptPends, CustomerApproves, CustomerFails, CourierCollects, SupportRefunds, Happens,
       Sent, rowVars
  <1>2. failures \in Nat /\ (money = "pending" => ~ref)
    BY PaymentAssumption DEF Inv, TypeOK, RowInv, Approved
  <1>3. MoneyInv'
    <2>1. CASE money = "pending" /\ UNCHANGED failures
      BY <1>1, <1>2, <2>1 DEF Inv, MoneyInv, Approved, Attempt, Callback
    <2>2. CASE failures' = failures + 1
      <3>1. \A b \in callbacks' : b \in callbacks \/ (b.says = "failed" /\ b.txn = Attempt)
        BY <1>1, <1>2, <2>2 DEF Callback
      <3>2. \A b \in callbacks : b.says # "authorized"
        BY <1>1, <1>2, <2>2 DEF Inv, MoneyInv, Approved, Attempt
      <3> QED
        BY <1>1, <1>2, <2>2, <3>1, <3>2 DEF Inv, MoneyInv, Attempt
    <2>3. CASE money \in {"held", "taken"}
      BY <1>1, <1>2, <2>3 DEF Inv, MoneyInv, RowInv, Approved, Attempt, Callback
    <2> QED
      BY <1>1, <2>1, <2>2, <2>3
  <1>4. RowInv'
    BY <1>1, <1>2 DEF Inv, RowInv, MoneyInv, Approved, Attempt
  <1>5. WorkInv'
    BY <1>1, <1>2 DEF Inv, MoneyInv, RowInv, WorkInv
  <1> QED
    BY <1>3, <1>4, <1>5

LEMMA CallbackAuthorizedKeeps ==
    ASSUME Inv, NEW b \in callbacks, CallbackAuthorized(b)
    PROVE  /\ MoneyInv' /\ RowInv' /\ WorkInv'
           /\ row \in {"AUTHORIZING", "FAILED"} /\ (row = "FAILED" => failures > 0)
  <1>1. /\ UNCHANGED <<rail, ledger, sent, work, money, asked, failures, callbacks>>
        /\ UNCHANGED <<Sent("CAPTURE"), Sent("VOID")>>
        /\ b.says = "authorized" /\ Key(b) \notin seen /\ seen' = seen \cup {Key(b)}
        /\ \/ row \in {"AUTHORIZED", "CAPTURED"} /\ UNCHANGED <<row, ref, events>>
           \/ /\ row \notin {"AUTHORIZED", "CAPTURED"} /\ row' = "AUTHORIZED" /\ ref' = TRUE
              /\ events' = events \cup {"authorized"}
    BY DEF CallbackAuthorized, Deliver, Sent, rowVars, pspVars, UpdatePaymentState, Emit
  <1>2. Key(b) = <<Attempt, "authorized">>
    BY <1>1 DEF Key, Inv, MoneyInv
  <1>3. rail \in {"wallet", "card"} /\ ~ref /\ money \in {"held", "taken"} /\ asked # 0
    BY <1>1, <1>2, RailFacts DEF Inv, MoneyInv, RowInv, Approved
  <1>4. /\ row \in {"AUTHORIZING", "FAILED"} /\ (row = "FAILED" => failures > 0)
        /\ row' = "AUTHORIZED" /\ ref' = TRUE /\ events' = events \cup {"authorized"}
    BY <1>1, <1>3 DEF Inv, MoneyInv, RowInv, TypeOK, RowStates
  <1>5. MoneyInv'
    BY <1>1, <1>3, <1>4 DEF Inv, MoneyInv, Approved, Attempt
  <1>6. RowInv'
    BY <1>1, <1>2, <1>3, <1>4 DEF Inv, RowInv, MoneyInv, Approved, Attempt
  <1>7. WorkInv'
    <2>1. \A w \in Workers : ~On(work, w, "CAPTURE")
      BY <1>3 DEF Inv, WorkInv
    <2> QED
      BY <1>1, <1>3, <1>4, <2>1 DEF Inv, WorkInv
  <1> QED
    BY <1>4, <1>5, <1>6, <1>7

LEMMA CallbackFailedKeeps ==
    ASSUME Inv, NEW b \in callbacks, CallbackFailed(b)
    PROVE  /\ MoneyInv' /\ RowInv' /\ WorkInv'
           /\ row' = row \/ (failures > 0 /\ row # "CAPTURED" /\ row' = "FAILED")
  <1>1. /\ UNCHANGED <<rail, ref, ledger, sent, work, money, asked, failures, callbacks>>
        /\ UNCHANGED <<Sent("CAPTURE"), Sent("VOID")>>
        /\ b.says = "failed" /\ seen \subseteq seen'
        /\ \/ row \in {"AUTHORIZED", "CAPTURED"} /\ UNCHANGED <<row, ref, events>>
           \/ /\ row \notin {"AUTHORIZED", "CAPTURED"}
              /\ row' = "FAILED" /\ events' = events \cup {"failed"}
    BY DEF CallbackFailed, Deliver, Sent, rowVars, pspVars, UpdatePaymentState, Emit
  <1>2. /\ rail \in {"wallet", "card"} /\ failures > 0 /\ money \notin {"none", "refused"}
        /\ asked # 0
    BY <1>1, RailFacts DEF Inv, MoneyInv
  <1>3. CASE row \in {"AUTHORIZED", "CAPTURED"} /\ UNCHANGED <<row, ref, events>>
    <2>1. events' = events
      BY <1>3
    <2>2. MoneyInv'
      BY <1>1, <1>3, <2>1 DEF Inv, MoneyInv, Attempt
    <2>3. RowInv'
      BY <1>1, <1>3, <2>1 DEF Inv, RowInv, Attempt
    <2>4. WorkInv'
      BY <1>1, <1>3, <2>1 DEF Inv, WorkInv
    <2> QED
      BY <1>3, <2>2, <2>3, <2>4
  <1>4. CASE row \notin {"AUTHORIZED", "CAPTURED"} /\ row' = "FAILED" /\ events' = events \cup {"failed"}
    <2>1. MoneyInv'
      BY <1>1, <1>2, <1>4 DEF Inv, MoneyInv, Attempt
    <2>2. RowInv'
      BY <1>1, <1>2, <1>4 DEF Inv, RowInv, MoneyInv, Attempt
    <2>3. WorkInv'
      BY <1>1, <1>2, <1>4 DEF Inv, MoneyInv, WorkInv, Attempt
    <2> QED
      BY <1>2, <1>4, <2>1, <2>2, <2>3
  <1> QED
    BY <1>1, <1>3, <1>4

LEMMA CallbackCapturedKeeps ==
    ASSUME Inv, NEW b \in callbacks, CallbackCaptured(b)
    PROVE  MoneyInv' /\ RowInv' /\ WorkInv' /\ row' = row
  <1>1. /\ UNCHANGED <<rail, ref, sent, work, money, asked, failures, callbacks>>
        /\ UNCHANGED <<Sent("CAPTURE"), Sent("VOID")>>
        /\ b.says = "captured" /\ seen \subseteq seen'
        /\ row' = "CAPTURED" /\ events' = events \cup {"captured"}
    BY DEF CallbackCaptured, Deliver, Sent, rowVars, pspVars, UpdatePaymentState, Emit
  <1>2. rail = "cod" /\ row = "CAPTURED" /\ events' = events
    BY <1>1 DEF Inv, MoneyInv, RowInv
  <1>3. MoneyInv'
    BY <1>1, <1>2 DEF Inv, MoneyInv, Attempt
  <1>4. RowInv'
    BY <1>1, <1>2 DEF Inv, RowInv, Attempt
  <1>5. WorkInv'
    BY <1>1, <1>2 DEF Inv, WorkInv
  <1> QED
    BY <1>1, <1>2, <1>3, <1>4, <1>5

LEMMA CallbackVoidedKeeps ==
    ASSUME Inv, NEW b \in callbacks, CallbackVoided(b)
    PROVE  /\ MoneyInv' /\ RowInv' /\ WorkInv'
           /\ row # "CAPTURED" /\ (row = "FAILED" => failures > 0) /\ row' = "VOIDED"
  <1>1. /\ UNCHANGED <<rail, ref, ledger, sent, work, money, asked, failures, callbacks>>
        /\ UNCHANGED <<Sent("CAPTURE"), Sent("VOID")>>
        /\ b.says = "voided" /\ seen \subseteq seen'
        /\ row' = "VOIDED" /\ events' = events \cup {"voided"}
    BY DEF CallbackVoided, Deliver, Sent, rowVars, pspVars, UpdatePaymentState, Emit
  <1>2. money = "reversed" /\ rail # "mock" /\ ref /\ Sent("VOID") /\ ~Sent("CAPTURE") /\ asked # 0
    BY <1>1 DEF Inv, MoneyInv, RowInv
  <1>3. row \notin {"CAPTURED", "CAPTURING", "NONE"} /\ (row = "FAILED" => failures > 0)
    BY <1>2 DEF Inv, RowInv
  <1>4. MoneyInv'
    BY <1>1, <1>2 DEF Inv, MoneyInv, Attempt
  <1>5. RowInv'
    BY <1>1, <1>2, <1>3 DEF Inv, RowInv, MoneyInv, Approved, Attempt
  <1>6. WorkInv'
    BY <1>1, <1>2, <1>3 DEF Inv, WorkInv
  <1> QED
    BY <1>1, <1>3, <1>4, <1>5, <1>6

LEMMA CallbackNotedKeeps ==
    ASSUME Inv, NEW b \in callbacks, CallbackNoted(b)
    PROVE  MoneyInv' /\ RowInv' /\ WorkInv' /\ row' = row
  <1>1. /\ UNCHANGED <<rail, row, ref, ledger, events, sent, work, money, asked, failures, callbacks>>
        /\ UNCHANGED <<Sent("CAPTURE"), Sent("VOID")>> /\ seen \subseteq seen'
    BY DEF CallbackNoted, Deliver, Sent, rowVars, pspVars
  <1>2. MoneyInv'
    BY <1>1 DEF Inv, MoneyInv, Attempt
  <1>3. RowInv'
    BY <1>1 DEF Inv, RowInv, Attempt
  <1>4. WorkInv'
    BY <1>1 DEF Inv, WorkInv
  <1> QED
    BY <1>1, <1>2, <1>3, <1>4

LEMMA InvStep == Inv /\ [Next]_vars => Inv'
  <1> SUFFICES ASSUME Inv, [Next]_vars
               PROVE  MoneyInv' /\ RowInv' /\ WorkInv'
    BY TypeStep DEF Inv
  <1>1. ASSUME NEW c \in Commands, Send(c)
        PROVE  MoneyInv' /\ RowInv' /\ WorkInv'
    BY <1>1, SendKeeps
  <1>2. ASSUME NEW w \in Workers, NEW c \in sent,
               \/ AuthorizeNew(w, c) \/ AuthorizeKnown(w, c)
               \/ CaptureBegin(w, c) \/ CaptureAgain(w, c)
               \/ VoidTombstone(w, c) \/ VoidAgain(w, c) \/ VoidBegin(w, c)
        PROVE  MoneyInv' /\ RowInv' /\ WorkInv'
    BY <1>2, AuthorizeNewKeeps, CaptureBeginKeeps, VoidBeginKeeps, KnownKeeps
  <1>3. ASSUME NEW w \in Workers,
               \/ CallAuthorize(w) \/ AuthorizeApproved(w) \/ AuthorizeDeclined(w) \/ AuthorizeOpen(w)
               \/ CallCapture(w) \/ CaptureApproved(w) \/ CaptureOpen(w)
               \/ CallVoid(w) \/ VoidApproved(w) \/ VoidOpen(w) \/ Crash(w)
        PROVE  MoneyInv' /\ RowInv' /\ WorkInv'
    BY <1>3, CallAuthorizeKeeps, CallCaptureKeeps, CallVoidKeeps, OpenKeeps,
       AuthorizeApprovedKeeps, AuthorizeDeclinedKeeps, CaptureApprovedKeeps, VoidApprovedKeeps
  <1>4. CASE AttemptPends \/ CustomerApproves \/ CustomerFails \/ CourierCollects \/ SupportRefunds
    BY <1>4, HappensKeeps
  <1>5. ASSUME NEW b \in callbacks,
               \/ CallbackAuthorized(b) \/ CallbackFailed(b) \/ CallbackCaptured(b)
               \/ CallbackVoided(b) \/ CallbackNoted(b)
        PROVE  MoneyInv' /\ RowInv' /\ WorkInv'
    BY <1>5, CallbackAuthorizedKeeps, CallbackFailedKeeps, CallbackCapturedKeeps,
       CallbackVoidedKeeps, CallbackNotedKeeps
  <1>6. CASE UNCHANGED vars
    BY <1>6 DEF vars, rowVars, pspVars, Inv, MoneyInv, RowInv, WorkInv, Sent, Attempt
  <1> QED
    BY <1>1, <1>2, <1>3, <1>4, <1>5, <1>6 DEF Next, HandleCallback

LEMMA InvInit == Init => Inv
  <1>1. Init => MoneyInv /\ RowInv
    BY DEF Init, MoneyInv, RowInv, Sent
  <1>2. Init => WorkInv
    BY DEF Init, WorkInv, On, Calls, Answered, NoWork
  <1> QED
    BY <1>1, <1>2, TypeInit DEF Inv

\* The provider is asked to authorize at most once and revenue is booked once
\* (cash on delivery aside), whatever is resent, repeated or interrupted.
THEOREM ChargeIsUnique == Spec => []ChargedOnce
  <1>1. Inv => ChargedOnce
    BY DEF Inv, MoneyInv, RowInv, ChargedOnce
  <1> QED
    BY <1>1, InvInit, InvStep, PTL DEF Spec

\* The saga is told "authorized" only of money the provider approved, and
\* "failed" or "voided" of money it still has only if the customer paid after an
\* attempt that failed, in every interleaving of two handlers, any number of
\* attempts, the provider's callbacks, lost answers and crashes.
THEOREM AnswersAreTrue == Spec => []ToldIsTrue
  <1>1. Inv => ToldIsTrue
    BY DEF Inv, MoneyInv, RowInv, ToldIsTrue, Approved, Charged
  <1> QED
    BY <1>1, InvInit, InvStep, PTL DEF Spec

\* A captured payment stays captured and, on the real rails, a voided or failed
\* one moves only after a failed attempt, a voided one never back to life:
\* UpdatePaymentState is called without looking at the state after the provider
\* answered.
THEOREM SettlementIsFinal == Spec => SettledIsFinal
  <1>1. Inv /\ [Next]_vars =>
           [ /\ row = "CAPTURED" => row' = "CAPTURED"
             /\ rail # "mock" /\ row \in {"VOIDED", "FAILED"} /\ row' # row => failures > 0
             /\ rail # "mock" /\ row = "VOIDED" => row' \in {"VOIDED", "FAILED"} ]_vars
    <2> SUFFICES ASSUME Inv, Next, row \in {"CAPTURED", "VOIDED", "FAILED"},
                        row # "CAPTURED" => rail # "mock"
                 PROVE  row' = row \/ (/\ row # "CAPTURED" /\ failures > 0
                                       /\ row = "VOIDED" => row' = "FAILED")
      BY DEF vars, rowVars
    <2>1. ASSUME NEW w \in Workers,
                 \/ CallAuthorize(w) \/ AuthorizeOpen(w) \/ CallCapture(w) \/ CaptureOpen(w)
                 \/ CallVoid(w) \/ VoidOpen(w) \/ Crash(w)
          PROVE  row' = row
      BY <2>1 DEF CallAuthorize, CallCapture, CallVoid, Called, AuthorizeOpen, CaptureOpen,
         VoidOpen, Crash, rowVars
    <2>2. ASSUME NEW w \in Workers,
                 AuthorizeApproved(w) \/ AuthorizeDeclined(w) \/ CaptureApproved(w) \/ VoidApproved(w)
          PROVE  row' = row \/ (row = "FAILED" /\ failures > 0)
      <3>1. CASE AuthorizeApproved(w) \/ AuthorizeDeclined(w) \/ VoidApproved(w)
        BY <3>1, AuthorizeApprovedKeeps, AuthorizeDeclinedKeeps, VoidApprovedKeeps
      <3>2. CASE CaptureApproved(w)
        <4>1. row = "FAILED" /\ ref
          BY <3>2, CaptureApprovedKeeps
        <4> QED
          BY <4>1 DEF Inv, RowInv, Approved
      <3> QED
        BY <2>2, <3>1, <3>2
    <2>3. ASSUME NEW w \in Workers, NEW c \in sent,
                 \/ AuthorizeNew(w, c) \/ AuthorizeKnown(w, c)
                 \/ CaptureBegin(w, c) \/ CaptureAgain(w, c)
                 \/ VoidTombstone(w, c) \/ VoidAgain(w, c) \/ VoidBegin(w, c)
          PROVE  row' = row
      BY <2>3 DEF AuthorizeNew, AuthorizeKnown, CaptureBegin, CaptureAgain, VoidTombstone,
         VoidAgain, VoidBegin, rowVars
    <2>4. ASSUME NEW b \in callbacks,
                 \/ CallbackAuthorized(b) \/ CallbackFailed(b) \/ CallbackCaptured(b)
                 \/ CallbackVoided(b) \/ CallbackNoted(b)
          PROVE  row' = row \/ (/\ row # "CAPTURED" /\ failures > 0
                                /\ row = "VOIDED" => row' = "FAILED")
      BY <2>4, CallbackAuthorizedKeeps, CallbackFailedKeeps, CallbackCapturedKeeps,
         CallbackVoidedKeeps, CallbackNotedKeeps
    <2>5. CASE AttemptPends \/ CustomerApproves \/ CustomerFails \/ CourierCollects \/ SupportRefunds
      BY <2>5 DEF AttemptPends, CustomerApproves, CustomerFails, CourierCollects, SupportRefunds,
         Happens, rowVars
    <2> QED
      BY <2>1, <2>2, <2>3, <2>4, <2>5 DEF Next, HandleCallback, Send, rowVars
  <1> QED
    BY <1>1, InvInit, InvStep, PTL DEF Spec, SettledIsFinal
=============================================================================
