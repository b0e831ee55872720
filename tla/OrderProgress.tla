--------------------------- MODULE OrderProgress ---------------------------
(***************************************************************************)
(* The status page of an order (order-progress.tsx) and the order history  *)
(* (order-history.tsx).  Status frames arrive over an event stream while   *)
(* up to two polling loops read the status on their own; each answer is a  *)
(* snapshot that may be delivered late.  The order moves as the saga's     *)
(* state machine says.                                                     *)
(*                                                                         *)
(* The repository has no route handler at /api/bff/orders/{id}/status or   *)
(* /stream (the one for an order's status is at /api/bff/orders/{id}), so  *)
(* as it is every poll and every stream fails.  In the model they may fail *)
(* at any time and for ever, or deliver what order-service answers at      *)
(* those paths.                                                            *)
(***************************************************************************)
EXTENDS Bff, Sequences

S == INSTANCE Saga

VARIABLES
    placed,    \* the order's status in order-service
    shown,     \* state.status
    settled,   \* settled.current
    stalled,
    stream,    \* "open" or "closed": the EventSource
    frames,    \* statuses on their way to it
    sent,      \* last status put on the stream
    loops,     \* what each polling loop does
    mounted,
    late,      \* history: a poll was holding an older status when the page settled
    history    \* what the list of orders shows for this one

progressVars == <<placed, shown, settled, stalled, stream, frames, sent, loops, mounted, late, history>>

Loops == {"timer", "fallback"}
Idle == [pc |-> "idle"]
Waiting == [pc |-> "timer"]
Asking == [pc |-> "asking"]

(* STEPS and stepIndex(): the happy path; other states have no place on it. *)
Track == <<"PENDING", "STOCK_RESERVED", "PAID", "STOCK_COMMITTED", "CONFIRMED">>
StepIndex(s) ==
    IF \E i \in DOMAIN Track : Track[i] = s THEN CHOOSE i \in DOMAIN Track : Track[i] = s ELSE 1

(* FAILURE_COPY: the reasons with a text of their own. *)
FailureCopy == {"INSUFFICIENT_STOCK", "PAYMENT_DECLINED", "PAYMENT_TIMEOUT",
                "RESERVATION_TIMEOUT", "CUSTOMER_CANCELLED", "FRAUD_REJECTED"}

(* terminal in the payload: saga.IsTerminal. *)
Terminal(s) == S!IsTerminal(s)

(* Mutant: the page settles as soon as the payment is approved. *)
EndsOncePaid(s) == Terminal(s) \/ s = "PAID"

(* What apply() takes for the end of the order. *)
Ends(s) == Terminal(s)

(* The panel the page shows, and how far along the track it is. *)
View ==
    [panel |-> CASE shown = "CANCELLED"    -> "failure"
                 [] shown = "CONFIRMED"    -> "success"
                 [] shown = "COMPENSATING" -> "releasing"
                 [] OTHER                  -> "placing",
     done |-> StepIndex(shown) - 1,
     notice |-> stalled]

(* customerView(): the badges of the history. *)
CustomerView(s) ==
    CASE s \in {"PENDING", "STOCK_RESERVED", "PAID", "STOCK_COMMITTED", "COMPENSATING"} -> "Processing"
      [] s = "CONFIRMED" -> "Confirmed"
      [] s = "SHIPPED"   -> "Shipped"
      [] s = "DELIVERED" -> "Delivered"
      [] s = "CANCELLED" -> "Cancelled"
      [] s = "REFUNDED"  -> "Refunded"

(* Where the history offers to cancel. *)
CancelOffered(s) == ~Terminal(s) /\ s = "PENDING"

(* The page's vocabulary against the saga's: every reason has a text, the track
   is the way forward, and no cancellation is offered past the point of no
   return. *)
ASSUME VocabularyAssumption ==
    /\ S!Reasons \subseteq FailureCopy
    /\ \A i \in 1 .. 4 : \E t \in S!Triggers, c \in S!Ctx : S!Machine(Track[i], t, c).next = Track[i + 1]
    /\ \A s \in S!States : CancelOffered(s) => ~S!RollbackForbidden(s)

ProgressInit ==
    /\ placed \in S!States
    /\ shown = "PENDING" /\ settled = FALSE /\ stalled = FALSE
    /\ stream \in {"open", "closed"}
    /\ frames = <<>> /\ sent = "none"
    /\ loops = [l \in Loops |-> IF l = "timer" THEN Waiting ELSE Idle]
    /\ mounted = TRUE /\ late = FALSE
    /\ history = "loading"

-----------------------------------------------------------------------------
(* The order. *)
OrderMoves ==
    /\ placed' \in {S!Machine(placed, t, c).next : t \in S!Triggers, c \in S!Ctx} \ {placed}
    /\ UNCHANGED <<shown, settled, stalled, stream, frames, sent, loops, mounted, late, history>>

(* streamStatus: the first status, then every change the ticker sees. *)
StreamStatus ==
    /\ stream = "open" /\ sent # placed
    /\ sent' = placed
    /\ frames' = Append(frames, placed)
    /\ UNCHANGED <<placed, shown, settled, stalled, stream, loops, mounted, late, history>>

-----------------------------------------------------------------------------
(* The page. *)

(* Loops that hold a status which is older than the end of the order. *)
HoldsOlder(l) == loops[l].pc = "answered" /\ ~Terminal(loops[l].status)

(* apply(): whatever arrives is shown, also after the page settled; the end
   closes the stream.  rest is what is still on it. *)
Apply(s, rest, others) ==
    /\ shown' = s
    /\ settled' = (settled \/ Ends(s))
    /\ stream' = IF Ends(s) THEN "closed" ELSE stream
    /\ frames' = IF Ends(s) THEN <<>> ELSE rest
    /\ late' = (late \/ (Ends(s) /\ \E l \in others : HoldsOlder(l)))

FrameArrives ==
    /\ mounted /\ stream = "open" /\ frames # <<>>
    /\ Apply(Head(frames), Tail(frames), Loops)
    /\ UNCHANGED <<placed, stalled, sent, loops, mounted, history>>

(* source.onerror: the stream broke or ended; a second loop starts at once. *)
StreamError ==
    /\ mounted /\ stream = "open"
    /\ stream' = "closed" /\ frames' = <<>>
    /\ loops' = [loops EXCEPT !["fallback"] = IF settled THEN @ ELSE Asking]
    /\ UNCHANGED <<placed, shown, settled, stalled, sent, mounted, late, history>>

(* A timer starts a poll, which returns at once when the page has settled. *)
TimerFires(l) ==
    /\ mounted /\ loops[l] = Waiting
    /\ loops' = [loops EXCEPT ![l] = IF settled THEN Idle ELSE Asking]
    /\ UNCHANGED <<placed, shown, settled, stalled, stream, frames, sent, mounted, late, history>>

(* getStatus in order-service. *)
GetStatus(l) ==
    /\ loops[l] = Asking
    /\ loops' = [loops EXCEPT ![l] = [pc |-> "answered", status |-> placed]]
    /\ UNCHANGED <<placed, shown, settled, stalled, stream, frames, sent, mounted, late, history>>

(* The loop goes on with the next timer until the page has settled. *)
Reschedule(l, over) == loops' = [loops EXCEPT ![l] = IF over THEN Idle ELSE Waiting]

PollArrives(l) ==
    /\ mounted /\ loops[l].pc = "answered"
    /\ Apply(loops[l].status, frames, Loops \ {l})
    /\ Reschedule(l, settled')
    /\ UNCHANGED <<placed, stalled, sent, mounted, history>>

(* No answer, or one that is not ok: the next tick retries. *)
PollFails(l) ==
    /\ mounted /\ loops[l].pc \in {"asking", "answered"}
    /\ Reschedule(l, settled)
    /\ UNCHANGED <<placed, shown, settled, stalled, stream, frames, sent, mounted, late, history>>

(* The page spins: it has not settled and does not say that it takes long. *)
Spinning == mounted /\ ~settled /\ ~stalled

(* Mutant: the timer of the notice is cleared with the stream. *)
StallWhileStreaming ==
    /\ Spinning /\ stream = "open"
    /\ stalled' = TRUE
    /\ UNCHANGED <<placed, shown, settled, stream, frames, sent, loops, mounted, late, history>>

(* 90 seconds without an end. *)
Stall ==
    /\ Spinning
    /\ stalled' = TRUE
    /\ UNCHANGED <<placed, shown, settled, stream, frames, sent, loops, mounted, late, history>>

(* The effect's cleanup. *)
Leave ==
    /\ mounted
    /\ mounted' = FALSE
    /\ stream' = "closed" /\ frames' = <<>>
    /\ loops' = [l \in Loops |-> Idle]
    /\ UNCHANGED <<placed, shown, settled, stalled, sent, late, history>>

(* The list of orders is loaded once, through the route handler, and keeps what
   it got. *)
OpenHistory ==
    /\ history = "loading"
    /\ \E status \in Once({200, 401}) :
         history' = IF Succeeds(status) THEN placed ELSE UserMessage(CodeOf(ProblemStatus(status)))
    /\ UNCHANGED <<placed, shown, settled, stalled, stream, frames, sent, loops, mounted, late>>

-----------------------------------------------------------------------------
Pending ==
    \/ StreamStatus \/ FrameArrives
    \/ \E l \in Loops : TimerFires(l) \/ GetStatus(l) \/ PollArrives(l)
    \/ OpenHistory

ProgressNext ==
    \/ OrderMoves \/ Pending \/ StreamError \/ Stall \/ Leave
    \/ \E l \in Loops : PollFails(l)

(* The browser fires a timer that is due. *)
ProgressSpec == ProgressInit /\ [][ProgressNext]_progressVars /\ WF_progressVars(Stall)

-----------------------------------------------------------------------------
(* No panel and no badge ever announces an outcome the order does not have, the
   track never claims an approved payment of an order that can still be undone, and
   the page that stopped asking shows the outcome, whatever the order in which
   frames and polls arrive.  The exception is a poll that read the status before
   the end and is delivered after it: apply() shows it and nothing corrects it. *)
OutcomeIsTrue ==
    /\ View.panel = "success" => placed = "CONFIRMED"
    /\ View.panel = "failure" => placed = "CANCELLED"
    /\ View.done > 2 => S!RollbackForbidden(placed)
    /\ settled /\ ~late => shown = placed
    /\ history \in S!States /\ CustomerView(history) # "Processing" => history = placed
=============================================================================
