---------------------------- MODULE AdminOrders ----------------------------
(***************************************************************************)
(* The operators' view of sagas and dead letters: the order page with the  *)
(* saga inspector, the dead letter page with its actions, and their route  *)
(* handlers.  One order, one dead letter.                                  *)
(*                                                                         *)
(* The paths under /v1/admin that these pages and routes call do not exist *)
(* in order-service, so as the code stands every call is answered 404;     *)
(* routed lets the model also be one in which they do what their callers   *)
(* expect: the saga trace and the cancellation that order-service serves   *)
(* to customers, a replay that republishes the message, a discard that     *)
(* drops it.  The inspector offers to retry a FAILED step; nothing in      *)
(* order-service marks a step FAILED, so that control never appears.       *)
(***************************************************************************)
EXTENDS AdminApi

LOCAL S == INSTANCE Saga

CONSTANTS
    Staff,        \* people at these pages
    MaxActions    \* bound: requests sent

VARIABLES
    routed,    \* whether order-service has the admin paths
    saga,      \* the order's status in order-service
    traces,    \* the status each operator's inspector shows, "none" without a trace
    letter,    \* the dead letter: "parked", "replayed" or "discarded"
    rows,      \* the row of the dead letter page: what it waits for and asks to confirm
    actions,   \* requests under way
    sent       \* how many were sent

ordersVars == <<routed, saga, traces, letter, rows, actions, sent>>

(* PAST_NO_RETURN and isPastNoReturn(). *)
PastNoReturn == {"PAID", "STOCK_COMMITTED", "CONFIRMED"}

(* The inspector and the sagas agree on the point of no return, so that of a trace
   that is current no cancellation is offered that order-service must refuse for
   it. *)
ASSUME InspectorAssumption == PastNoReturn = {s \in S!States : S!RollbackForbidden(s)}

(* Where "Cancel and compensate" is offered. *)
CancelOffered(status) == status \notin PastNoReturn \union {"CANCELLED", "none"}

(* domain.Cancellable *)
OrderCancellable(status) == status \in {"PENDING", "STOCK_RESERVED"}

FreeRow == [busy |-> "none", confirming |-> FALSE]

AdminOrdersInit ==
    /\ routed \in BOOLEAN
    /\ saga \in S!States
    /\ traces = [o \in Staff |-> "none"]
    /\ letter = "parked"
    /\ rows = [o \in Staff |-> FreeRow]
    /\ actions = {} /\ sent = 0

-----------------------------------------------------------------------------
SagaMoves ==
    /\ saga' \in {S!Machine(saga, t, c).next : t \in S!Triggers, c \in S!Ctx} \ {saga}
    /\ UNCHANGED <<routed, traces, letter, rows, actions, sent>>

(* OrderDetailPage: the guard, then the trace; without one the page fails. *)
OpenOrder(o) ==
    /\ \E guard \in GuardStatuses, status \in AdminCall({IF routed THEN 200 ELSE 404}) :
         traces' = [traces EXCEPT ![o] = IF guard = 200 /\ status = 200 THEN saga ELSE "none"]
    /\ traces' # traces
    /\ UNCHANGED <<routed, saga, letter, rows, actions, sent>>

Send(o, op) ==
    /\ sent < MaxActions /\ sent' = sent + 1
    /\ actions' = actions \union {[id |-> sent', by |-> o, op |-> op, pc |-> "route", ok |-> FALSE]}
    /\ UNCHANGED <<routed, saga, traces, letter>>

(* post(): nothing keeps the operator from clicking again. *)
ForceCancel(o) == CancelOffered(traces[o]) /\ Send(o, "cancel") /\ UNCHANGED rows

(* The buttons of the dead letter's row. *)
Replay(o) ==
    /\ rows[o] = FreeRow
    /\ Send(o, "replay")
    /\ rows' = [rows EXCEPT ![o].busy = "replay"]
AskToConfirm(o) ==
    /\ rows[o] = FreeRow
    /\ rows' = [rows EXCEPT ![o].confirming = TRUE]
    /\ UNCHANGED <<routed, saga, traces, letter, actions, sent>>
(* The button is enabled once eight characters of the event id are typed. *)
Discard(o) ==
    /\ rows[o].confirming /\ rows[o].busy = "none"
    /\ Send(o, "discard")
    /\ rows' = [rows EXCEPT ![o].busy = "discard"]
(* Cancel is not disabled while the row waits. *)
Unconfirm(o) ==
    /\ rows[o].confirming
    /\ rows' = [rows EXCEPT ![o].confirming = FALSE]
    /\ UNCHANGED <<routed, saga, traces, letter, actions, sent>>

-----------------------------------------------------------------------------
Answered(a, status) ==
    actions' = (actions \ {a}) \union {[a EXCEPT !.pc = "answered", !.ok = RouteStatus(status) = 200]}

(* The route handler: the guard, then one call, which order-service may carry out
   although its answer is lost. *)
CallOrderService(a) ==
    /\ a.pc = "route"
    /\ \/ /\ \E status \in (GuardStatuses \ {200}) \union AdminCall(IF routed THEN {} ELSE {404}) :
               Answered(a, status)
          /\ UNCHANGED <<saga, letter>>
       \/ /\ routed /\ a.op = "cancel"
          /\ saga' = IF OrderCancellable(saga) THEN "COMPENSATING" ELSE saga
          /\ \E status \in AdminCall({IF OrderCancellable(saga) THEN 202 ELSE 409}) : Answered(a, status)
          /\ UNCHANGED letter
       \/ /\ routed /\ a.op # "cancel"
          /\ letter' = IF letter = "parked" THEN IF a.op = "replay" THEN "replayed" ELSE "discarded" ELSE letter
          /\ \E status \in AdminCall({200}) : Answered(a, status)
          /\ UNCHANGED saga
    /\ UNCHANGED <<routed, traces, rows, sent>>

(* Mutant: the row is freed only when the action succeeded. *)
FreedOnSuccess(a) == IF a.ok THEN FreeRow ELSE rows[a.by]

(* The finally of act(); a success closes the confirmation too. *)
Freed(a) == IF a.ok THEN FreeRow ELSE [rows[a.by] EXCEPT !.busy = "none"]

(* The answer: a refresh of the page, or an alert; post() has nothing to free. *)
ActionAnswered(a) ==
    /\ a.pc = "answered"
    /\ actions' = actions \ {a}
    /\ rows' = IF a.op = "cancel" THEN rows ELSE [rows EXCEPT ![a.by] = Freed(a)]
    /\ traces' = IF a.op = "cancel" /\ a.ok THEN [traces EXCEPT ![a.by] = saga] ELSE traces
    /\ UNCHANGED <<routed, saga, letter, sent>>

-----------------------------------------------------------------------------
ActionsGoOn == \E a \in actions : CallOrderService(a) \/ ActionAnswered(a)

AdminOrdersNext ==
    \/ SagaMoves
    \/ \E o \in Staff : OpenOrder(o) \/ ForceCancel(o) \/ Replay(o) \/ AskToConfirm(o)
                        \/ Discard(o) \/ Unconfirm(o)
    \/ ActionsGoOn

(* A call ends after ten seconds. *)
AdminOrdersSpec == AdminOrdersInit /\ [][AdminOrdersNext]_ordersVars /\ WF_ordersVars(ActionsGoOn)
=============================================================================
