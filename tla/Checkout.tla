------------------------------ MODULE Checkout ------------------------------
(***************************************************************************)
(* Placing an order once: the checkout form (checkout-flow.tsx), its route *)
(* handler with the BFF's retries (api/bff/orders/route.ts, lib/bff.ts) and*)
(* order-service's idempotency keys (store/idempotency.go,                 *)
(* httpapi/api.go).  The browser may give up on a request that the BFF     *)
(* still works on, and the BFF on one that order-service still works on.   *)
(* Claiming the key, placing the order and completing or releasing the key *)
(* are transactions of their own.                                          *)
(***************************************************************************)
EXTENDS Bff, FiniteSets

CONSTANTS
    MaxMounts,         \* bound: how often the form is mounted
    MaxSubmits,        \* bound: submissions in all
    MaxCheckoutFaults, \* bound: lost answers, failed transactions and dead pods
    OrderAttempts      \* attempts of call(), 3 in the code

ASSUME CheckoutAssumption ==
    /\ MaxMounts \in Nat \ {0} /\ MaxSubmits \in Nat \ {0} /\ MaxCheckoutFaults \in Nat
    /\ OrderAttempts \in Nat \ {0}

VARIABLES
    form,      \* the tab: mount, basket, the request it waits for, those it left, what it shows
    requests,  \* POST /api/bff/orders, one record per submission
    runs,      \* placeOrder in order-service, one record per attempt
    keys,      \* the idempotency_keys table
    orders,    \* how many orders each mount of the form has placed
    excused,   \* history: keys given back although their order was committed
    mishaps

checkoutVars == <<form, requests, runs, keys, orders, excused, mishaps>>

Mounts == 1 .. MaxMounts
Requests == 1 .. MaxSubmits
Runs == Requests \X (1 .. OrderAttempts)
Keys == Mounts \X (0 .. MaxSubmits)
NoKey == [state |-> "none"]
NoRun == [pc |-> "none"]
Over == [pc |-> "over"]

CheckoutInit ==
    /\ form = [mount |-> 1, basket |-> 1, waits |-> 0, left |-> {}, shows |-> "form"]
    /\ requests = [r \in Requests |-> NoRun]
    /\ runs = [e \in Runs |-> NoRun]
    /\ keys = [k \in Keys |-> NoKey]
    /\ orders = [m \in Mounts |-> 0]
    /\ excused = [m \in Mounts |-> 0]
    /\ mishaps = 0

Sent == {r \in Requests : requests[r].pc # "none"}
Mishap == mishaps < MaxCheckoutFaults /\ mishaps' = mishaps + 1

-----------------------------------------------------------------------------
(* The form. *)

(* Mutant: a key for every click instead of one for every mount. *)
KeyPerClick(mount, click) == <<mount, click>>

(* useRef(newIdempotencyKey()) *)
IdempotencyKey(mount, click) == <<mount, 0>>

(* submitting *)
SubmittingOrder == form.waits > 0

(* canSubmit: the basket has lines and nothing is being submitted. *)
CanSubmit == form.shows \in {"form", "error"} /\ ~SubmittingOrder

(* onSubmit with an address that passes its schema; one that does not returns
   before anything is sent. *)
Submit ==
    /\ CanSubmit
    /\ Cardinality(Sent) < MaxSubmits
    /\ LET r == Cardinality(Sent) + 1
       IN  /\ requests' = [requests EXCEPT ![r] =
                 [pc |-> "route", key |-> IdempotencyKey(form.mount, r), hash |-> form.basket,
                  attempt |-> 0, status |-> 0]]
           /\ form' = [form EXCEPT !.waits = r, !.shows = "form"]
    /\ UNCHANGED <<runs, keys, orders, excused, mishaps>>

(* The answer reaches the page: 202 goes to the status page, anything else is
   shown and the button comes back.  A form that was left still navigates. *)
Answered(r) ==
    /\ r = form.waits \/ r \in form.left
    /\ requests[r].pc = "answer"
    /\ form' = [form EXCEPT
                  !.waits = IF r = @ THEN 0 ELSE @,
                  !.shows = IF Succeeds(requests[r].status) THEN "status"
                            ELSE IF r = form.waits THEN "error" ELSE @]
    /\ requests' = [requests EXCEPT ![r].pc = "over"]
    /\ UNCHANGED <<runs, keys, orders, excused, mishaps>>

(* The connection of the browser breaks: an ApiError with status 0, while the
   route handler goes on. *)
BrowserLosesConnection ==
    /\ form.waits > 0 /\ Mishap
    /\ form' = [form EXCEPT !.waits = 0, !.shows = "error"]
    /\ UNCHANGED <<requests, runs, keys, orders, excused>>

(* The customer leaves the form and comes back: a new mount mints a new key. *)
Remount ==
    /\ form.mount < MaxMounts
    /\ form' = [form EXCEPT !.mount = @ + 1, !.shows = "form", !.waits = 0,
                            !.left = @ \union ({form.waits} \ {0})]
    /\ UNCHANGED <<requests, runs, keys, orders, excused, mishaps>>

(* The basket changes under the form, in another tab: the body of the next
   submission differs. *)
BasketChanges ==
    /\ form.basket = 1
    /\ form' = [form EXCEPT !.basket = 2]
    /\ UNCHANGED <<requests, runs, keys, orders, excused, mishaps>>

-----------------------------------------------------------------------------
(* The route handler. *)

Conclude(r, status) ==
    requests' = [requests EXCEPT ![r].pc = "answer", ![r].status = ProblemStatus(status)]

(* requireAccessToken(): without a token nothing is sent to order-service. *)
Route(r) ==
    /\ requests[r].pc = "route"
    /\ \E cookie \in BOOLEAN, x \in Once({200, 401}) :
         IF Succeeds(TokenStatus(cookie, x))
         THEN /\ requests' = [requests EXCEPT ![r].pc = "await", ![r].attempt = 1]
              /\ runs' = [runs EXCEPT ![<<r, 1>>] = [pc |-> "claim"]]
         ELSE Conclude(r, TokenStatus(cookie, x)) /\ UNCHANGED runs
    /\ UNCHANGED <<form, keys, orders, excused, mishaps>>

(* What call() does with the status of an attempt. *)
Attempted(r, status, running) ==
    LET a == requests[r].attempt
    IN  IF TriesAgain(status, a, MaxAttempts("POST", TRUE, OrderAttempts))
        THEN /\ requests' = [requests EXCEPT ![r].attempt = a + 1]
             /\ runs' = [running EXCEPT ![<<r, a + 1>>] = [pc |-> "claim"]]
        ELSE Conclude(r, status) /\ runs' = running

(* The request is aborted after TIMEOUTS.order, or the connection breaks or the
   answer cannot be read, with order-service still at it. *)
AttemptLost(r) ==
    /\ requests[r].pc = "await" /\ Mishap
    /\ \E status \in Once({}) : Attempted(r, status, runs)
    /\ UNCHANGED <<form, keys, orders, excused>>

-----------------------------------------------------------------------------
(* placeOrder in order-service. *)

KeyOf(e) == requests[e[1]].key
MountOf(e) == KeyOf(e)[1]
IsHeard(e) == requests[e[1]].pc = "await" /\ requests[e[1]].attempt = e[2]

(* WriteProblem or WriteJSON: the handler is over, its answer reaches the BFF if
   that still waits for this attempt. *)
Respond(e, status) ==
    LET running == [runs EXCEPT ![e] = Over]
    IN  IF IsHeard(e) THEN Attempted(e[1], status, running)
        ELSE runs' = running /\ UNCHANGED requests

Claimed(e) == [state |-> "IN_PROGRESS", hash |-> requests[e[1]].hash]

(* ClaimKey: the insert decides, the row of another attempt is looked at. *)
ClaimKey(e) ==
    /\ runs[e].pc = "claim"
    /\ LET row == keys[KeyOf(e)]
       IN  \/ /\ row = NoKey
              /\ keys' = [keys EXCEPT ![KeyOf(e)] = Claimed(e)]
              /\ runs' = [runs EXCEPT ![e] = [pc |-> "place"]]
              /\ UNCHANGED requests
           \/ /\ row # NoKey
              /\ Respond(e, IF row.hash = requests[e[1]].hash /\ row.state = "COMPLETED"
                            THEN 202 ELSE 409)
              /\ UNCHANGED keys
    /\ UNCHANGED <<form, orders, excused, mishaps>>

(* PlaceOrder: the order and its first command commit, or it is rejected by
   Validate or the check of the total, or the transaction fails, perhaps after
   it was committed. *)
Place(e) ==
    /\ runs[e].pc = "place"
    /\ \/ /\ orders' = [orders EXCEPT ![MountOf(e)] = @ + 1]
          /\ runs' = [runs EXCEPT ![e] = [pc |-> "complete"]]
          /\ UNCHANGED mishaps
       \/ /\ \E status \in {409, 422} :
                runs' = [runs EXCEPT ![e] = [pc |-> "release", status |-> status, kept |-> FALSE]]
          /\ UNCHANGED <<orders, mishaps>>
       \/ /\ Mishap
          /\ \E kept \in BOOLEAN :
               /\ orders' = [orders EXCEPT ![MountOf(e)] = IF kept THEN @ + 1 ELSE @]
               /\ runs' = [runs EXCEPT ![e] = [pc |-> "release", status |-> 500, kept |-> kept]]
    /\ UNCHANGED <<form, requests, keys, excused>>

(* ReleaseKey after a PlaceOrder that returned an error. *)
ReleaseKey(e) ==
    /\ runs[e].pc = "release"
    /\ \/ /\ keys[KeyOf(e)].state = "IN_PROGRESS"
          /\ keys' = [keys EXCEPT ![KeyOf(e)] = NoKey]
          /\ excused' = [excused EXCEPT ![MountOf(e)] = IF runs[e].kept THEN @ + 1 ELSE @]
          /\ UNCHANGED mishaps
       \/ keys[KeyOf(e)].state # "IN_PROGRESS" /\ UNCHANGED <<keys, excused, mishaps>>
       \/ Mishap /\ UNCHANGED <<keys, excused>>
    /\ Respond(e, runs[e].status)
    /\ UNCHANGED <<form, orders>>

(* CompleteKey, in a transaction after the order's; its failure is not an error
   for the customer. *)
CompleteKey(e) ==
    /\ runs[e].pc = "complete"
    /\ \/ /\ keys[KeyOf(e)] # NoKey
          /\ keys' = [keys EXCEPT ![KeyOf(e)].state = "COMPLETED"]
          /\ UNCHANGED mishaps
       \/ keys[KeyOf(e)] = NoKey /\ UNCHANGED <<keys, mishaps>>
       \/ Mishap /\ UNCHANGED keys
    /\ Respond(e, 202)
    /\ UNCHANGED <<form, orders, excused>>

(* The caller gave up and the context is cancelled: the transaction in hand
   commits or not, and every later one fails at once. *)
ContextCancelled(e) ==
    /\ runs[e].pc \in {"claim", "place", "complete", "release"} /\ ~IsHeard(e)
    /\ \/ UNCHANGED <<keys, orders>>
       \/ /\ runs[e].pc = "claim" /\ keys[KeyOf(e)] = NoKey
          /\ keys' = [keys EXCEPT ![KeyOf(e)] = Claimed(e)]
          /\ UNCHANGED orders
       \/ /\ runs[e].pc = "place"
          /\ orders' = [orders EXCEPT ![MountOf(e)] = @ + 1]
          /\ UNCHANGED keys
    /\ runs' = [runs EXCEPT ![e] = Over]
    /\ UNCHANGED <<form, requests, excused, mishaps>>

(* The pod dies: the connection breaks, the key keeps its row. *)
PodDies(e) ==
    /\ runs[e].pc \in {"claim", "place", "complete", "release"} /\ Mishap
    /\ Respond(e, 0)
    /\ UNCHANGED <<form, keys, orders, excused>>

(* PurgeExpiredKeys: a day later nothing of the checkout is still running. *)
PurgeExpiredKeys ==
    /\ \A r \in Requests : requests[r].pc \in {"none", "answer", "over"}
    /\ \A e \in Runs : runs[e].pc \in {"none", "over"}
    /\ \E k \in Keys : keys[k] # NoKey
    /\ keys' = [k \in Keys |-> NoKey]
    /\ excused' = [m \in Mounts |-> orders[m]]
    /\ UNCHANGED <<form, requests, runs, orders, mishaps>>

-----------------------------------------------------------------------------
Serve ==
    \/ \E r \in Requests : Route(r) \/ Answered(r)
    \/ \E e \in Runs : ClaimKey(e) \/ Place(e) \/ ReleaseKey(e) \/ CompleteKey(e)

CheckoutNext ==
    \/ Submit \/ BrowserLosesConnection \/ Remount \/ BasketChanges
    \/ Serve
    \/ \E r \in Requests : AttemptLost(r)
    \/ \E e \in Runs : ContextCancelled(e) \/ PodDies(e)
    \/ PurgeExpiredKeys

(* Handlers run on; a call to a service ends at its timeout. *)
CheckoutSpec == CheckoutInit /\ [][CheckoutNext]_checkoutVars /\ WF_checkoutVars(Serve)

-----------------------------------------------------------------------------
(* One order per mounted form, however often the button is pressed, the BFF
   retries, answers are lost and requests overtake each other.  Two exceptions
   are the code's: a commit that was reported as failed gives the key back, and
   a day later keys are purged. *)
OneOrderPerCheckout == \A m \in Mounts : orders[m] <= 1 + excused[m]
=============================================================================
