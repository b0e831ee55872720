------------------------------- MODULE Basket -------------------------------
(***************************************************************************)
(* The basket in a tab of the storefront: the provider                     *)
(* (components/cart/cart-provider.tsx), the controls that use it and the   *)
(* route handlers under api/bff/cart.  A control is disabled while a       *)
(* mutation is in flight; the refresh at mount and the one after CART_STALE*)
(* read the basket on their own.  Another device may change the basket at  *)
(* any time.  cart-service answers as the route handlers expect it to;     *)
(* module Cart models what it does.                                        *)
(***************************************************************************)
EXTENDS Bff, FiniteSets

CONSTANTS
    MaxClicks,        \* bound: mutations of this tab
    MaxElsewhere,     \* bound: the version up to which another device changes a basket
    MaxBasketFaults,  \* bound: exchanges of the BFF that fail
    MaxQuantity,      \* 99 in the code
    CartAttempts      \* attempts of call(), 3 in the code

ASSUME BasketAssumption ==
    /\ MaxClicks \in Nat /\ MaxElsewhere \in Nat /\ MaxBasketFaults \in Nat
    /\ MaxQuantity \in Nat \ {0} /\ CartAttempts \in Nat \ {0}

VARIABLES
    signed,     \* whether the requests carry a session
    cartCookie, \* the guest basket's id, 0 when there is none
    baskets,    \* cart-service: version and quantity of the line, by id
    cart,       \* what the tab shows, with the id it belongs to
    inFlight,   \* inFlight.current, the last ticket
    mutation,   \* the mutation in flight
    refreshes,  \* the refreshes in flight
    overlapped, \* history: the refresh of the mount was in flight with a mutation
    losses      \* exchanges that failed

basketVars == <<signed, cartCookie, baskets, cart, inFlight, mutation, refreshes, overlapped, losses>>

Mine == MaxClicks * CartAttempts + 1
Ids == 1 .. Mine
NoCart == [id |-> 0, version |-> 0, quantity |-> 0]
Fresh == [version |-> 0, quantity |-> 0]
None == [pc |-> "none"]

BasketInit ==
    /\ signed \in BOOLEAN
    /\ cartCookie = 0
    /\ baskets = [i \in Ids |-> Fresh]
    /\ cart = NoCart
    /\ inFlight = 0
    /\ mutation = None
    /\ refreshes = [mount |-> [pc |-> "sent"], stale |-> None]
    /\ overlapped = FALSE
    /\ losses = 0

Loading == mutation # None

(* The stepper keeps what is typed within its limits. *)
Clamp(typed) == IF typed < 1 THEN 1 ELSE IF typed > MaxQuantity THEN MaxQuantity ELSE typed

(* commit() and the two buttons of the stepper: what may be asked of a line. *)
Quantities(value) == {Clamp(typed) : typed \in 0 .. MaxQuantity + 1} \ {value}

-----------------------------------------------------------------------------
(* mutate(): a ticket is taken and the version on display goes with it. *)
Start(op, quantity) ==
    /\ ~Loading /\ inFlight < MaxClicks
    /\ inFlight' = inFlight + 1
    /\ mutation' = [pc |-> "sent", op |-> op, quantity |-> quantity, version |-> cart.version,
                    ticket |-> inFlight', attempt |-> 1, status |-> 0, answer |-> NoCart]
    /\ overlapped' = (overlapped \/ refreshes["mount"] # None)
    /\ UNCHANGED <<signed, cartCookie, baskets, cart, refreshes, losses>>

Add == Start("add", 1)

(* The controls of a line; 0 removes it. *)
SetQuantity == cart.quantity > 0 /\ \E q \in Quantities(cart.quantity) : Start("set", q)
RemoveLine == cart.quantity > 0 /\ Start("set", 0)

ApplyCoupon == cart.quantity > 0 /\ Start("coupon", 0)

(* The basket a route handler addresses; 0 when there is none. *)
Addressed == IF signed THEN Mine ELSE cartCookie

(* cart-service creates a guest's basket with the first line, under the next id:
   there is one for every attempt of every mutation. *)
NewIds == {i \in Ids \ {Mine} : baskets[i] = Fresh /\ \A j \in 1 .. i - 1 : baskets[j] # Fresh}

(* Attempts of the route handlers' call(): only add carries a key. *)
AttemptsOf(op) == MaxAttempts(IF op = "set" THEN "PATCH" ELSE "POST", op = "add", CartAttempts)

(* An exchange that failed, before or after cart-service applied it. *)
Failed(status) ==
    /\ losses < MaxBasketFaults /\ losses' = losses + 1
    /\ mutation' = IF TriesAgain(status, mutation.attempt, AttemptsOf(mutation.op))
                   THEN [mutation EXCEPT !.attempt = @ + 1]
                   ELSE [mutation EXCEPT !.pc = "answered", !.status = ProblemStatus(status)]
    /\ UNCHANGED cartCookie

(* The answer; a new id goes into the cookie. *)
Done(id, next) ==
    /\ mutation' = [mutation EXCEPT !.pc = "answered", !.status = 200,
                      !.answer = [id |-> id, version |-> next.version, quantity |-> next.quantity]]
    /\ cartCookie' = IF mutation.op = "add" THEN id ELSE cartCookie
    /\ UNCHANGED losses

(* What cart-service makes of the request: only PATCH carries a version. *)
Applied(row) ==
    CASE mutation.op = "add" -> [version |-> row.version + 1, quantity |-> row.quantity + 1]
      [] mutation.op = "set" -> [version |-> row.version + 1, quantity |-> mutation.quantity]
      [] OTHER               -> [row EXCEPT !.version = @ + 1]

ServeMutation ==
    /\ Loading /\ mutation.pc = "sent"
    /\ \E id \in IF Addressed = 0 /\ mutation.op = "add" THEN NewIds ELSE {Addressed} :
           \/ /\ id = 0
              /\ mutation' = [mutation EXCEPT !.pc = "answered", !.status = 404]
              /\ UNCHANGED <<cartCookie, baskets, losses>>
           \/ /\ id > 0 /\ mutation.op = "set" /\ mutation.version # baskets[id].version
              /\ mutation' = [mutation EXCEPT !.pc = "answered", !.status = 409]
              /\ UNCHANGED <<cartCookie, baskets, losses>>
           \/ /\ id > 0 /\ (mutation.op = "set" => mutation.version = baskets[id].version)
              /\ baskets' = [baskets EXCEPT ![id] = Applied(@)]
              /\ Done(id, baskets'[id]) \/ \E status \in Once({}) : Failed(status)
    /\ UNCHANGED <<signed, cart, inFlight, refreshes, overlapped>>

(* The request never reaches cart-service, or no token could be had for it. *)
MutationFails ==
    /\ Loading /\ mutation.pc = "sent"
    /\ \E status \in {0, 503, 504} : Failed(status)
    /\ UNCHANGED <<signed, baskets, cart, inFlight, refreshes, overlapped>>

(* Mutant: the refresh after CART_STALE is not awaited. *)
ResumeAtOnce == None

(* What is left of a mutation that found the basket changed: mutate() awaits the
   refresh before its finally. *)
AwaitRefresh == [mutation EXCEPT !.pc = "refreshing"]

(* Drop a response that is not the latest's. *)
Latest(ticket) == ticket = inFlight

(* The answer reaches mutate(). *)
MutationArrives ==
    /\ Loading /\ mutation.pc = "answered"
    /\ \/ /\ mutation.status = 200
          /\ cart' = IF Latest(mutation.ticket) THEN mutation.answer ELSE cart
          /\ mutation' = None
          /\ UNCHANGED refreshes
       \/ /\ mutation.status = 409
          /\ refreshes' = [refreshes EXCEPT !.stale = [pc |-> "sent"]]
          /\ mutation' = AwaitRefresh
          /\ UNCHANGED cart
       \/ /\ mutation.status \notin {200, 409}
          /\ mutation' = None
          /\ UNCHANGED <<cart, refreshes>>
    /\ UNCHANGED <<signed, cartCookie, baskets, inFlight, overlapped, losses>>

-----------------------------------------------------------------------------
(* GET /api/bff/cart: a snapshot, or 404 for a visitor without a basket. *)
ServeRefresh(f) ==
    /\ refreshes[f].pc = "sent"
    /\ \/ /\ refreshes' = [refreshes EXCEPT ![f] =
                IF Addressed = 0 \/ baskets[Addressed] = Fresh
                THEN [pc |-> "answered", status |-> 404, answer |-> NoCart]
                ELSE [pc |-> "answered", status |-> 200,
                      answer |-> [id |-> Addressed, version |-> baskets[Addressed].version,
                                  quantity |-> baskets[Addressed].quantity]]]
          /\ UNCHANGED losses
       \/ /\ losses < MaxBasketFaults /\ losses' = losses + 1
          /\ refreshes' = [refreshes EXCEPT ![f] = [pc |-> "answered", status |-> 502, answer |-> NoCart]]
    /\ UNCHANGED <<signed, cartCookie, baskets, cart, inFlight, mutation, overlapped>>

(* refresh() shows what it got, with no ticket; an error leaves the basket. *)
RefreshArrives(f) ==
    /\ refreshes[f].pc = "answered"
    /\ cart' = IF refreshes[f].status = 502 THEN cart ELSE refreshes[f].answer
    /\ refreshes' = [refreshes EXCEPT ![f] = None]
    /\ mutation' = IF f = "stale" /\ Loading /\ mutation.pc = "refreshing" THEN None ELSE mutation
    /\ UNCHANGED <<signed, cartCookie, baskets, inFlight, overlapped, losses>>

(* The customer's other device. *)
ChangedElsewhere ==
    /\ Addressed > 0
    /\ baskets[Addressed].version < MaxElsewhere
    /\ \E q \in 0 .. MaxQuantity :
         baskets' = [baskets EXCEPT ![Addressed] = [version |-> @.version + 1, quantity |-> q]]
    /\ UNCHANGED <<signed, cartCookie, cart, inFlight, mutation, refreshes, overlapped, losses>>

-----------------------------------------------------------------------------
BasketServe ==
    \/ ServeMutation \/ MutationArrives
    \/ \E f \in DOMAIN refreshes : ServeRefresh(f) \/ RefreshArrives(f)

BasketNext ==
    \/ Add \/ SetQuantity \/ RemoveLine \/ ApplyCoupon
    \/ BasketServe \/ MutationFails \/ ChangedElsewhere

(* Requests end: fetch to a service has a timeout, handlers run on. *)
BasketSpec == BasketInit /\ [][BasketNext]_basketVars /\ WF_basketVars(BasketServe)

-----------------------------------------------------------------------------
(* "Guards against ... responses [that] arrive out of order and leave the UI
   showing the earlier one": the tab never goes back to an older state of the
   basket it shows.  The exception is the refresh of the mount, which takes no
   ticket and may answer after a mutation. *)
BasketNeverRegresses ==
    [][~overlapped => cart'.id # cart.id \/ cart'.version >= cart.version]_basketVars
=============================================================================
