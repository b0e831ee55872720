-------------------------- MODULE StorefrontProofs --------------------------
(***************************************************************************)
(* Proofs about the parts of module Storefront, for every value of the     *)
(* bounds.  A step of the storefront is a step of one part and leaves the  *)
(* others alone, so each part has an invariant of its own.                 *)
(***************************************************************************)
EXTENDS Storefront, FiniteSetTheorems, TLAPS

-----------------------------------------------------------------------------
(* What a step of the storefront is to each part.                          *)

LEMMA StepOfCheckout == [StorefrontNext]_storefrontVars => [CheckoutNext]_checkoutVars
  BY DEF StorefrontNext, storefrontVars, OfCheckout, OfProgress, OfBasket, OfSearch, OfToasts,
         OfSession, OfTokens, OfAccount, OfForms

-----------------------------------------------------------------------------
(* Checkout: one order for each mount of the form.                         *)

OrderRequest(p, k, h, a, s) == [pc |-> p, key |-> k, hash |-> h, attempt |-> a, status |-> s]
IsOrderRequest(x) ==
    \E m \in Mounts : \E p, h, a, s : x = OrderRequest(p, <<m, 0>>, h, a, s) /\ p # "none"
FormFields == {"mount", "basket", "waits", "left", "shows"}
IsForm(x) == x = [i \in FormFields |-> x[i]] /\ x.mount \in Mounts
KeyRow(st, h) == [state |-> st, hash |-> h]
IsKeyRow(x) == x = NoKey \/ \E st, h : x = KeyRow(st, h) /\ st # "none"

ActivePcs == {"claim", "place", "complete", "release"}
HoldingPcs == {"place", "complete", "release"}

RequestTypes ==
    /\ requests = [r \in Requests |-> requests[r]]
    /\ \A r \in Requests : requests[r] = NoRun \/ IsOrderRequest(requests[r])
    /\ \E n \in 0 .. MaxSubmits : Sent = 1 .. n
RunTypes ==
    /\ runs = [e \in Runs |-> runs[e]]
    /\ \A e \in Runs : runs[e].pc \in ActivePcs => requests[e[1]].pc # "none"
KeyTypes ==
    /\ keys = [k \in Keys |-> keys[k]]
    /\ \A k \in Keys : IsKeyRow(keys[k])
CountTypes == orders \in [Mounts -> Nat] /\ excused \in [Mounts -> Nat]
CheckoutTypes == IsForm(form) /\ RequestTypes /\ RunTypes /\ KeyTypes /\ CountTypes

\* The run that holds a key is the only one that may place an order for it,
\* and it places none where one is already placed.
KeyInv ==
    /\ OneOrderPerCheckout
    /\ \A m \in Mounts : keys[<<m, 0>>] = NoKey => orders[m] <= excused[m]
    /\ \A e \in Runs : runs[e].pc \in HoldingPcs => keys[KeyOf(e)] # NoKey
    /\ \A e \in Runs : runs[e].pc = "place" \/ (runs[e].pc = "release" /\ ~runs[e].kept)
                         => orders[MountOf(e)] <= excused[MountOf(e)]
    /\ \A e, f \in Runs : /\ runs[e].pc \in HoldingPcs /\ runs[f].pc \in HoldingPcs
                          /\ KeyOf(e) = KeyOf(f)
                          => e = f

LEMMA OrderRequestFacts ==
    ASSUME NEW x, IsOrderRequest(x)
    PROVE  /\ x.pc # "none" /\ \E m \in Mounts : x.key = <<m, 0>>
           /\ \A p : p # "none" => LET y == [x EXCEPT !.pc = p] IN IsOrderRequest(y) /\ y.key = x.key
           /\ \A a : LET y == [x EXCEPT !.attempt = a] IN IsOrderRequest(y) /\ y.key = x.key
           /\ \A s : LET y == [x EXCEPT !.status = s] IN IsOrderRequest(y) /\ y.key = x.key
  <1>1. PICK m \in Mounts : \E p, h, a, s : x = OrderRequest(p, <<m, 0>>, h, a, s) /\ p # "none"
    BY DEF IsOrderRequest
  <1>2. PICK p, h, a, s : x = OrderRequest(p, <<m, 0>>, h, a, s) /\ p # "none"
    BY <1>1
  <1>3. x.pc = p /\ x.key = <<m, 0>>
    BY <1>2 DEF OrderRequest
  <1>4. \A q : [x EXCEPT !.pc = q] = OrderRequest(q, <<m, 0>>, h, a, s)
    BY <1>2 DEF OrderRequest
  <1>5. \A q : [x EXCEPT !.attempt = q] = OrderRequest(p, <<m, 0>>, h, q, s)
    BY <1>2 DEF OrderRequest
  <1>6. \A q : [x EXCEPT !.status = q] = OrderRequest(p, <<m, 0>>, h, a, q)
    BY <1>2 DEF OrderRequest
  <1>7. \A q, b, c : OrderRequest(q, <<m, 0>>, h, b, c).key = <<m, 0>>
                     /\ (q # "none" => IsOrderRequest(OrderRequest(q, <<m, 0>>, h, b, c)))
    BY DEF OrderRequest, IsOrderRequest
  <1> QED
    BY <1>2, <1>3, <1>4, <1>5, <1>6, <1>7

\* A step after which every request that was sent still has its key.
SameRequests ==
    /\ requests' = [r \in Requests |-> requests'[r]]
    /\ \A r \in Requests :
         /\ requests[r].pc = "none" => requests'[r] = requests[r]
         /\ requests[r].pc # "none" => IsOrderRequest(requests'[r]) /\ requests'[r].key = requests[r].key

\* One field of request r is changed, or two.
LEMMA FieldChanged ==
    ASSUME RequestTypes, NEW r \in Requests, requests[r].pc # "none", NEW x, IsOrderRequest(x),
           x.key = requests[r].key, requests' = [requests EXCEPT ![r] = x]
    PROVE  SameRequests
  <1>1. \A q \in Requests : requests[q].pc # "none" => IsOrderRequest(requests[q])
    BY DEF RequestTypes, NoRun
  <1> QED
    BY <1>1 DEF RequestTypes, SameRequests

LEMMA ConcludeFacts ==
    ASSUME RequestTypes, NEW r \in Requests, requests[r].pc # "none", NEW status, Conclude(r, status)
    PROVE  SameRequests
  <1> DEFINE v == ProblemStatus(status)
             y == [requests[r] EXCEPT !.pc = "answer"]
             x == [y EXCEPT !.status = v]
  <1>1. IsOrderRequest(requests[r])
    BY DEF RequestTypes, NoRun
  <1>2. IsOrderRequest(y) /\ y.key = requests[r].key
    BY <1>1, OrderRequestFacts
  <1>3. requests' = [requests EXCEPT ![r] = x]
    BY DEF Conclude, RequestTypes
  <1> HIDE DEF y, v
  <1>4. IsOrderRequest(x) /\ x.key = requests[r].key
    BY <1>2, OrderRequestFacts
  <1> HIDE DEF x
  <1> QED
    BY <1>3, <1>4, FieldChanged

\* What a step of run e may do to the runs: e goes on or ends, others are
\* started, and nobody else comes to hold a key.
Spreads(e) ==
    /\ runs' = [f \in Runs |-> runs'[f]]
    /\ \A f \in Runs : runs'[f].pc \in ActivePcs => requests[f[1]].pc # "none"
    /\ \A f \in Runs \ {e} : runs'[f].pc \in HoldingPcs => runs'[f] = runs[f]

LEMMA AttemptedFacts ==
    ASSUME CheckoutTypes, NEW r \in Requests, requests[r].pc # "none", NEW status, NEW running,
           running = [f \in Runs |-> running[f]], Attempted(r, status, running)
    PROVE  /\ SameRequests /\ runs' = [f \in Runs |-> runs'[f]]
           /\ \A f \in Runs : runs'[f] = running[f] \/ (runs'[f] = [pc |-> "claim"] /\ f[1] = r)
  <1> DEFINE a == requests[r].attempt
             x == [requests[r] EXCEPT !.attempt = a + 1]
  <1>1. IsOrderRequest(requests[r])
    BY DEF CheckoutTypes, RequestTypes, NoRun
  <1>2. IsOrderRequest(x) /\ x.key = requests[r].key
    BY <1>1, OrderRequestFacts
  <1>3. \/ /\ requests' = [requests EXCEPT ![r].attempt = a + 1]
           /\ runs' = [running EXCEPT ![<<r, a + 1>>] = [pc |-> "claim"]]
        \/ Conclude(r, status) /\ runs' = running
    BY DEF Attempted
  <1>4. CASE Conclude(r, status) /\ runs' = running
    BY <1>4, ConcludeFacts DEF CheckoutTypes
  <1>5. CASE /\ requests' = [requests EXCEPT ![r].attempt = a + 1]
             /\ runs' = [running EXCEPT ![<<r, a + 1>>] = [pc |-> "claim"]]
    <2>1. requests' = [requests EXCEPT ![r] = x]
      BY <1>5 DEF CheckoutTypes, RequestTypes
    <2> HIDE DEF x
    <2>2. SameRequests
      BY <1>2, <2>1, FieldChanged DEF CheckoutTypes
    <2> DEFINE g == <<r, a + 1>>
    <2>3. g[1] = r
      OBVIOUS
    <2>4. PICK c : c = [pc |-> "claim"]
      OBVIOUS
    <2>5. runs' = [running EXCEPT ![g] = c]
      BY <1>5, <2>4
    <2> HIDE DEF g
    <2>6. runs' = [f \in Runs |-> runs'[f]] /\ \A f \in Runs : runs'[f] = running[f] \/ (runs'[f] = c /\ f = g)
      BY <2>5
    <2> QED
      BY <2>2, <2>3, <2>4, <2>6
  <1> QED
    BY <1>3, <1>4, <1>5

LEMMA RespondFacts ==
    ASSUME CheckoutTypes, NEW e \in Runs, runs[e].pc \in ActivePcs, NEW status, Respond(e, status)
    PROVE  SameRequests /\ Spreads(e) /\ runs'[e].pc \notin HoldingPcs
  <1> DEFINE running == [runs EXCEPT ![e] = Over]
  <1>1. e[1] \in Requests /\ requests[e[1]].pc # "none"
    BY DEF Runs, CheckoutTypes, RunTypes
  <1>2. running = [f \in Runs |-> running[f]] /\ running[e] = Over
        /\ \A f \in Runs \ {e} : running[f] = runs[f]
    BY DEF CheckoutTypes, RunTypes
  <1>3. Over.pc = "over" /\ [pc |-> "claim"].pc = "claim"
    BY DEF Over
  <1>4. CASE IsHeard(e)
    <2>1. Attempted(e[1], status, running)
      BY <1>4 DEF Respond
    <2> HIDE DEF running
    <2>2. /\ SameRequests /\ runs' = [f \in Runs |-> runs'[f]]
          /\ \A f \in Runs : runs'[f] = running[f] \/ (runs'[f] = [pc |-> "claim"] /\ f[1] = e[1])
      BY <1>1, <1>2, <2>1, AttemptedFacts
    <2> QED
      BY <1>1, <1>2, <1>3, <2>2 DEF Spreads, ActivePcs, HoldingPcs, CheckoutTypes, RunTypes
  <1>5. CASE ~IsHeard(e)
    <2>1. runs' = running /\ UNCHANGED requests
      BY <1>5 DEF Respond
    <2> HIDE DEF running
    <2>2. SameRequests
      BY <2>1 DEF SameRequests, CheckoutTypes, RequestTypes, NoRun
    <2> QED
      BY <1>2, <1>3, <2>1, <2>2 DEF Spreads, ActivePcs, HoldingPcs, CheckoutTypes, RunTypes
  <1> QED
    BY <1>4, <1>5

\* Where a run of a request belongs.
LEMMA KeyFacts ==
    ASSUME CheckoutTypes, NEW e \in Runs, requests[e[1]].pc # "none"
    PROVE  KeyOf(e) \in Keys /\ MountOf(e) \in Mounts /\ KeyOf(e) = <<MountOf(e), 0>>
  <1>1. e[1] \in Requests
    BY DEF Runs
  <1>2. PICK m \in Mounts : requests[e[1]].key = <<m, 0>>
    BY <1>1, OrderRequestFacts DEF CheckoutTypes, RequestTypes, NoRun
  <1>3. <<m, 0>> \in Keys
    BY CheckoutAssumption DEF Keys
  <1> QED
    BY <1>2, <1>3 DEF KeyOf, MountOf

LEMMA SameTypes ==
    ASSUME CheckoutTypes, SameRequests,
           runs' = [f \in Runs |-> runs'[f]],
           \A f \in Runs : runs'[f].pc \in ActivePcs => requests[f[1]].pc # "none"
    PROVE  /\ RequestTypes' /\ RunTypes'
           /\ \A f \in Runs : requests[f[1]].pc # "none" =>
                /\ requests'[f[1]].pc # "none"
                /\ KeyOf(f)' = KeyOf(f) /\ MountOf(f)' = MountOf(f)
  <1>1. \A r \in Requests : /\ requests'[r].pc = "none" <=> requests[r].pc = "none"
                            /\ requests'[r] = NoRun \/ IsOrderRequest(requests'[r])
    BY OrderRequestFacts DEF SameRequests, CheckoutTypes, RequestTypes, NoRun
  <1>2. Sent' = Sent
    BY <1>1 DEF Sent
  <1>3. \A f \in Runs : f[1] \in Requests
    BY DEF Runs
  <1>4. RequestTypes'
    BY <1>1, <1>2 DEF SameRequests, CheckoutTypes, RequestTypes
  <1>5. RunTypes'
    BY <1>1, <1>3 DEF RunTypes
  <1> QED
    BY <1>1, <1>3, <1>4, <1>5 DEF SameRequests, KeyOf, MountOf

\* Nobody comes to hold a key and no key, order or excuse changes.
LEMMA QuietKeys ==
    ASSUME CheckoutTypes, KeyInv, UNCHANGED <<keys, orders, excused>>,
           \A f \in Runs : runs'[f].pc \in HoldingPcs => runs'[f] = runs[f],
           \A f \in Runs : requests[f[1]].pc # "none" => KeyOf(f)' = KeyOf(f) /\ MountOf(f)' = MountOf(f)
    PROVE  KeyInv'
  <1>1. \A f \in Runs : runs'[f].pc \in HoldingPcs =>
          runs'[f] = runs[f] /\ KeyOf(f)' = KeyOf(f) /\ MountOf(f)' = MountOf(f)
    BY DEF CheckoutTypes, RunTypes, HoldingPcs, ActivePcs
  <1> HIDE DEF KeyOf, MountOf
  <1>2. OneOrderPerCheckout' /\ \A m \in Mounts : keys'[<<m, 0>>] = NoKey => orders'[m] <= excused'[m]
    BY DEF KeyInv, OneOrderPerCheckout
  <1>3. \A e \in Runs : runs'[e].pc \in HoldingPcs => keys'[KeyOf(e)'] # NoKey
    BY <1>1 DEF KeyInv
  <1>4. \A e \in Runs : runs'[e].pc = "place" \/ (runs'[e].pc = "release" /\ ~runs'[e].kept)
                         => orders'[MountOf(e)'] <= excused'[MountOf(e)']
    BY <1>1 DEF KeyInv, HoldingPcs
  <1>5. \A e, f \in Runs : /\ runs'[e].pc \in HoldingPcs /\ runs'[f].pc \in HoldingPcs
                           /\ KeyOf(e)' = KeyOf(f)'
                           => e = f
    BY <1>1 DEF KeyInv
  <1> QED
    BY <1>2, <1>3, <1>4, <1>5 DEF KeyInv

\* A run acts on the key of its mount: it holds that key, takes it while it is
\* free, or gives up its place and leaves everything as it is.
LEMMA ActStep ==
    ASSUME CheckoutTypes, KeyInv, NEW e \in Runs, runs[e].pc \in ActivePcs, SameRequests, Spreads(e),
           NEW m, m = MountOf(e), NEW k, k = <<m, 0>>,
           \A n \in Mounts \ {m} : /\ orders'[n] = orders[n] /\ excused'[n] = excused[n]
                                   /\ keys'[<<n, 0>>] = keys[<<n, 0>>],
           orders'[m] <= 1 + excused'[m],
           keys'[k] = NoKey => orders'[m] <= excused'[m],
           runs'[e].pc \in HoldingPcs => keys'[k] # NoKey,
           runs'[e].pc = "place" \/ (runs'[e].pc = "release" /\ ~runs'[e].kept)
             => orders'[m] <= excused'[m],
           \/ runs[e].pc \in HoldingPcs
           \/ keys[k] = NoKey
           \/ /\ runs'[e].pc \notin HoldingPcs /\ keys'[k] = keys[k]
              /\ orders'[m] = orders[m] /\ excused'[m] = excused[m]
    PROVE  KeyInv'
  <1>1. requests[e[1]].pc # "none" /\ KeyOf(e) = k /\ m \in Mounts
    BY KeyFacts DEF CheckoutTypes, RunTypes
  <1>2. \A f \in Runs : requests[f[1]].pc # "none" => KeyOf(f)' = KeyOf(f) /\ MountOf(f)' = MountOf(f)
    BY SameTypes DEF Spreads
  <1>3. KeyOf(e)' = k /\ MountOf(e)' = m
    BY <1>1, <1>2
  <1>4. ASSUME NEW f \in Runs \ {e}, runs'[f].pc \in HoldingPcs
        PROVE  /\ runs'[f] = runs[f] /\ KeyOf(f)' = KeyOf(f) /\ MountOf(f)' = MountOf(f)
               /\ MountOf(f) \in Mounts /\ KeyOf(f) = <<MountOf(f), 0>>
               /\ MountOf(f) = m => /\ runs'[e].pc \notin HoldingPcs /\ keys'[k] = keys[k]
                                    /\ orders'[m] = orders[m] /\ excused'[m] = excused[m]
    <2>1. runs'[f] = runs[f]
      BY <1>4 DEF Spreads
    <2>2. requests[f[1]].pc # "none"
      BY <1>4, <2>1 DEF CheckoutTypes, RunTypes, HoldingPcs, ActivePcs
    <2>3. KeyOf(f)' = KeyOf(f) /\ MountOf(f)' = MountOf(f) /\ MountOf(f) \in Mounts
          /\ KeyOf(f) = <<MountOf(f), 0>>
      BY <1>2, <2>2, KeyFacts
    <2>4. MountOf(f) = m => runs[e].pc \notin HoldingPcs /\ keys[k] # NoKey
      BY <1>1, <1>4, <2>1, <2>3 DEF KeyInv
    <2> QED
      BY <2>1, <2>3, <2>4
  <1> HIDE DEF KeyOf, MountOf
  <1>5. OneOrderPerCheckout'
    BY DEF KeyInv, OneOrderPerCheckout
  <1>6. \A n \in Mounts : keys'[<<n, 0>>] = NoKey => orders'[n] <= excused'[n]
    BY DEF KeyInv
  <1>7. \A f \in Runs : runs'[f].pc \in HoldingPcs => keys'[KeyOf(f)'] # NoKey
    BY <1>3, <1>4 DEF KeyInv
  <1>8. \A f \in Runs : runs'[f].pc = "place" \/ (runs'[f].pc = "release" /\ ~runs'[f].kept)
                         => orders'[MountOf(f)'] <= excused'[MountOf(f)']
    <2> SUFFICES ASSUME NEW f \in Runs \ {e},
                        runs'[f].pc = "place" \/ (runs'[f].pc = "release" /\ ~runs'[f].kept)
                 PROVE  orders'[MountOf(f)'] <= excused'[MountOf(f)']
      BY <1>3
    <2>1. runs'[f].pc \in HoldingPcs
      BY DEF HoldingPcs
    <2>2. orders[MountOf(f)] <= excused[MountOf(f)]
      BY <1>4, <2>1 DEF KeyInv
    <2> QED
      BY <1>4, <2>1, <2>2
  <1>9. \A f, g \in Runs : /\ runs'[f].pc \in HoldingPcs /\ runs'[g].pc \in HoldingPcs
                           /\ KeyOf(f)' = KeyOf(g)'
                           => f = g
    <2>1. ASSUME NEW f \in Runs \ {e}, runs'[f].pc \in HoldingPcs, runs'[e].pc \in HoldingPcs
          PROVE  KeyOf(f)' # k
      <3>1. MountOf(f) # m /\ KeyOf(f)' = <<MountOf(f), 0>>
        BY <1>4, <2>1
      <3> QED
        BY <3>1
    <2> QED
      BY <1>3, <1>4, <2>1 DEF KeyInv
  <1> QED
    BY <1>5, <1>6, <1>7, <1>8, <1>9 DEF KeyInv

CheckoutInv == CheckoutTypes /\ KeyInv

\* The form keeps a mount of its own, whatever else of it changes.
LEMMA FormSteps ==
    ASSUME CheckoutTypes,
           \/ Submit \/ BrowserLosesConnection \/ Remount \/ BasketChanges
           \/ \E r \in Requests : Answered(r)
    PROVE  IsForm(form')
  <1>f. form = [i \in FormFields |-> form[i]] /\ form.mount \in Mounts
    BY DEF CheckoutTypes, IsForm
  <1>1. CASE Submit \/ BrowserLosesConnection \/ \E r \in Requests : Answered(r)
    <2>1. PICK w, s : form' = [form EXCEPT !.waits = w, !.shows = s]
      BY <1>1 DEF Submit, BrowserLosesConnection, Answered
    <2> QED
      BY <1>f, <2>1 DEF IsForm, FormFields
  <1>2. CASE BasketChanges
    BY <1>2, <1>f DEF BasketChanges, IsForm, FormFields
  <1>3. CASE Remount
    <2>1. PICK m, l : m = form.mount + 1
            /\ form' = [form EXCEPT !.mount = m, !.shows = "form", !.waits = 0, !.left = l]
      BY <1>3, <1>f DEF Remount, FormFields
    <2>2. m \in Mounts
      BY <1>3, <1>f, <2>1, CheckoutAssumption DEF Remount, Mounts
    <2> QED
      BY <1>f, <2>1, <2>2 DEF IsForm, FormFields
  <1> QED
    BY <1>1, <1>2, <1>3

LEMMA OrderRequestMade ==
    ASSUME NEW m \in Mounts, NEW p, p # "none", NEW h, NEW a, NEW s
    PROVE  /\ IsOrderRequest(OrderRequest(p, <<m, 0>>, h, a, s))
           /\ OrderRequest(p, <<m, 0>>, h, a, s).pc = p
  <1>1. IsOrderRequest(OrderRequest(p, <<m, 0>>, h, a, s))
    <2>1. \A q, b, c : /\ OrderRequest(q, <<m, 0>>, h, b, c).key = <<m, 0>>
                       /\ (q # "none" => IsOrderRequest(OrderRequest(q, <<m, 0>>, h, b, c)))
      BY DEF OrderRequest, IsOrderRequest
    <2> QED
      BY <2>1
  <1>2. OrderRequest(p, <<m, 0>>, h, a, s).pc = p
    BY DEF OrderRequest
  <1> QED
    BY <1>1, <1>2

LEMMA SubmitStep ==
    ASSUME CheckoutInv, Submit
    PROVE  CheckoutInv'
  <1>t. CheckoutTypes /\ KeyInv /\ RequestTypes /\ RunTypes
    BY DEF CheckoutInv, CheckoutTypes
  <1>1. PICK n \in 0 .. MaxSubmits : Sent = 1 .. n
    BY <1>t DEF RequestTypes
  <1>2. Cardinality(Sent) = n /\ n \in Nat /\ n < MaxSubmits
    <2>1. Cardinality(1 .. n) = n
      BY FS_Interval
    <2> QED
      BY <1>1, <2>1, CheckoutAssumption DEF Submit
  <1> DEFINE r == n + 1
             x == OrderRequest("route", <<form.mount, 0>>, form.basket, 0, 0)
  <1>3. requests' = [requests EXCEPT ![r] = x] /\ UNCHANGED <<runs, keys, orders, excused>>
    BY <1>2 DEF Submit, IdempotencyKey, OrderRequest
  <1>4. r \in Requests /\ r \notin Sent /\ r \in 0 .. MaxSubmits
    BY <1>1, <1>2, CheckoutAssumption DEF Requests
  <1>5. IsOrderRequest(x) /\ x.pc = "route"
    <2>1. form.mount \in Mounts
      BY <1>t DEF CheckoutTypes, IsForm
    <2> QED
      BY <2>1, OrderRequestMade
  <1> HIDE DEF x, r
  <1>6. /\ requests' = [q \in Requests |-> requests'[q]] /\ requests'[r] = x
        /\ \A q \in Requests \ {r} : requests'[q] = requests[q]
    BY <1>3, <1>4, <1>t DEF RequestTypes
  <1>7. Sent' = Sent \union {r}
    BY <1>4, <1>5, <1>6 DEF Sent
  <1>8. Sent' = 1 .. r
    BY <1>1, <1>2, <1>7 DEF r
  <1>9. RequestTypes'
    BY <1>4, <1>5, <1>6, <1>8, <1>t DEF RequestTypes
  <1>10. \A f \in Runs : requests[f[1]].pc # "none" => f[1] # r /\ f[1] \in Requests
    BY <1>4 DEF Runs, Sent
  <1>11. RunTypes'
    BY <1>3, <1>6, <1>10, <1>t DEF RunTypes
  <1>12. \A f \in Runs : requests[f[1]].pc # "none" => KeyOf(f)' = KeyOf(f) /\ MountOf(f)' = MountOf(f)
    BY <1>6, <1>10 DEF KeyOf, MountOf
  <1>13. KeyInv'
    BY <1>3, <1>12, <1>t, QuietKeys
  <1>14. KeyTypes' /\ CountTypes'
    BY <1>3, <1>t DEF CheckoutTypes, KeyTypes, CountTypes
  <1> QED
    BY <1>9, <1>11, <1>13, <1>14, <1>t, FormSteps DEF CheckoutInv, CheckoutTypes

\* Steps that touch no key: what the browser does, and the route handler.
LEMMA QuietStep ==
    ASSUME CheckoutInv, UNCHANGED <<keys, orders, excused>>, IsForm(form'), SameRequests,
           runs' = [f \in Runs |-> runs'[f]],
           \A f \in Runs : \/ runs'[f] = runs[f]
                           \/ runs'[f] = [pc |-> "claim"] /\ requests[f[1]].pc # "none"
    PROVE  CheckoutInv'
  <1>1. CheckoutTypes /\ KeyInv
    BY DEF CheckoutInv
  <1>2. \A f \in Runs : /\ runs'[f].pc \in HoldingPcs => runs'[f] = runs[f]
                        /\ runs'[f].pc \in ActivePcs => requests[f[1]].pc # "none"
    BY <1>1 DEF HoldingPcs, CheckoutTypes, RunTypes
  <1>3. /\ RequestTypes' /\ RunTypes'
        /\ \A f \in Runs : requests[f[1]].pc # "none" => KeyOf(f)' = KeyOf(f) /\ MountOf(f)' = MountOf(f)
    BY <1>1, <1>2, SameTypes
  <1>4. KeyInv'
    BY <1>1, <1>2, <1>3, QuietKeys
  <1>5. KeyTypes' /\ CountTypes'
    BY <1>1 DEF CheckoutTypes, KeyTypes, CountTypes
  <1> QED
    BY <1>3, <1>4, <1>5 DEF CheckoutInv, CheckoutTypes

LEMMA RouteStep ==
    ASSUME CheckoutInv, NEW r \in Requests, Route(r) \/ AttemptLost(r) \/ Answered(r)
    PROVE  CheckoutInv'
  <1>t. CheckoutTypes /\ RequestTypes /\ RunTypes /\ IsForm(form)
        /\ runs = [f \in Runs |-> runs[f]]
    BY DEF CheckoutInv, CheckoutTypes, RunTypes
  <1>1. requests[r].pc # "none" /\ IsOrderRequest(requests[r])
    BY <1>t DEF Route, AttemptLost, Answered, RequestTypes, NoRun
  <1>2. CASE AttemptLost(r)
    <2>1. PICK status : Attempted(r, status, runs)
      BY <1>2 DEF AttemptLost
    <2>2. /\ SameRequests /\ runs' = [f \in Runs |-> runs'[f]]
          /\ \A f \in Runs : runs'[f] = runs[f] \/ (runs'[f] = [pc |-> "claim"] /\ f[1] = r)
      BY <1>t, <1>1, <2>1, AttemptedFacts
    <2> QED
      BY <1>2, <1>t, <1>1, <2>2, QuietStep DEF AttemptLost
  <1>3. CASE Answered(r)
    <2> DEFINE x == [requests[r] EXCEPT !.pc = "over"]
    <2>1. requests' = [requests EXCEPT ![r] = x] /\ UNCHANGED <<runs, keys, orders, excused>>
      BY <1>3, <1>t DEF Answered, RequestTypes
    <2>2. IsOrderRequest(x) /\ x.key = requests[r].key
      BY <1>1, OrderRequestFacts
    <2> HIDE DEF x
    <2>3. SameRequests
      BY <1>t, <1>1, <2>1, <2>2, FieldChanged
    <2>4. IsForm(form')
      BY <1>3, <1>t, FormSteps
    <2> QED
      BY <1>t, <2>1, <2>3, <2>4, QuietStep
  <1>4. CASE Route(r)
    <2>1. UNCHANGED <<form, keys, orders, excused>>
          /\ \/ /\ requests' = [requests EXCEPT ![r].pc = "await", ![r].attempt = 1]
                /\ runs' = [runs EXCEPT ![<<r, 1>>] = [pc |-> "claim"]]
             \/ (\E status : Conclude(r, status)) /\ UNCHANGED runs
      BY <1>4 DEF Route
    <2>2. CASE (\E status : Conclude(r, status)) /\ UNCHANGED runs
      <3>1. SameRequests
        BY <1>t, <1>1, <2>2, ConcludeFacts
      <3> QED
        BY <1>t, <2>1, <2>2, <3>1, QuietStep
    <2>3. CASE /\ requests' = [requests EXCEPT ![r].pc = "await", ![r].attempt = 1]
               /\ runs' = [runs EXCEPT ![<<r, 1>>] = [pc |-> "claim"]]
      <3> DEFINE y == [requests[r] EXCEPT !.pc = "await"]
                 x == [y EXCEPT !.attempt = 1]
      <3>1. requests' = [requests EXCEPT ![r] = x]
        BY <2>3, <1>t DEF RequestTypes
      <3>2. IsOrderRequest(y) /\ y.key = requests[r].key
        BY <1>1, OrderRequestFacts
      <3> HIDE DEF y
      <3>3. IsOrderRequest(x) /\ x.key = requests[r].key
        BY <3>2, OrderRequestFacts
      <3> HIDE DEF x
      <3>4. SameRequests
        BY <1>t, <1>1, <3>1, <3>3, FieldChanged
      <3> DEFINE g == <<r, 1>>
      <3>5. g[1] = r
        OBVIOUS
      <3>6. PICK c : c = [pc |-> "claim"]
        OBVIOUS
      <3>7. runs' = [runs EXCEPT ![g] = c]
        BY <2>3, <3>6
      <3> HIDE DEF g
      <3>8. runs' = [f \in Runs |-> runs'[f]] /\ \A f \in Runs : runs'[f] = runs[f] \/ (runs'[f] = c /\ f = g)
        BY <1>t, <3>7
      <3> QED
        BY <1>t, <1>1, <2>1, <3>4, <3>5, <3>6, <3>8, QuietStep
    <2> QED
      BY <2>1, <2>2, <2>3
  <1> QED
    BY <1>2, <1>3, <1>4

-----------------------------------------------------------------------------
(* The steps of placeOrder.                                                *)

\* A run leaves the row of its key and the counts of its mount as row, o and x.
LEMMA RunStep ==
    ASSUME CheckoutInv, NEW e \in Runs, runs[e].pc \in ActivePcs, SameRequests, Spreads(e),
           UNCHANGED form,
           NEW row, IsKeyRow(row), keys' = [keys EXCEPT ![KeyOf(e)] = row],
           NEW o \in Nat, orders' = [orders EXCEPT ![MountOf(e)] = o],
           NEW x \in Nat, excused' = [excused EXCEPT ![MountOf(e)] = x],
           o <= 1 + x, row = NoKey => o <= x, runs'[e].pc \in HoldingPcs => row # NoKey,
           runs'[e].pc = "place" \/ (runs'[e].pc = "release" /\ ~runs'[e].kept) => o <= x,
           \/ runs[e].pc \in HoldingPcs
           \/ keys[KeyOf(e)] = NoKey
           \/ /\ runs'[e].pc \notin HoldingPcs /\ row = keys[KeyOf(e)]
              /\ o = orders[MountOf(e)] /\ x = excused[MountOf(e)]
    PROVE  CheckoutInv'
  <1>t. CheckoutTypes /\ KeyInv /\ IsForm(form) /\ RunTypes /\ KeyTypes /\ CountTypes
    BY DEF CheckoutInv, CheckoutTypes
  <1>1. PICK m : m = MountOf(e)
    OBVIOUS
  <1>2. PICK k : k = <<m, 0>>
    OBVIOUS
  <1>3. requests[e[1]].pc # "none"
    BY <1>t DEF RunTypes
  <1>4. KeyOf(e) = k /\ k \in Keys /\ m \in Mounts
    BY <1>t, <1>1, <1>2, <1>3, KeyFacts
  <1>5. \A n \in Mounts \ {m} : <<n, 0>> # k /\ <<n, 0>> \in Keys
    BY <1>2, CheckoutAssumption DEF Keys
  <1> HIDE DEF KeyOf, MountOf
  <1>6. /\ keys' = [j \in Keys |-> keys'[j]] /\ keys'[k] = row
        /\ \A j \in Keys \ {k} : keys'[j] = keys[j]
    BY <1>4, <1>t DEF KeyTypes
  <1>7. /\ orders' \in [Mounts -> Nat] /\ orders'[m] = o
        /\ \A n \in Mounts \ {m} : orders'[n] = orders[n]
    BY <1>1, <1>4, <1>t DEF CountTypes
  <1>8. /\ excused' \in [Mounts -> Nat] /\ excused'[m] = x
        /\ \A n \in Mounts \ {m} : excused'[n] = excused[n]
    BY <1>1, <1>4, <1>t DEF CountTypes
  <1>9. KeyTypes' /\ CountTypes'
    BY <1>6, <1>7, <1>8, <1>t DEF KeyTypes, CountTypes
  <1>10. RequestTypes' /\ RunTypes'
    BY <1>t, SameTypes DEF Spreads
  <1>11. \A n \in Mounts \ {m} : /\ orders'[n] = orders[n] /\ excused'[n] = excused[n]
                                 /\ keys'[<<n, 0>>] = keys[<<n, 0>>]
    BY <1>5, <1>6, <1>7, <1>8
  <1>12. KeyInv'
    BY <1>1, <1>2, <1>4, <1>6, <1>7, <1>8, <1>11, <1>t, ActStep
  <1> QED
    BY <1>9, <1>10, <1>12, <1>t DEF CheckoutInv, CheckoutTypes

\* What a run finds before it acts.
LEMMA RunContext ==
    ASSUME CheckoutInv, NEW e \in Runs, runs[e].pc \in ActivePcs
    PROVE  /\ CheckoutTypes
           /\ keys = [keys EXCEPT ![KeyOf(e)] = keys[KeyOf(e)]] /\ IsKeyRow(keys[KeyOf(e)])
           /\ orders[MountOf(e)] \in Nat /\ orders = [orders EXCEPT ![MountOf(e)] = orders[MountOf(e)]]
           /\ excused[MountOf(e)] \in Nat /\ excused = [excused EXCEPT ![MountOf(e)] = excused[MountOf(e)]]
           /\ orders[MountOf(e)] <= 1 + excused[MountOf(e)]
           /\ keys[KeyOf(e)] = NoKey => orders[MountOf(e)] <= excused[MountOf(e)]
           /\ runs[e].pc \in HoldingPcs => keys[KeyOf(e)] # NoKey
           /\ runs[e].pc = "place" \/ (runs[e].pc = "release" /\ ~runs[e].kept)
                => orders[MountOf(e)] <= excused[MountOf(e)]
           /\ KeyOf(e) \in Keys /\ MountOf(e) \in Mounts
  <1>t. CheckoutTypes /\ KeyInv /\ RunTypes /\ KeyTypes /\ CountTypes
    BY DEF CheckoutInv, CheckoutTypes
  <1>1. requests[e[1]].pc # "none"
    BY <1>t DEF RunTypes
  <1>2. KeyOf(e) \in Keys /\ MountOf(e) \in Mounts /\ KeyOf(e) = <<MountOf(e), 0>>
    BY <1>t, <1>1, KeyFacts
  <1> HIDE DEF KeyOf, MountOf
  <1>3. keys = [keys EXCEPT ![KeyOf(e)] = keys[KeyOf(e)]] /\ IsKeyRow(keys[KeyOf(e)])
    BY <1>2, <1>t DEF KeyTypes
  <1>4. orders[MountOf(e)] \in Nat /\ orders = [orders EXCEPT ![MountOf(e)] = orders[MountOf(e)]]
    BY <1>2, <1>t DEF CountTypes
  <1>5. excused[MountOf(e)] \in Nat /\ excused = [excused EXCEPT ![MountOf(e)] = excused[MountOf(e)]]
    BY <1>2, <1>t DEF CountTypes
  <1>6. orders[MountOf(e)] <= 1 + excused[MountOf(e)]
    BY <1>2, <1>t DEF KeyInv, OneOrderPerCheckout
  <1>7. keys[KeyOf(e)] = NoKey => orders[MountOf(e)] <= excused[MountOf(e)]
    BY <1>2, <1>t DEF KeyInv
  <1>8. runs[e].pc \in HoldingPcs => keys[KeyOf(e)] # NoKey
    BY <1>t DEF KeyInv
  <1>9. runs[e].pc = "place" \/ (runs[e].pc = "release" /\ ~runs[e].kept)
          => orders[MountOf(e)] <= excused[MountOf(e)]
    BY <1>t DEF KeyInv
  <1> QED
    BY <1>2, <1>3, <1>4, <1>5, <1>6, <1>7, <1>8, <1>9, <1>t

\* A run that ends leaves its claim, or the row it holds, behind.
LEMMA EndStep ==
    ASSUME CheckoutInv, NEW e \in Runs, runs[e].pc \in ActivePcs, SameRequests, Spreads(e),
           runs'[e].pc \notin HoldingPcs, UNCHANGED <<form, keys, orders, excused>>
    PROVE  CheckoutInv'
  <1>1. PICK row, o, x : row = keys[KeyOf(e)] /\ o = orders[MountOf(e)] /\ x = excused[MountOf(e)]
    OBVIOUS
  <1>2. /\ keys' = [keys EXCEPT ![KeyOf(e)] = row] /\ IsKeyRow(row)
        /\ o \in Nat /\ orders' = [orders EXCEPT ![MountOf(e)] = o]
        /\ x \in Nat /\ excused' = [excused EXCEPT ![MountOf(e)] = x]
        /\ o <= 1 + x /\ (row = NoKey => o <= x)
    BY <1>1, RunContext
  <1>3. ~(runs'[e].pc = "place" \/ (runs'[e].pc = "release" /\ ~runs'[e].kept))
    BY DEF HoldingPcs
  <1> QED
    BY <1>1, <1>2, <1>3, RunStep

\* A run that goes on, or is over, sends nothing.
LEMMA NextPc ==
    ASSUME CheckoutTypes, NEW e \in Runs, runs[e].pc \in ActivePcs, UNCHANGED requests,
           NEW v, runs' = [runs EXCEPT ![e] = v]
    PROVE  SameRequests /\ Spreads(e) /\ runs'[e] = v
  <1>1. SameRequests
    BY DEF SameRequests, CheckoutTypes, RequestTypes, NoRun
  <1>2. /\ runs' = [f \in Runs |-> runs'[f]] /\ runs'[e] = v
        /\ \A f \in Runs \ {e} : runs'[f] = runs[f]
    BY DEF CheckoutTypes, RunTypes
  <1>3. Spreads(e)
    BY <1>2 DEF Spreads, CheckoutTypes, RunTypes
  <1> QED
    BY <1>1, <1>2, <1>3

LEMMA KeyRows ==
    /\ \A e : IsKeyRow(Claimed(e)) /\ Claimed(e) # NoKey
    /\ IsKeyRow(NoKey)
    /\ \A x : IsKeyRow(x) /\ x # NoKey =>
         LET y == [x EXCEPT !.state = "COMPLETED"] IN IsKeyRow(y) /\ y # NoKey
  <1>1. \A st, h : st # "none" => IsKeyRow(KeyRow(st, h))
    BY DEF IsKeyRow
  <1>2. \A st, h : st # "none" => KeyRow(st, h) # NoKey
    <2> TAKE st, h
    <2>1. KeyRow(st, h).state = st /\ NoKey.state = "none"
      BY DEF KeyRow, NoKey
    <2> QED
      BY <2>1
  <1>3. \A e : Claimed(e) = KeyRow("IN_PROGRESS", requests[e[1]].hash)
    BY DEF Claimed, KeyRow
  <1>4. IsKeyRow(NoKey)
    BY DEF IsKeyRow
  <1>5. ASSUME NEW x, IsKeyRow(x), x # NoKey
        PROVE  LET y == [x EXCEPT !.state = "COMPLETED"] IN IsKeyRow(y) /\ y # NoKey
    <2>1. PICK st, h : x = KeyRow(st, h)
      BY <1>5 DEF IsKeyRow
    <2>2. [x EXCEPT !.state = "COMPLETED"] = KeyRow("COMPLETED", h)
      BY <2>1 DEF KeyRow
    <2> QED
      BY <1>1, <1>2, <2>2
  <1> QED
    BY <1>1, <1>2, <1>3, <1>4, <1>5

LEMMA ClaimStep ==
    ASSUME CheckoutInv, NEW e \in Runs, ClaimKey(e)
    PROVE  CheckoutInv'
  <1>t. CheckoutTypes /\ runs[e].pc \in ActivePcs /\ UNCHANGED <<form, orders, excused>>
    BY DEF CheckoutInv, ClaimKey, ActivePcs
  <1>1. CASE keys[KeyOf(e)] = NoKey
    <2>1. PICK v : v = [pc |-> "place"]
      OBVIOUS
    <2>2. v.pc = "place"
      BY <2>1
    <2>3. keys' = [keys EXCEPT ![KeyOf(e)] = Claimed(e)] /\ runs' = [runs EXCEPT ![e] = v]
          /\ UNCHANGED requests
      BY <1>1, <2>1 DEF ClaimKey
    <2>4. SameRequests /\ Spreads(e) /\ runs'[e].pc = "place"
      BY <1>t, <2>2, <2>3, NextPc
    <2>5. PICK row, o, x : row = Claimed(e) /\ o = orders[MountOf(e)] /\ x = excused[MountOf(e)]
      OBVIOUS
    <2>6. /\ o \in Nat /\ orders' = [orders EXCEPT ![MountOf(e)] = o]
          /\ x \in Nat /\ excused' = [excused EXCEPT ![MountOf(e)] = x]
          /\ o <= x /\ o <= 1 + x
      BY <1>t, <1>1, <2>5, RunContext
    <2>7. IsKeyRow(row) /\ row # NoKey
      BY <2>5, KeyRows
    <2> QED
      BY <1>t, <1>1, <2>3, <2>4, <2>5, <2>6, <2>7, RunStep
  <1>2. CASE keys[KeyOf(e)] # NoKey
    <2>1. PICK status : Respond(e, status)
      BY <1>2 DEF ClaimKey
    <2>2. UNCHANGED keys
      BY <1>2 DEF ClaimKey
    <2> QED
      BY <1>t, <2>1, <2>2, RespondFacts, EndStep
  <1> QED
    BY <1>1, <1>2

LEMMA PlaceStep ==
    ASSUME CheckoutInv, NEW e \in Runs, Place(e)
    PROVE  CheckoutInv'
  <1>t. /\ CheckoutTypes /\ runs[e].pc \in ActivePcs /\ runs[e].pc \in HoldingPcs
        /\ UNCHANGED <<form, keys, excused, requests>>
    BY DEF CheckoutInv, Place, ActivePcs, HoldingPcs
  <1>1. PICK row, x : row = keys[KeyOf(e)] /\ x = excused[MountOf(e)]
    OBVIOUS
  <1>2. /\ keys' = [keys EXCEPT ![KeyOf(e)] = row] /\ IsKeyRow(row) /\ row # NoKey
        /\ x \in Nat /\ excused' = [excused EXCEPT ![MountOf(e)] = x]
        /\ orders[MountOf(e)] \in Nat /\ orders[MountOf(e)] <= x
        /\ orders = [orders EXCEPT ![MountOf(e)] = orders[MountOf(e)]]
    BY <1>t, <1>1, RunContext DEF Place
  <1>3. ASSUME NEW v, v.pc \in HoldingPcs, NEW o \in Nat, runs' = [runs EXCEPT ![e] = v],
               orders' = [orders EXCEPT ![MountOf(e)] = o],
               o <= 1 + x, v.pc = "place" \/ (v.pc = "release" /\ ~v.kept) => o <= x
        PROVE  CheckoutInv'
    <2>1. SameRequests /\ Spreads(e) /\ runs'[e] = v
      BY <1>t, <1>3, NextPc
    <2>2. /\ o <= 1 + x /\ (row = NoKey => o <= x) /\ (runs'[e].pc \in HoldingPcs => row # NoKey)
          /\ (runs'[e].pc = "place" \/ (runs'[e].pc = "release" /\ ~runs'[e].kept) => o <= x)
      BY <1>2, <1>3, <2>1
    <2>3. /\ orders' = [orders EXCEPT ![MountOf(e)] = o] /\ UNCHANGED form
          /\ runs[e].pc \in HoldingPcs /\ runs[e].pc \in ActivePcs
      BY <1>t, <1>3
    <2> QED
      BY <1>2, <2>1, <2>2, <2>3, RunStep
  <1>4. PICK n \in Nat : n = orders[MountOf(e)]
    BY <1>2
  <1>5. n + 1 \in Nat /\ n + 1 <= 1 + x /\ n <= 1 + x /\ n <= x
    BY <1>2, <1>4
  <1>6. CASE orders' = [orders EXCEPT ![MountOf(e)] = @ + 1] /\ runs' = [runs EXCEPT ![e] = [pc |-> "complete"]]
    <2>1. PICK v : v = [pc |-> "complete"]
      OBVIOUS
    <2>2. v.pc = "complete" /\ v.pc \in HoldingPcs
      BY <2>1 DEF HoldingPcs
    <2>3. orders' = [orders EXCEPT ![MountOf(e)] = n + 1]
      BY <1>4, <1>6
    <2> QED
      BY <1>3, <1>5, <1>6, <2>1, <2>2, <2>3
  <1>7. ASSUME NEW status, UNCHANGED orders,
               runs' = [runs EXCEPT ![e] = [pc |-> "release", status |-> status, kept |-> FALSE]]
        PROVE  CheckoutInv'
    <2>1. PICK v : v = [pc |-> "release", status |-> status, kept |-> FALSE]
      OBVIOUS
    <2>2. v.pc \in HoldingPcs
      BY <2>1 DEF HoldingPcs
    <2> QED
      BY <1>2, <1>3, <1>4, <1>5, <1>7, <2>1, <2>2
  <1>8. ASSUME NEW was \in BOOLEAN,
               orders' = [orders EXCEPT ![MountOf(e)] = IF was THEN @ + 1 ELSE @],
               runs' = [runs EXCEPT ![e] = [pc |-> "release", status |-> 500, kept |-> was]]
        PROVE  CheckoutInv'
    <2>1. PICK v : v = [pc |-> "release", status |-> 500, kept |-> was]
      OBVIOUS
    <2>2. v.pc \in HoldingPcs /\ v.pc # "place"
      BY <2>1 DEF HoldingPcs
    <2>3. v.kept = was
      BY <2>1
    <2>4. CASE was = TRUE
      <3>1. orders' = [orders EXCEPT ![MountOf(e)] = n + 1]
        BY <1>4, <1>8, <2>4
      <3> QED
        <4>1. PICK o \in Nat : o = n + 1
          BY <1>5
        <4>2. runs' = [runs EXCEPT ![e] = v] /\ orders' = [orders EXCEPT ![MountOf(e)] = o] /\ o <= 1 + x
          BY <1>5, <1>8, <2>1, <3>1, <4>1
        <4>3. v.pc = "place" \/ (v.pc = "release" /\ ~v.kept) => o <= x
          BY <2>2, <2>3, <2>4
        <4> QED
          BY <1>3, <2>2, <4>2, <4>3
    <2>5. CASE was = FALSE
      <3>1. orders' = [orders EXCEPT ![MountOf(e)] = n]
        BY <1>4, <1>8, <2>5
      <3> QED
        BY <1>3, <1>5, <1>8, <2>1, <2>2, <3>1, ZenonT(30)
    <2> QED
      BY <2>4, <2>5
  <1> QED
    BY <1>6, <1>7, <1>8 DEF Place

LEMMA ReleaseStep ==
    ASSUME CheckoutInv, NEW e \in Runs, ReleaseKey(e)
    PROVE  CheckoutInv'
  <1>t. /\ CheckoutTypes /\ runs[e].pc \in ActivePcs /\ runs[e].pc \in HoldingPcs
        /\ UNCHANGED <<form, orders>> /\ runs[e].pc = "release"
    BY DEF CheckoutInv, ReleaseKey, ActivePcs, HoldingPcs
  <1>1. SameRequests /\ Spreads(e) /\ runs'[e].pc \notin HoldingPcs
    <2>1. PICK status : Respond(e, status)
      BY DEF ReleaseKey
    <2> QED
      BY <1>t, <2>1, RespondFacts
  <1>2. CASE UNCHANGED <<keys, excused>>
    BY <1>t, <1>1, <1>2, EndStep
  <1>3. CASE /\ keys' = [keys EXCEPT ![KeyOf(e)] = NoKey]
             /\ excused' = [excused EXCEPT ![MountOf(e)] = IF runs[e].kept THEN @ + 1 ELSE @]
    <2>1. PICK row, o : row = NoKey /\ o = orders[MountOf(e)]
      OBVIOUS
    <2>2. PICK n \in Nat : n = excused[MountOf(e)]
      BY <1>t, RunContext
    <2>3. /\ o \in Nat /\ orders' = [orders EXCEPT ![MountOf(e)] = o] /\ o <= 1 + n
          /\ ~runs[e].kept => o <= n
      BY <1>t, <2>1, <2>2, RunContext
    <2>4. PICK x : x = IF runs[e].kept THEN n + 1 ELSE n
      OBVIOUS
    <2>5. x \in Nat /\ o <= x /\ o <= 1 + x
      BY <2>3, <2>4
    <2>6. excused' = [excused EXCEPT ![MountOf(e)] = x]
      BY <1>3, <2>2, <2>4
    <2>7. IsKeyRow(row) /\ keys' = [keys EXCEPT ![KeyOf(e)] = row]
      BY <1>3, <2>1, KeyRows
    <2>8. ~(runs'[e].pc = "place" \/ (runs'[e].pc = "release" /\ ~runs'[e].kept))
      BY <1>1 DEF HoldingPcs
    <2> QED
      BY <1>t, <1>1, <2>3, <2>5, <2>6, <2>7, <2>8, RunStep
  <1> QED
    BY <1>2, <1>3 DEF ReleaseKey

LEMMA CompleteStep ==
    ASSUME CheckoutInv, NEW e \in Runs, CompleteKey(e)
    PROVE  CheckoutInv'
  <1>t. /\ CheckoutTypes /\ runs[e].pc \in ActivePcs /\ runs[e].pc \in HoldingPcs
        /\ UNCHANGED <<form, orders, excused>>
    BY DEF CheckoutInv, CompleteKey, ActivePcs, HoldingPcs
  <1>1. SameRequests /\ Spreads(e) /\ runs'[e].pc \notin HoldingPcs
    BY <1>t, RespondFacts DEF CompleteKey
  <1>2. CASE UNCHANGED keys
    BY <1>t, <1>1, <1>2, EndStep
  <1>3. CASE keys[KeyOf(e)] # NoKey /\ keys' = [keys EXCEPT ![KeyOf(e)].state = "COMPLETED"]
    <2>1. PICK row : row = [keys[KeyOf(e)] EXCEPT !.state = "COMPLETED"]
      OBVIOUS
    <2>2. IsKeyRow(row) /\ row # NoKey
      BY <1>3, <1>t, <2>1, RunContext, KeyRows
    <2>3. KeyOf(e) \in Keys /\ keys = [k \in Keys |-> keys[k]]
      BY <1>t, RunContext DEF CheckoutTypes, KeyTypes
    <2> HIDE DEF KeyOf
    <2>4. keys' = [keys EXCEPT ![KeyOf(e)] = row]
      BY <1>3, <2>1, <2>3
    <2>5. PICK o, x : o = orders[MountOf(e)] /\ x = excused[MountOf(e)]
      OBVIOUS
    <2>6. /\ o \in Nat /\ orders' = [orders EXCEPT ![MountOf(e)] = o]
          /\ x \in Nat /\ excused' = [excused EXCEPT ![MountOf(e)] = x] /\ o <= 1 + x
      BY <1>t, <2>5, RunContext
    <2>7. ~(runs'[e].pc = "place" \/ (runs'[e].pc = "release" /\ ~runs'[e].kept))
      BY <1>1 DEF HoldingPcs
    <2> QED
      BY <1>t, <1>1, <2>2, <2>4, <2>6, <2>7, RunStep
  <1> QED
    BY <1>2, <1>3 DEF CompleteKey

LEMMA CancelStep ==
    ASSUME CheckoutInv, NEW e \in Runs, ContextCancelled(e)
    PROVE  CheckoutInv'
  <1>t. /\ CheckoutTypes /\ runs[e].pc \in ActivePcs /\ UNCHANGED <<form, requests, excused>>
        /\ runs' = [runs EXCEPT ![e] = Over]
    BY DEF CheckoutInv, ContextCancelled, ActivePcs
  <1>1. SameRequests /\ Spreads(e) /\ runs'[e].pc = "over"
    <2>1. Over.pc = "over"
      BY DEF Over
    <2> QED
      BY <1>t, <2>1, NextPc
  <1>2. runs'[e].pc \notin HoldingPcs
        /\ ~(runs'[e].pc = "place" \/ (runs'[e].pc = "release" /\ ~runs'[e].kept))
    BY <1>1 DEF HoldingPcs
  <1>3. PICK n \in Nat : n = orders[MountOf(e)]
    BY <1>t, RunContext
  <1>4. PICK x \in Nat : x = excused[MountOf(e)] /\ excused' = [excused EXCEPT ![MountOf(e)] = x]
    BY <1>t, RunContext
  <1>5. CASE UNCHANGED <<keys, orders>>
    BY <1>t, <1>1, <1>2, <1>5, EndStep
  <1>6. CASE /\ keys[KeyOf(e)] = NoKey /\ keys' = [keys EXCEPT ![KeyOf(e)] = Claimed(e)]
             /\ UNCHANGED orders
    <2>1. PICK row : row = Claimed(e)
      OBVIOUS
    <2>2. IsKeyRow(row) /\ row # NoKey /\ keys' = [keys EXCEPT ![KeyOf(e)] = row]
      BY <1>6, <2>1, KeyRows
    <2>3. orders' = [orders EXCEPT ![MountOf(e)] = n] /\ n <= 1 + x
      BY <1>t, <1>3, <1>4, <1>6, RunContext
    <2> QED
      BY <1>t, <1>1, <1>2, <1>4, <1>6, <2>2, <2>3, RunStep
  <1>7. CASE /\ runs[e].pc = "place" /\ orders' = [orders EXCEPT ![MountOf(e)] = @ + 1]
             /\ UNCHANGED keys
    <2>1. PICK row : row = keys[KeyOf(e)]
      OBVIOUS
    <2>2. PICK o \in Nat : o = n + 1
      OBVIOUS
    <2>3. runs[e].pc \in HoldingPcs
      BY <1>7 DEF HoldingPcs
    <2>4. IsKeyRow(row) /\ row # NoKey /\ keys' = [keys EXCEPT ![KeyOf(e)] = row]
      BY <1>7, <1>t, <2>1, <2>3, RunContext
    <2>5. n <= x
      BY <1>7, <1>t, <1>3, <1>4, RunContext
    <2>6. orders' = [orders EXCEPT ![MountOf(e)] = o] /\ o <= 1 + x
      BY <1>7, <1>3, <2>2, <2>5
    <2> QED
      BY <1>t, <1>1, <1>2, <1>4, <2>3, <2>4, <2>6, RunStep
  <1> QED
    BY <1>5, <1>6, <1>7 DEF ContextCancelled

LEMMA PurgeStep ==
    ASSUME CheckoutInv, PurgeExpiredKeys
    PROVE  CheckoutInv'
  <1>t. /\ IsForm(form) /\ RequestTypes /\ RunTypes /\ CountTypes
        /\ UNCHANGED <<form, requests, runs, orders>>
    BY DEF CheckoutInv, CheckoutTypes, PurgeExpiredKeys
  <1>1. IsForm(form') /\ RequestTypes' /\ RunTypes'
    BY <1>t DEF RequestTypes, RunTypes, Sent
  <1>2. KeyTypes'
    BY KeyRows DEF PurgeExpiredKeys, KeyTypes
  <1>3. excused' = orders /\ orders' = orders /\ orders \in [Mounts -> Nat]
    BY <1>t DEF PurgeExpiredKeys, CountTypes
  <1>4. CountTypes'
    BY <1>3 DEF CountTypes
  <1>5. \A m \in Mounts : orders'[m] <= excused'[m] /\ orders'[m] <= 1 + excused'[m]
    BY <1>3
  <1>6. \A e \in Runs : runs'[e].pc \notin HoldingPcs /\ runs'[e].pc \notin {"place", "release"}
    BY <1>t DEF PurgeExpiredKeys, HoldingPcs
  <1>7. KeyInv'
    BY <1>5, <1>6 DEF KeyInv, OneOrderPerCheckout
  <1> QED
    BY <1>1, <1>2, <1>4, <1>7 DEF CheckoutInv, CheckoutTypes

LEMMA CheckoutStep ==
    ASSUME CheckoutInv, [CheckoutNext]_checkoutVars
    PROVE  CheckoutInv'
  <1>t. CheckoutTypes /\ RequestTypes /\ IsForm(form) /\ runs = [f \in Runs |-> runs[f]]
    BY DEF CheckoutInv, CheckoutTypes, RunTypes
  <1>1. CASE BrowserLosesConnection \/ Remount \/ BasketChanges
    <2>1. UNCHANGED <<requests, runs, keys, orders, excused>>
      BY <1>1 DEF BrowserLosesConnection, Remount, BasketChanges
    <2>2. SameRequests
      BY <1>t, <2>1 DEF SameRequests, RequestTypes, NoRun
    <2> QED
      BY <1>1, <1>t, <2>1, <2>2, FormSteps, QuietStep
  <1>2. CASE UNCHANGED checkoutVars
    <2>1. SameRequests
      BY <1>t, <1>2 DEF checkoutVars, SameRequests, RequestTypes, NoRun
    <2> QED
      BY <1>t, <1>2, <2>1, QuietStep DEF checkoutVars
  <1>3. ASSUME NEW e \in Runs, PodDies(e)
        PROVE  CheckoutInv'
    <2>1. runs[e].pc \in ActivePcs /\ Respond(e, 0) /\ UNCHANGED <<form, keys, orders, excused>>
      BY <1>3 DEF PodDies, ActivePcs
    <2> QED
      BY <1>t, <2>1, RespondFacts, EndStep
  <1> QED
    BY <1>1, <1>2, <1>3, SubmitStep, RouteStep, ClaimStep, PlaceStep, ReleaseStep, CompleteStep,
       CancelStep, PurgeStep DEF CheckoutNext, Serve

LEMMA CheckoutStart == CheckoutInit => CheckoutInv
  <1> SUFFICES ASSUME CheckoutInit
               PROVE  CheckoutInv
    OBVIOUS
  <1>1. IsForm(form)
    BY CheckoutAssumption DEF CheckoutInit, IsForm, FormFields, Mounts
  <1>2. \A r \in Requests : requests[r] = NoRun /\ requests[r].pc = "none"
    BY DEF CheckoutInit, NoRun
  <1>3. RequestTypes
    <2>1. Sent = 1 .. 0
      BY <1>2 DEF Sent
    <2>2. 0 \in 0 .. MaxSubmits
      BY CheckoutAssumption
    <2> QED
      BY <1>2, <2>1, <2>2 DEF RequestTypes, CheckoutInit
  <1>4. \A e \in Runs : runs[e].pc = "none"
    BY DEF CheckoutInit, NoRun
  <1>5. RunTypes
    BY <1>4 DEF RunTypes, CheckoutInit, ActivePcs
  <1>6. KeyTypes
    BY KeyRows DEF KeyTypes, CheckoutInit
  <1>7. CountTypes
    BY DEF CountTypes, CheckoutInit
  <1>8. KeyInv
    BY <1>4 DEF KeyInv, OneOrderPerCheckout, CheckoutInit, HoldingPcs
  <1> QED
    BY <1>1, <1>3, <1>5, <1>6, <1>7, <1>8 DEF CheckoutInv, CheckoutTypes

\* One order for every mount of the checkout form, however often the button is
\* pressed, the BFF retries and placeOrder is overtaken, cancelled or dies between
\* its three transactions.
THEOREM OneOrderForEachForm == StorefrontSpec => []OneOrderPerCheckout
  <1>1. StorefrontInit => CheckoutInv
    BY CheckoutStart DEF StorefrontInit
  <1>2. CheckoutInv /\ [StorefrontNext]_storefrontVars => CheckoutInv'
    BY CheckoutStep, StepOfCheckout
  <1>3. CheckoutInv => OneOrderPerCheckout
    BY DEF CheckoutInv, KeyInv
  <1> QED
    BY <1>1, <1>2, <1>3, PTL DEF StorefrontSpec

-----------------------------------------------------------------------------
(* Search: the type-ahead of one generation at most is under way, and it   *)
(* is the one that is in the box.                                          *)

LEMMA StepOfSearch == [StorefrontNext]_storefrontVars => [SearchNext]_searchVars
  BY DEF StorefrontNext, storefrontVars, OfCheckout, OfProgress, OfBasket, OfSearch, OfToasts,
         OfSession, OfTokens, OfAccount, OfForms

SearchInv ==
    /\ calls = [g \in Generations |-> calls[g]]
    /\ \A g \in Generations : calls[g] # "none" => g = generation
    /\ generation \in Nat
    /\ AtRest => suggestions \in {0, generation}

LEMMA SearchStart == SearchInit => SearchInv
  BY DEF SearchInit, SearchInv, AtRest

SearchAction ==
    /\ suggestions' \in {0, suggestions, generation}
    /\ AtRest' => suggestions' \in {0, generation'}

LEMMA SearchStep ==
    ASSUME SearchInv, [SearchNext]_searchVars
    PROVE  SearchInv' /\ SearchAction
  <1>1. CASE Change
    <2>1. generation' \in Generations /\ generation' \in Nat
      BY <1>1, SearchBoxAssumption DEF Change, SearchInv, Generations
    <2>2. calls' = [g \in Generations |-> calls'[g]]
          /\ \A g \in Generations : calls'[g] # "none" => g = generation'
      BY <1>1 DEF Change, Cleanup
    <2>3. ~noise' => calls'[generation'] = "timer"
      BY <1>1, <2>1 DEF Change
    <2>4. ~AtRest'
      BY <2>1, <2>3 DEF AtRest
    <2> QED
      BY <1>1, <2>1, <2>2, <2>4 DEF SearchInv, SearchAction, Change
  <1>2. ASSUME NEW g \in Generations, Debounced(g) \/ Suggest(g)
        PROVE  SearchInv' /\ SearchAction
    <2>1. PICK v : v # "none" /\ calls' = [calls EXCEPT ![g] = v]
      BY <1>2 DEF Debounced, Suggest
    <2>2. g = generation /\ UNCHANGED <<generation, noise, suggestions>>
      BY <1>2 DEF Debounced, Suggest, SearchInv
    <2>3. calls'[g] = v /\ calls' = [h \in Generations |-> calls'[h]]
          /\ \A h \in Generations \ {g} : calls'[h] = calls[h]
      BY <2>1 DEF SearchInv
    <2>4. ~AtRest'
      BY <2>1, <2>3 DEF AtRest
    <2> QED
      BY <2>2, <2>3, <2>4 DEF SearchInv, SearchAction
  <1>3. ASSUME NEW g \in Generations, SuggestionsArrive(g)
        PROVE  SearchInv' /\ SearchAction
    <2>1. g = generation /\ UNCHANGED <<generation, noise>>
      BY <1>3 DEF SuggestionsArrive, SearchInv
    <2>2. suggestions' \in {0, g}
      BY <1>3 DEF SuggestionsArrive
    <2>3. calls'[g] = "none" /\ calls' = [h \in Generations |-> calls'[h]]
          /\ \A h \in Generations \ {g} : calls'[h] = calls[h]
      BY <1>3 DEF SearchInv, SuggestionsArrive
    <2> QED
      BY <2>1, <2>2, <2>3 DEF SearchInv, SearchAction
  <1>4. CASE SubmitSearch \/ Close \/ Focus \/ UNCHANGED searchVars
    BY <1>4 DEF SubmitSearch, Close, Focus, searchVars, SearchInv, SearchAction, AtRest
  <1> QED
    BY <1>1, <1>2, <1>3, <1>4 DEF SearchNext, SearchServe

\* Suggestions for an older query never replace what the box has, in any order of
\* keys, timers and answers.
THEOREM SuggestionsAreCurrent == StorefrontSpec => SuggestionsFollowTheBox
  <1>1. StorefrontInit => SearchInv
    BY SearchStart DEF StorefrontInit
  <1>2. SearchInv /\ [StorefrontNext]_storefrontVars => SearchInv'
    BY SearchStep, StepOfSearch
  <1>3. SearchInv /\ [StorefrontNext]_storefrontVars
        => [/\ suggestions' \in {0, suggestions, generation}
            /\ AtRest' => suggestions' \in {0, generation'}]_searchVars
    BY SearchStep, StepOfSearch DEF SearchAction
  <1> QED
    BY <1>1, <1>2, <1>3, PTL DEF StorefrontSpec, SuggestionsFollowTheBox

-----------------------------------------------------------------------------
(* The status page: every status on its way was the order's once, and the  *)
(* state machine never takes back an end or the point of no return.        *)

LEMMA StepOfProgress == [StorefrontNext]_storefrontVars => [ProgressNext]_progressVars
  BY DEF StorefrontNext, storefrontVars, OfCheckout, OfProgress, OfBasket, OfSearch, OfToasts,
         OfSession, OfTokens, OfAccount, OfForms

Moved(s, n) ==
    /\ n \in S!States /\ (S!IsTerminal(s) => n = s)
    /\ (S!RollbackForbidden(s) => S!RollbackForbidden(n))

LEMMA MachineMoves ==
    \A s \in S!States, t \in S!Triggers, c \in S!Ctx : Moved(s, S!Machine(s, t, c).next)
  <1> SUFFICES ASSUME NEW s \in S!States, NEW t \in S!Triggers, NEW c \in S!Ctx
               PROVE  Moved(s, S!Machine(s, t, c).next)
    OBVIOUS
  <1>1. \A n, m, d : S!Decide(n, m, d).next = n /\ S!AckOnly(n).next = n /\ S!Illegal(n).next = n
    BY DEF S!Decide, S!AckOnly, S!Illegal
  <1>2. \A n, m, d, r, f : S!Because(S!Decide(n, m, d), r, f).next = n
    BY DEF S!Decide, S!Because
  <1>3. CASE s = "PENDING"
    <2>1. S!Machine(s, t, c) = S!OnPending(t)
      BY <1>3 DEF S!Machine
    <2>2. S!OnPending(t).next \in S!States
      BY <1>1, <1>2 DEF S!OnPending, S!States
    <2> QED
      BY <1>3, <2>1, <2>2 DEF Moved, S!IsTerminal, S!RollbackForbidden
  <1>4. CASE s = "STOCK_RESERVED"
    <2>1. S!Machine(s, t, c) = S!OnStockReserved(t, c)
      BY <1>4 DEF S!Machine
    <2>2. S!OnStockReserved(t, c).next \in S!States
      BY <1>1, <1>2 DEF S!OnStockReserved, S!States
    <2> QED
      BY <1>4, <2>1, <2>2 DEF Moved, S!IsTerminal, S!RollbackForbidden
  <1>5. CASE s = "PAID"
    <2>1. S!Machine(s, t, c) = S!OnPaid(t)
      BY <1>5 DEF S!Machine
    <2>2. S!OnPaid(t).next \in {"PAID", "STOCK_COMMITTED"}
      BY <1>1 DEF S!OnPaid
    <2> QED
      BY <1>5, <2>1, <2>2 DEF Moved, S!IsTerminal, S!RollbackForbidden, S!States
  <1>6. CASE s = "STOCK_COMMITTED"
    <2>1. S!Machine(s, t, c) = S!OnStockCommitted(t)
      BY <1>6 DEF S!Machine
    <2>2. S!OnStockCommitted(t).next \in {"STOCK_COMMITTED", "CONFIRMED"}
      BY <1>1 DEF S!OnStockCommitted
    <2> QED
      BY <1>6, <2>1, <2>2 DEF Moved, S!IsTerminal, S!RollbackForbidden, S!States
  <1>7. CASE s = "COMPENSATING"
    <2>1. S!Machine(s, t, c) = S!OnCompensating(t, c)
      BY <1>7 DEF S!Machine
    <2>2. \A d : S!SettleOrWait(d).next \in S!States
      BY <1>1, <1>2 DEF S!SettleOrWait, S!States
    <2>3. S!OnCompensating(t, c).next \in S!States
      BY <1>1, <2>2 DEF S!OnCompensating, S!States
    <2> QED
      BY <1>7, <2>1, <2>3 DEF Moved, S!IsTerminal, S!RollbackForbidden
  <1>8. CASE s \in {"CONFIRMED", "CANCELLED"}
    BY <1>1, <1>8 DEF S!Machine, Moved, S!IsTerminal, S!RollbackForbidden, S!States
  <1> QED
    BY <1>3, <1>4, <1>5, <1>6, <1>7, <1>8 DEF S!States

\* A status that was the order's once: the end of it still is, and a status past
\* the point of no return says that the order is.
Past(s) ==
    /\ s \in S!States /\ (Terminal(s) => placed = s)
    /\ (S!RollbackForbidden(s) => S!RollbackForbidden(placed))

LoopInv ==
    /\ loops = [l \in Loops |-> loops[l]]
    /\ \A l \in Loops : loops[l].pc = "answered" => Past(loops[l].status)
FrameInv == frames \in Seq(S!States) /\ \A i \in 1 .. Len(frames) : Past(frames[i])
SettledInv ==
    settled => /\ Terminal(placed) /\ stream = "closed"
               /\ ~late => /\ shown = placed
                           /\ \A l \in Loops : loops[l].pc = "answered" => loops[l].status = placed
HistoryInv == history \in S!States => Past(history)
ProgressInv ==
    placed \in S!States /\ Past(shown) /\ LoopInv /\ FrameInv /\ SettledInv /\ HistoryInv

LEMMA ProgressStart == ProgressInit => ProgressInv
  <1> SUFFICES ASSUME ProgressInit
               PROVE  ProgressInv
    OBVIOUS
  <1>1. placed \in S!States /\ Past(shown)
    BY DEF ProgressInit, Past, Terminal, S!IsTerminal, S!RollbackForbidden, S!States
  <1>2. LoopInv
    BY DEF ProgressInit, LoopInv, Waiting, Idle
  <1>3. FrameInv
    BY DEF ProgressInit, FrameInv
  <1>4. SettledInv
    BY DEF ProgressInit, SettledInv
  <1>5. HistoryInv
    BY DEF ProgressInit, HistoryInv, S!States
  <1> QED
    BY <1>1, <1>2, <1>3, <1>4, <1>5 DEF ProgressInv

\* What the page shows of a status that was the order's once.
LEMMA ProgressIsTrue == ProgressInv => OutcomeIsTrue
  <1> SUFFICES ASSUME ProgressInv
               PROVE  OutcomeIsTrue
    OBVIOUS
  <1>1. Past(shown) /\ (history \in S!States => Past(history)) /\ SettledInv
    BY DEF ProgressInv, HistoryInv
  <1>2. View.panel = "success" => shown = "CONFIRMED"
    BY DEF View
  <1>3. View.panel = "failure" => shown = "CANCELLED"
    BY DEF View
  <1>4. View.done > 2 => shown \in {"STOCK_COMMITTED", "CONFIRMED"}
    <2> SUFFICES ASSUME shown \notin {"STOCK_COMMITTED", "CONFIRMED"}
                 PROVE  StepIndex(shown) \in {1, 2, 3}
      BY DEF View
    <2>1. DOMAIN Track = 1 .. 5 /\ Track[4] = "STOCK_COMMITTED" /\ Track[5] = "CONFIRMED"
      BY DEF Track
    <2>2. \A i \in 1 .. 5 : i \in {1, 2, 3, 4, 5}
      OBVIOUS
    <2>3. ASSUME NEW i \in 1 .. 5, Track[i] = shown
          PROVE  i \in {1, 2, 3}
      BY <2>1, <2>2, <2>3
    <2>4. CASE \E i \in DOMAIN Track : Track[i] = shown
      <3>1. StepIndex(shown) = CHOOSE i \in DOMAIN Track : Track[i] = shown
        BY <2>4 DEF StepIndex
      <3>2. StepIndex(shown) \in DOMAIN Track /\ Track[StepIndex(shown)] = shown
        BY <2>4, <3>1
      <3> QED
        BY <2>1, <2>3, <3>2
    <2>5. CASE ~ \E i \in DOMAIN Track : Track[i] = shown
      BY <2>5 DEF StepIndex
    <2> QED
      BY <2>4, <2>5
  <1>5. \A s \in S!States : CustomerView(s) # "Processing" => s \in {"CONFIRMED", "CANCELLED"}
    BY DEF CustomerView, S!States
  <1>6. View.panel = "success" => placed = "CONFIRMED"
    BY <1>1, <1>2 DEF Past, Terminal, S!IsTerminal
  <1>7. View.panel = "failure" => placed = "CANCELLED"
    BY <1>1, <1>3 DEF Past, Terminal, S!IsTerminal
  <1>8. View.done > 2 => S!RollbackForbidden(placed)
    BY <1>1, <1>4 DEF Past, S!RollbackForbidden
  <1>9. settled /\ ~late => shown = placed
    BY <1>1 DEF SettledInv
  <1>10. history \in S!States /\ CustomerView(history) # "Processing" => history = placed
    BY <1>1, <1>5 DEF Past, Terminal, S!IsTerminal
  <1> QED
    BY <1>6, <1>7, <1>8, <1>9, <1>10 DEF OutcomeIsTrue

LEMMA OrderMovesOn ==
    ASSUME ProgressInv, OrderMoves
    PROVE  ProgressInv'
  <1>1. /\ UNCHANGED <<shown, settled, stalled, stream, frames, sent, loops, mounted, late, history>>
        /\ \E t \in S!Triggers, c \in S!Ctx : placed' = S!Machine(placed, t, c).next
    BY DEF OrderMoves
  <1>2. Moved(placed, placed')
    BY <1>1, MachineMoves DEF ProgressInv
  <1>3. placed' \in S!States /\ \A s : Past(s) => Past(s)'
    BY <1>2 DEF Moved, Past, Terminal
  <1>4. LoopInv'
    BY <1>1, <1>3 DEF ProgressInv, LoopInv
  <1>5. FrameInv'
    BY <1>1, <1>3 DEF ProgressInv, FrameInv
  <1>6. SettledInv'
    BY <1>1, <1>2 DEF ProgressInv, SettledInv, Moved, Terminal
  <1>7. HistoryInv' /\ Past(shown)'
    BY <1>1, <1>3 DEF ProgressInv, HistoryInv
  <1> QED
    BY <1>3, <1>4, <1>5, <1>6, <1>7 DEF ProgressInv

\* The order stays: whatever was its status once still was.
LEMMA SamePast ==
    ASSUME UNCHANGED placed
    PROVE  \A s : Past(s)' <=> Past(s)
  BY DEF Past, Terminal

\* apply() with a status that was the order's once.
LEMMA ApplyStep ==
    ASSUME ProgressInv, NEW s, Past(s), NEW rest, rest \in Seq(S!States),
           \A i \in 1 .. Len(rest) : Past(rest[i]),
           NEW others, others \subseteq Loops, Apply(s, rest, others),
           UNCHANGED <<placed, history>>,
           settled => s = placed \/ late,
           loops' = [l \in Loops |-> loops'[l]],
           \A l \in Loops : loops'[l].pc = "answered" => loops'[l] = loops[l] /\ l \in others
    PROVE  ProgressInv'
  <1>1. Past(s)' /\ shown' = s /\ placed' \in S!States
    BY SamePast DEF Apply, ProgressInv
  <1>2. LoopInv'
    BY SamePast DEF ProgressInv, LoopInv
  <1>3. HistoryInv'
    BY SamePast DEF ProgressInv, HistoryInv
  <1>4. FrameInv'
    <2>1. CASE Ends(s)
      BY <2>1 DEF Apply, FrameInv
    <2>2. CASE ~Ends(s)
      BY <2>2, SamePast DEF Apply, FrameInv
    <2> QED
      BY <2>1, <2>2
  <1>5. SettledInv'
    <2>1. CASE Ends(s)
      <3>1. placed = s /\ Terminal(placed) /\ stream' = "closed"
        BY <2>1 DEF Ends, Past, Apply
      <3>2. ASSUME NEW l \in Loops, loops'[l].pc = "answered", ~late'
            PROVE  loops'[l].status = placed
        <4>1. loops'[l] = loops[l] /\ ~HoldsOlder(l)
          BY <2>1, <3>2 DEF Apply
        <4>2. Terminal(loops[l].status) /\ Past(loops[l].status)
          BY <3>2, <4>1 DEF HoldsOlder, ProgressInv, LoopInv
        <4> QED
          BY <4>1, <4>2 DEF Past
      <3> QED
        BY <1>1, <3>1, <3>2 DEF SettledInv, Terminal
    <2>2. CASE ~Ends(s)
      <3>1. stream' = stream /\ (settled' => settled)
        BY <2>2 DEF Apply
      <3>2. late => late'
        BY DEF Apply
      <3> QED
        BY <1>1, <3>1, <3>2 DEF SettledInv, Terminal, ProgressInv
    <2> QED
      BY <2>1, <2>2
  <1> QED
    BY <1>1, <1>2, <1>3, <1>4, <1>5 DEF ProgressInv

\* The order, what the page shows and what is on its way stay as they are, but for
\* what a loop or the stream drops and for the status a loop reads now.
LEMMA QuietProgress ==
    ASSUME ProgressInv, UNCHANGED <<placed, shown, late>>, settled' => settled,
           UNCHANGED history \/ (history' \in S!States => history' = placed),
           UNCHANGED stream \/ stream' = "closed",
           frames' = <<>> \/ (\E x \in {placed} : frames' = Append(frames, x)) \/ UNCHANGED frames,
           loops' = [l \in Loops |-> loops'[l]],
           \A l \in Loops : loops'[l].pc = "answered" =>
               loops'[l] = loops[l] \/ loops'[l].status = placed
    PROVE  ProgressInv'
  <1>0. Past(placed)
    BY DEF ProgressInv, Past
  <1>1. placed' \in S!States /\ Past(shown)'
    BY SamePast DEF ProgressInv
  <1>2. LoopInv'
    BY <1>0, SamePast DEF ProgressInv, LoopInv
  <1>3. HistoryInv'
    BY <1>0, SamePast DEF ProgressInv, HistoryInv
  <1>4. FrameInv'
    <2>1. CASE frames' = <<>>
      BY <2>1 DEF FrameInv
    <2>2. CASE UNCHANGED frames
      BY <2>2, SamePast DEF ProgressInv, FrameInv
    <2>3. CASE frames' = Append(frames, placed)
      <3>1. frames \in Seq(S!States) /\ placed \in S!States
        BY DEF ProgressInv, FrameInv
      <3>2. /\ frames' \in Seq(S!States) /\ Len(frames') = Len(frames) + 1 /\ Len(frames) \in Nat
            /\ \A i \in 1 .. Len(frames) : frames'[i] = frames[i]
            /\ frames'[Len(frames) + 1] = placed
        BY <2>3, <3>1
      <3>3. \A i \in 1 .. Len(frames') : i \in 1 .. Len(frames) \/ i = Len(frames) + 1
        BY <3>2
      <3>4. \A i \in 1 .. Len(frames') : Past(frames'[i])
        BY <1>0, <3>2, <3>3 DEF ProgressInv, FrameInv
      <3> QED
        BY <3>2, <3>4, SamePast DEF FrameInv
    <2> QED
      BY <2>1, <2>2, <2>3
  <1>5. SettledInv'
    BY DEF ProgressInv, SettledInv, Terminal
  <1> QED
    BY <1>1, <1>2, <1>3, <1>4, <1>5 DEF ProgressInv

LEMMA ProgressStep ==
    ASSUME ProgressInv, [ProgressNext]_progressVars
    PROVE  ProgressInv'
  <1>l. loops = [l \in Loops |-> loops[l]] /\ \A l \in Loops : loops[l].pc = "answered" => Past(loops[l].status)
    BY DEF ProgressInv, LoopInv
  <1>p. Idle.pc = "idle" /\ Waiting.pc = "timer" /\ Asking.pc = "asking"
    BY DEF Idle, Waiting, Asking
  <1>1. CASE StreamStatus
    <2>1. frames' = Append(frames, placed) /\ UNCHANGED <<placed, shown, settled, stream, loops, late, history>>
      BY <1>1 DEF StreamStatus
    <2> QED
      BY <1>l, <2>1, QuietProgress
  <1>2. CASE FrameArrives
    <2>1. /\ Apply(Head(frames), Tail(frames), Loops) /\ frames # <<>> /\ stream = "open"
          /\ UNCHANGED <<placed, loops, history>>
      BY <1>2 DEF FrameArrives
    <2>2. frames \in Seq(S!States) /\ \A i \in 1 .. Len(frames) : Past(frames[i])
      BY DEF ProgressInv, FrameInv
    <2>3. Len(frames) \in Nat /\ Len(frames) > 0
      BY <2>1, <2>2
    <2>4. Head(frames) = frames[1] /\ Past(frames[1])
      BY <2>1, <2>2, <2>3
    <2>5. Tail(frames) \in Seq(S!States) /\ Len(Tail(frames)) = Len(frames) - 1
          /\ \A i \in 1 .. Len(frames) - 1 : Tail(frames)[i] = frames[i + 1] /\ i + 1 \in 1 .. Len(frames)
      BY <2>1, <2>2, <2>3
    <2>6. \A i \in 1 .. Len(Tail(frames)) : Past(Tail(frames)[i])
      BY <2>2, <2>5
    <2>7. ~settled
      BY <2>1 DEF ProgressInv, SettledInv
    <2>8. PICK s, rest : s = Head(frames) /\ rest = Tail(frames)
      OBVIOUS
    <2>9. Past(s) /\ rest \in Seq(S!States) /\ (\A i \in 1 .. Len(rest) : Past(rest[i]))
          /\ Apply(s, rest, Loops)
      BY <2>1, <2>4, <2>5, <2>6, <2>8
    <2> QED
      BY <1>l, <2>1, <2>7, <2>9, ApplyStep
  <1>3. CASE StreamError
    <2>1. /\ stream' = "closed" /\ frames' = <<>> /\ UNCHANGED <<placed, shown, settled, late, history>>
          /\ loops' = [loops EXCEPT !["fallback"] = IF settled THEN @ ELSE Asking]
      BY <1>3 DEF StreamError
    <2>2. loops' = [l \in Loops |-> loops'[l]] /\ \A l \in Loops : loops'[l] = loops[l] \/ loops'[l] = Asking
      BY <1>l, <2>1
    <2> QED
      BY <1>p, <2>1, <2>2, QuietProgress
  <1>4. ASSUME NEW l \in Loops, TimerFires(l) \/ PollFails(l)
        PROVE  ProgressInv'
    <2>1. /\ UNCHANGED <<placed, shown, settled, stream, frames, late, history>>
          /\ \E v \in {Idle, Waiting, Asking} : loops' = [loops EXCEPT ![l] = v]
      BY <1>4 DEF TimerFires, PollFails, Reschedule
    <2>2. loops' = [m \in Loops |-> loops'[m]]
          /\ \A m \in Loops : loops'[m] = loops[m] \/ loops'[m] \in {Idle, Waiting, Asking}
      BY <1>l, <2>1
    <2> QED
      BY <1>p, <2>1, <2>2, QuietProgress
  <1>5. ASSUME NEW l \in Loops, GetStatus(l)
        PROVE  ProgressInv'
    <2>1. PICK v : v = [pc |-> "answered", status |-> placed]
      OBVIOUS
    <2>2. v.status = placed
      BY <2>1
    <2>3. loops' = [loops EXCEPT ![l] = v] /\ UNCHANGED <<placed, shown, settled, stream, frames, late, history>>
      BY <1>5, <2>1 DEF GetStatus
    <2>4. loops' = [m \in Loops |-> loops'[m]] /\ \A m \in Loops : loops'[m] = loops[m] \/ loops'[m] = v
      BY <1>l, <2>3
    <2> QED
      BY <2>2, <2>3, <2>4, QuietProgress
  <1>6. ASSUME NEW l \in Loops, PollArrives(l)
        PROVE  ProgressInv'
    <2>1. PICK s, rest, others : s = loops[l].status /\ rest = frames /\ others = Loops \ {l}
      OBVIOUS
    <2>2. Apply(s, rest, others) /\ UNCHANGED <<placed, history>> /\ Past(s) /\ others \subseteq Loops
      BY <1>6, <1>l, <2>1 DEF PollArrives
    <2>3. rest \in Seq(S!States) /\ \A i \in 1 .. Len(rest) : Past(rest[i])
      BY <2>1 DEF ProgressInv, FrameInv
    <2>4. settled => s = placed \/ late
      BY <1>6, <2>1 DEF PollArrives, ProgressInv, SettledInv
    <2>5. \E v \in {Idle, Waiting} : loops' = [loops EXCEPT ![l] = v]
      BY <1>6 DEF PollArrives, Reschedule
    <2>6. /\ loops' = [m \in Loops |-> loops'[m]] /\ loops'[l] \in {Idle, Waiting}
          /\ \A m \in Loops \ {l} : loops'[m] = loops[m]
      BY <1>l, <2>5
    <2>7. \A m \in Loops : loops'[m].pc = "answered" => loops'[m] = loops[m] /\ m \in others
      BY <1>p, <2>1, <2>6
    <2> QED
      BY <2>2, <2>3, <2>4, <2>6, <2>7, ApplyStep
  <1>7. CASE Leave
    <2>1. /\ loops' = [l \in Loops |-> Idle] /\ stream' = "closed" /\ frames' = <<>>
          /\ UNCHANGED <<placed, shown, settled, late, history>>
      BY <1>7 DEF Leave
    <2> QED
      BY <1>p, <2>1, QuietProgress
  <1>8. CASE OpenHistory
    <2>1. UNCHANGED <<placed, shown, settled, stream, frames, loops, late>>
      BY <1>8 DEF OpenHistory
    <2>2. \A x : UserMessage(x) \notin S!States
      BY DEF UserMessage, KnownCodes, S!States
    <2>3. history' \in S!States => history' = placed
      BY <1>8, <2>2 DEF OpenHistory
    <2> QED
      BY <1>l, <2>1, <2>3, QuietProgress
  <1>9. CASE Stall \/ UNCHANGED progressVars
    BY <1>9, <1>l, QuietProgress DEF Stall, progressVars
  <1> QED
    BY <1>1, <1>2, <1>3, <1>4, <1>5, <1>6, <1>7, <1>8, <1>9, OrderMovesOn DEF ProgressNext, Pending

\* No panel, badge or track of the status page and the history ever says of an
\* order what it has not come to, in whatever order frames and polls arrive.
THEOREM PagesTellTheTruth == StorefrontSpec => []OutcomeIsTrue
  <1>1. StorefrontInit => ProgressInv
    BY ProgressStart DEF StorefrontInit
  <1>2. ProgressInv /\ [StorefrontNext]_storefrontVars => ProgressInv'
    BY ProgressStep, StepOfProgress
  <1> QED
    BY <1>1, <1>2, ProgressIsTrue, PTL DEF StorefrontSpec

-----------------------------------------------------------------------------
(* The second factor: recovery codes are never lost to the customer who is *)
(* still there, because a request under way has its page waiting for it.   *)

LEMMA StepOfAccount == [StorefrontNext]_storefrontVars => [AccountNext]_accountVars
  BY DEF StorefrontNext, storefrontVars, OfCheckout, OfProgress, OfBasket, OfSearch, OfToasts,
         OfSession, OfTokens, OfAccount, OfForms

ExchangeFields == {"pc", "op", "page", "code", "ok"}
IsExchange(x) ==
    /\ x = [i \in ExchangeFields |-> x[i]] /\ x.pc \in {"sent", "begin", "promote", "answered"}
    /\ x.page \in Pages /\ x.code \in Nat
    /\ x.pc = "promote" => x.op = "confirm"
PageFields == {"user", "secret", "codes", "acknowledged", "busy"}
IsPage(x) ==
    /\ x = [i \in PageFields |-> x[i]] /\ x.secret \in Nat /\ x.codes \in Nat /\ x.busy \in Nat
    /\ x.busy > 0 => x.codes = 0

AccountTypes ==
    /\ factor = [i \in {"on", "secret", "pending", "codes"} |-> factor[i]] /\ factor.pending \in Nat
    /\ pages = [p \in Pages |-> pages[p]] /\ \A p \in Pages : IsPage(pages[p])
    /\ exchanges = [r \in Numbers |-> exchanges[r]]
    /\ \A r \in Numbers : exchanges[r] \in {NoExchange, Finished} \/ IsExchange(exchanges[r])
    /\ \E n \in 0 .. MaxRequests : Used = 1 .. n

\* As long as no two transactions overlapped, none of them is open over a second
\* factor that is on, and what one is about to promote was verified.
AloneInv ==
    ~crossed => /\ \A r \in Numbers : Open(r) => ~factor.on
                /\ \A r \in Numbers : exchanges[r].pc = "promote" => factor.pending \in verified
                /\ factor.on => factor.secret \in verified /\ factor.pending = 0

\* A request under way has its page waiting, unless the page was lost.
WaitedFor(r) ==
    exchanges[r].pc \in {"sent", "begin", "promote"} => pages[exchanges[r].page].busy = r \/ r \in kept

\* The answer with the recovery codes c is on its way to a page that waits.
Delivered(c) ==
    /\ exchanges[c].pc = "answered" /\ exchanges[c].ok /\ exchanges[c].op = "confirm"
    /\ exchanges[c].code = c /\ pages[exchanges[c].page].busy = c

AccountInv ==
    /\ AccountTypes /\ AloneInv
    /\ \A r \in Numbers : WaitedFor(r)
    /\ factor.on => /\ factor.codes \in Numbers
                    /\ factor.codes \in kept \union Shown \/ Delivered(factor.codes)
LEMMA EnrolPageStep ==
    ASSUME AccountInv, NEW p \in Pages, NEW x, IsPage(x), pages' = [pages EXCEPT ![p] = x],
           x.busy \in {0, pages[p].busy}, kept \subseteq kept',
           x.busy = pages[p].busy \/ pages[p].busy \in kept',
           x.codes = pages[p].codes \/ pages[p].codes \in kept',
           UNCHANGED <<factor, exchanges, verified, crossed>>
    PROVE  AccountInv'
  <1>1. AccountTypes /\ AloneInv
    BY DEF AccountInv
  <1>2. /\ pages' = [q \in Pages |-> pages'[q]] /\ pages'[p] = x
        /\ \A q \in Pages \ {p} : pages'[q] = pages[q]
    BY <1>1 DEF AccountTypes
  <1>3. Used' = Used
    BY DEF Used
  <1>4. AccountTypes'
    BY <1>1, <1>2, <1>3 DEF AccountTypes
  <1>5. AloneInv'
    BY <1>1 DEF AloneInv, Open
  <1>6. ASSUME NEW r \in Numbers PROVE WaitedFor(r)'
    <2> SUFFICES ASSUME exchanges[r].pc \in {"sent", "begin", "promote"}
                 PROVE  pages'[exchanges[r].page].busy = r \/ r \in kept'
      BY DEF WaitedFor
    <2>1. exchanges[r].page \in Pages
      BY <1>1 DEF AccountTypes, IsExchange, NoExchange, Finished
    <2>2. pages[exchanges[r].page].busy = r \/ r \in kept
      BY DEF AccountInv, WaitedFor
    <2> QED
      BY <1>2, <2>1, <2>2
  <1>7. ASSUME factor'.on
        PROVE  factor'.codes \in Numbers /\ (factor'.codes \in kept' \union Shown' \/ Delivered(factor.codes)')
    <2>1. PICK c \in Numbers : c = factor.codes /\ c = factor'.codes
      BY <1>7 DEF AccountInv
    <2>2. CASE c \in kept
      BY <2>1, <2>2
    <2>3. CASE c \in Shown
      <3>1. PICK q \in Pages : pages[q].codes = c
        BY <2>3 DEF Shown
      <3>2. CASE q = p /\ pages[p].codes \in kept'
        BY <2>1, <3>1, <3>2
      <3>3. CASE q # p \/ x.codes = pages[p].codes
        BY <1>2, <2>1, <3>1, <3>3 DEF Shown
      <3> QED
        BY <3>2, <3>3
    <2>4. CASE Delivered(c)
      <3>1. exchanges[c].page \in Pages
        BY <1>1, <2>4 DEF AccountTypes, IsExchange, NoExchange, Finished, Delivered
      <3>2. CASE exchanges[c].page = p /\ pages[p].busy \in kept'
        BY <2>1, <2>4, <3>2 DEF Delivered
      <3>3. CASE exchanges[c].page # p \/ x.busy = pages[p].busy
        BY <1>2, <2>1, <2>4, <3>1, <3>3 DEF Delivered
      <3> QED
        BY <3>2, <3>3
    <2> QED
      BY <1>7, <2>1, <2>2, <2>3, <2>4 DEF AccountInv
  <1> QED
    BY <1>4, <1>5, <1>6, <1>7 DEF AccountInv

LEMMA EnrolWorkStep ==
    ASSUME AccountInv, NEW r \in Numbers, NEW y, exchanges[r].pc # "none", exchanges[r].pc # "over",
           IsExchange(y), exchanges' = [exchanges EXCEPT ![r] = y], y.page = exchanges[r].page,
           exchanges[r].pc # "answered" \/ y.pc = "answered",
           UNCHANGED pages, kept \subseteq kept', AloneInv',
           factor' = [i \in {"on", "secret", "pending", "codes"} |-> factor'[i]], factor'.pending \in Nat,
           factor'.on =>
             \/ /\ factor.on /\ factor'.codes = factor.codes
                /\ exchanges[r].pc = "answered" => exchanges[r].code \in kept'
             \/ /\ factor'.codes = r /\ exchanges[r].pc = "promote"
                /\ y.pc = "answered" /\ y.ok /\ y.op = "confirm" /\ y.code = r
    PROVE  AccountInv'
  <1>1. AccountTypes /\ IsExchange(exchanges[r])
    BY DEF AccountInv, AccountTypes, NoExchange, Finished
  <1>2. /\ exchanges' = [q \in Numbers |-> exchanges'[q]] /\ exchanges'[r] = y
        /\ \A q \in Numbers \ {r} : exchanges'[q] = exchanges[q]
    BY <1>1 DEF AccountTypes
  <1>3. Used' = Used
    BY <1>1, <1>2 DEF Used, IsExchange
  <1>4. AccountTypes'
    BY <1>1, <1>2, <1>3 DEF AccountTypes
  <1>5. ASSUME NEW q \in Numbers PROVE WaitedFor(q)'
    <2>1. exchanges[q].pc \in {"sent", "begin", "promote"} => pages[exchanges[q].page].busy = q \/ q \in kept
      BY DEF AccountInv, WaitedFor
    <2>2. exchanges[r].pc \in {"sent", "begin", "promote", "answered"}
      BY <1>1 DEF IsExchange
    <2> QED
      BY <1>2, <2>1, <2>2 DEF WaitedFor
  <1>6. ASSUME factor'.on
        PROVE  factor'.codes \in Numbers /\ (factor'.codes \in kept' \union Shown' \/ Delivered(factor.codes)')
    <2>1. CASE /\ factor.on /\ factor'.codes = factor.codes
               /\ exchanges[r].pc = "answered" => exchanges[r].code \in kept'
      <3>1. PICK c \in Numbers : c = factor.codes /\ c = factor'.codes
        BY <2>1 DEF AccountInv
      <3>2. CASE c \in kept \union Shown
        BY <3>1, <3>2 DEF Shown
      <3>3. CASE Delivered(c) /\ c = r
        BY <2>1, <3>1, <3>3 DEF Delivered
      <3>4. CASE Delivered(c) /\ c # r
        BY <1>2, <3>1, <3>4 DEF Delivered
      <3> QED
        BY <2>1, <3>1, <3>2, <3>3, <3>4 DEF AccountInv
    <2>2. CASE /\ factor'.codes = r /\ exchanges[r].pc = "promote"
               /\ y.pc = "answered" /\ y.ok /\ y.op = "confirm" /\ y.code = r
      <3>1. pages[exchanges[r].page].busy = r \/ r \in kept
        BY <2>2 DEF AccountInv, WaitedFor
      <3> QED
        BY <1>2, <2>2, <3>1 DEF Delivered
    <2> QED
      BY <1>6, <2>1, <2>2
  <1> QED
    BY <1>4, <1>5, <1>6 DEF AccountInv

LEMMA AccountStart == AccountInit => AccountInv
  <1> SUFFICES ASSUME AccountInit
               PROVE  AccountInv
    OBVIOUS
  <1>1. PICK b : b = FALSE
    OBVIOUS
  <1>2. /\ factor = [on |-> b, secret |-> 0, pending |-> 0, codes |-> 0] /\ factor.on = b
    BY <1>1 DEF AccountInit, FactorOff
  <1>3. \A p \in Pages : pages[p] = EnrolmentPage
    BY DEF AccountInit
  <1>4. IsPage(EnrolmentPage)
    <2>1. EnrolmentPage = [user |-> "off", secret |-> 0, codes |-> 0, acknowledged |-> b, busy |-> 0]
      BY <1>1 DEF EnrolmentPage
    <2> QED
      BY <2>1 DEF IsPage, PageFields
  <1>5. \A r \in Numbers : exchanges[r] = NoExchange /\ exchanges[r].pc = "none"
    BY DEF AccountInit, NoExchange
  <1>6. Used = 1 .. 0 /\ 0 \in 0 .. MaxRequests
    BY <1>5, AccountAssumption DEF Used
  <1>7. /\ factor = [i \in {"on", "secret", "pending", "codes"} |-> factor[i]] /\ factor.pending \in Nat
    BY <1>2
  <1>8. pages = [p \in Pages |-> pages[p]] /\ exchanges = [r \in Numbers |-> exchanges[r]]
    BY DEF AccountInit
  <1>9. AccountTypes
    BY <1>3, <1>4, <1>5, <1>6, <1>7, <1>8 DEF AccountTypes
  <1>10. AloneInv
    BY <1>1, <1>2, <1>5 DEF AloneInv, Open
  <1>11. \A r \in Numbers : WaitedFor(r)
    BY <1>5 DEF WaitedFor
  <1> QED
    BY <1>1, <1>2, <1>9, <1>10, <1>11 DEF AccountInv

LEMMA EnrolSendStep ==
    ASSUME AccountInv, NEW p \in Pages, NEW op, NEW code \in Nat, Send(p, op, code), pages[p].codes = 0
    PROVE  AccountInv'
  <1>1. AccountTypes /\ AloneInv
    BY DEF AccountInv
  <1>2. PICK n \in 0 .. MaxRequests : Used = 1 .. n
    BY <1>1 DEF AccountTypes
  <1>3. Cardinality(Used) = n /\ n \in Nat /\ n < MaxRequests
    <2>1. Cardinality(1 .. n) = n
      BY FS_Interval
    <2> QED
      BY <1>2, <2>1, AccountAssumption DEF Send
  <1> DEFINE r == n + 1
             y == [pc |-> "sent", op |-> op, page |-> p, code |-> code, ok |-> FALSE]
  <1>4. /\ exchanges' = [exchanges EXCEPT ![r] = y] /\ pages' = [pages EXCEPT ![p].busy = r]
        /\ UNCHANGED <<factor, verified, kept, crossed>>
    BY <1>3 DEF Send
  <1>5. r \in Numbers /\ r \in Nat /\ r > 0 /\ r \notin Used /\ r \in 0 .. MaxRequests
    BY <1>2, <1>3, AccountAssumption DEF Numbers
  <1>6. exchanges[r].pc = "none"
    BY <1>5 DEF Used
  <1>7. IsExchange(y) /\ y.pc = "sent" /\ y.page = p
    BY DEF IsExchange, ExchangeFields
  <1>8. 1 .. r = (1 .. n) \union {r}
    BY <1>3
  <1> HIDE DEF r, y
  <1>9. IsPage(pages[p])
    BY <1>1 DEF AccountTypes
  <1>10. PICK x : x = [pages[p] EXCEPT !.busy = r]
    OBVIOUS
  <1>11. IsPage(x) /\ x.busy = r /\ x.codes = pages[p].codes
    BY <1>5, <1>9, <1>10 DEF IsPage, PageFields
  <1>12. /\ pages' = [q \in Pages |-> pages'[q]] /\ pages'[p] = x
         /\ \A q \in Pages \ {p} : pages'[q] = pages[q]
    BY <1>1, <1>4, <1>10 DEF AccountTypes
  <1>13. /\ exchanges' = [q \in Numbers |-> exchanges'[q]] /\ exchanges'[r] = y
         /\ \A q \in Numbers \ {r} : exchanges'[q] = exchanges[q]
    BY <1>1, <1>4, <1>5 DEF AccountTypes
  <1>14. Used' = Used \union {r}
    BY <1>5, <1>7, <1>13 DEF Used
  <1>15. AccountTypes'
    <2>1. \E m \in 0 .. MaxRequests : Used' = 1 .. m
      BY <1>2, <1>5, <1>8, <1>14
    <2> QED
      BY <1>1, <1>4, <1>7, <1>11, <1>12, <1>13, <2>1 DEF AccountTypes
  <1>16. AloneInv'
    BY <1>1, <1>4, <1>7, <1>13 DEF AloneInv, Open
  <1>17. pages[p].busy = 0
    BY <1>9 DEF IsPage, Send, EnrolmentBusy
  <1>18. ASSUME NEW q \in Numbers PROVE WaitedFor(q)'
    <2>1. CASE q = r
      BY <1>7, <1>11, <1>12, <1>13, <2>1 DEF WaitedFor
    <2>2. CASE q # r
      <3> SUFFICES ASSUME exchanges[q].pc \in {"sent", "begin", "promote"}
                   PROVE  pages'[exchanges[q].page].busy = q \/ q \in kept'
        BY <1>13, <2>2 DEF WaitedFor
      <3>1. exchanges[q].page \in Pages /\ q # 0
        BY <1>1, AccountAssumption DEF AccountTypes, IsExchange, NoExchange, Finished, Numbers
      <3>2. pages[exchanges[q].page].busy = q \/ q \in kept
        BY DEF AccountInv, WaitedFor
      <3> QED
        BY <1>4, <1>12, <1>17, <3>1, <3>2
    <2> QED
      BY <2>1, <2>2
  <1>19. ASSUME factor'.on
         PROVE  factor'.codes \in Numbers /\ (factor'.codes \in kept' \union Shown' \/ Delivered(factor.codes)')
    <2>1. PICK c \in Numbers : c = factor.codes /\ c = factor'.codes
      BY <1>4, <1>19 DEF AccountInv
    <2>2. CASE c \in kept
      BY <1>4, <2>1, <2>2
    <2>3. CASE c \in Shown
      BY <1>11, <1>12, <2>1, <2>3 DEF Shown
    <2>4. CASE Delivered(c)
      <3>1. exchanges[c].page \in Pages /\ c # 0 /\ c # r
        BY <1>1, <1>6, <2>4, AccountAssumption
           DEF AccountTypes, IsExchange, NoExchange, Finished, Delivered, Numbers
      <3> QED
        BY <1>12, <1>13, <1>17, <2>1, <2>4, <3>1 DEF Delivered
    <2> QED
      BY <1>4, <1>19, <2>1, <2>2, <2>3, <2>4 DEF AccountInv
  <1> QED
    BY <1>15, <1>16, <1>18, <1>19 DEF AccountInv

LEMMA EnrolClicks ==
    ASSUME AccountInv, NEW p \in Pages, SetUp(p) \/ TurnOn(p) \/ CancelEnrolment(p) \/ Acknowledge(p)
    PROVE  AccountInv'
  <1>1. /\ pages = [q \in Pages |-> pages[q]] /\ IsPage(pages[p])
    BY DEF AccountInv, AccountTypes
  <1>2. Panel(p) \in {"start", "confirm"} => pages[p].codes = 0
    BY <1>1 DEF Panel, IsPage
  <1>3. CASE SetUp(p)
    BY <1>2, <1>3, EnrolSendStep DEF SetUp
  <1>4. CASE TurnOn(p)
    <2>1. PICK code \in {0, pages[p].secret} : Send(p, "confirm", code)
      BY <1>4 DEF TurnOn
    <2>2. code \in Nat
      BY <1>1, <2>1 DEF IsPage
    <2> QED
      BY <1>2, <1>4, <2>1, <2>2, EnrolSendStep DEF TurnOn
  <1>5. CASE CancelEnrolment(p)
    <2>1. PICK x : x = [pages[p] EXCEPT !.secret = 0]
      OBVIOUS
    <2>2. IsPage(x) /\ x.busy = pages[p].busy /\ x.codes = pages[p].codes
      BY <1>1, <2>1 DEF IsPage, PageFields
    <2>3. pages' = [pages EXCEPT ![p] = x] /\ UNCHANGED <<factor, exchanges, verified, kept, crossed>>
      BY <1>5, <2>1 DEF CancelEnrolment
    <2> QED
      BY <2>2, <2>3, EnrolPageStep
  <1>6. CASE Acknowledge(p)
    <2>1. PICK x : x = [pages[p] EXCEPT !.acknowledged = TRUE]
      OBVIOUS
    <2>2. IsPage(x) /\ x.busy = pages[p].busy /\ x.codes = pages[p].codes
      BY <1>1, <2>1 DEF IsPage, PageFields
    <2>3. pages' = [pages EXCEPT ![p] = x] /\ UNCHANGED <<factor, exchanges, verified, kept, crossed>>
      BY <1>6, <2>1 DEF Acknowledge
    <2> QED
      BY <2>2, <2>3, EnrolPageStep
  <1> QED
    BY <1>3, <1>4, <1>5, <1>6

LEMMA EnrolPageGone ==
    ASSUME AccountInv, NEW p \in Pages, FinishEnrolment(p) \/ EnrolmentConnectionLost(p) \/ ReopenPage(p)
    PROVE  AccountInv'
  <1>1. /\ pages = [q \in Pages |-> pages[q]] /\ IsPage(pages[p])
    BY DEF AccountInv, AccountTypes
  <1>2. CASE FinishEnrolment(p)
    <2>1. PICK u : pages' = [pages EXCEPT ![p].codes = 0, ![p].user = u]
      BY <1>2 DEF FinishEnrolment
    <2>2. PICK x : x = [pages[p] EXCEPT !.codes = 0, !.user = u]
      OBVIOUS
    <2>3. IsPage(x) /\ x.busy = pages[p].busy
      BY <1>1, <2>2 DEF IsPage, PageFields
    <2>4. pages' = [pages EXCEPT ![p] = x]
      BY <1>1, <2>1, <2>2
    <2>5. /\ kept' = kept \union {pages[p].codes} /\ UNCHANGED <<factor, exchanges, verified, crossed>>
      BY <1>2 DEF FinishEnrolment, MayFinish
    <2>6. kept \subseteq kept' /\ pages[p].codes \in kept'
      BY <2>5
    <2> QED
      BY <2>3, <2>4, <2>5, <2>6, EnrolPageStep
  <1>3. CASE EnrolmentConnectionLost(p)
    <2>1. PICK x : x = [pages[p] EXCEPT !.busy = 0]
      OBVIOUS
    <2>2. IsPage(x) /\ x.busy = 0 /\ x.codes = pages[p].codes
      BY <1>1, <2>1 DEF IsPage, PageFields
    <2>3. /\ pages' = [pages EXCEPT ![p] = x] /\ kept' = kept \union {pages[p].busy}
          /\ UNCHANGED <<factor, exchanges, verified, crossed>>
      BY <1>3, <2>1 DEF EnrolmentConnectionLost
    <2>4. kept \subseteq kept' /\ pages[p].busy \in kept'
      BY <2>3
    <2> QED
      BY <2>2, <2>3, <2>4, EnrolPageStep
  <1>4. CASE ReopenPage(p)
    <2>1. PICK u : pages' = [pages EXCEPT ![p] = [EnrolmentPage EXCEPT !.user = u]]
      <3>1. PICK status \in {200, 401} :
              pages' = [pages EXCEPT ![p] = [EnrolmentPage EXCEPT !.user = ReadProfile(status)]]
        BY <1>4 DEF ReopenPage
      <3>2. PICK u : u = ReadProfile(status)
        OBVIOUS
      <3> QED
        BY <3>1, <3>2
    <2>2. PICK x : x = [EnrolmentPage EXCEPT !.user = u]
      OBVIOUS
    <2>3. IsPage(x) /\ x.busy = 0 /\ x.codes = 0
      <3>1. PICK b : b = FALSE
        OBVIOUS
      <3>2. x = [[user |-> "off", secret |-> 0, codes |-> 0, acknowledged |-> b, busy |-> 0] EXCEPT !.user = u]
        BY <2>2, <3>1 DEF EnrolmentPage
      <3> QED
        BY <3>2 DEF IsPage, PageFields
    <2>4. /\ kept' = kept \union {pages[p].codes, pages[p].busy}
          /\ UNCHANGED <<factor, exchanges, verified, crossed>>
      BY <1>4 DEF ReopenPage
    <2>5. kept \subseteq kept' /\ pages[p].codes \in kept' /\ pages[p].busy \in kept'
      BY <2>4
    <2> QED
      BY <2>1, <2>2, <2>3, <2>4, <2>5, EnrolPageStep
  <1> QED
    BY <1>2, <1>3, <1>4

LEMMA EnrolEndFacts ==
    ASSUME NEW r \in Numbers, NEW status, NEW result \in Nat, IsExchange(exchanges[r]),
           exchanges = [q \in Numbers |-> exchanges[q]], EndExchange(r, status, result)
    PROVE  \E y : /\ exchanges' = [exchanges EXCEPT ![r] = y] /\ IsExchange(y) /\ y.pc = "answered"
                  /\ y.op = exchanges[r].op /\ y.page = exchanges[r].page /\ y.code = result
                  /\ status = 200 => y.ok
  <1>1. PICK ok : /\ exchanges' = [exchanges EXCEPT ![r].pc = "answered", ![r].ok = ok, ![r].code = result]
                  /\ ok = Succeeds(ProblemStatus(status))
    BY DEF EndExchange
  <1>2. PICK y : y = [exchanges[r] EXCEPT !.pc = "answered", !.ok = ok, !.code = result]
    OBVIOUS
  <1>3. exchanges' = [exchanges EXCEPT ![r] = y]
    BY <1>1, <1>2
  <1>4. /\ y = [i \in ExchangeFields |-> y[i]] /\ y.pc = "answered" /\ y.ok = ok /\ y.code = result
        /\ y.op = exchanges[r].op /\ y.page = exchanges[r].page
    BY <1>2 DEF IsExchange, ExchangeFields
  <1>5. IsExchange(y)
    BY <1>4 DEF IsExchange
  <1>6. status = 200 => ok
    <2>1. ProblemStatus(200) = 200 /\ Succeeds(200)
      BY DEF Succeeds, ProblemStatus
    <2> QED
      BY <1>1, <2>1
  <1> QED
    BY <1>3, <1>4, <1>5, <1>6

LEMMA EnrolServeStep ==
    ASSUME AccountInv, NEW r \in Numbers, BeginRead(r) \/ BeginWrite(r) \/ ConfirmRead(r) \/ ConfirmWrite(r)
    PROVE  AccountInv'
  <1>1. /\ AccountTypes /\ AloneInv /\ exchanges = [q \in Numbers |-> exchanges[q]]
        /\ factor = [i \in {"on", "secret", "pending", "codes"} |-> factor[i]] /\ factor.pending \in Nat
    BY DEF AccountInv, AccountTypes
  <1>2. exchanges[r].pc \in {"sent", "begin", "promote"}
    BY DEF BeginRead, BeginWrite, ConfirmRead, ConfirmWrite
  <1>3. IsExchange(exchanges[r]) /\ UNCHANGED <<pages, kept>>
    BY <1>1, <1>2
       DEF AccountTypes, NoExchange, Finished, BeginRead, BeginWrite, ConfirmRead, ConfirmWrite
  <1>4. r \in Nat
    BY AccountAssumption DEF Numbers
  <1>5. ASSUME NEW status, EndExchange(r, status, 0), UNCHANGED <<factor, verified, crossed>>
        PROVE  AccountInv'
    <2>1. PICK y : /\ exchanges' = [exchanges EXCEPT ![r] = y] /\ IsExchange(y) /\ y.pc = "answered"
                   /\ y.page = exchanges[r].page
      BY <1>1, <1>3, <1>5, EnrolEndFacts
    <2>2. AloneInv'
      BY <1>1, <1>5, <2>1 DEF AloneInv, Open
    <2> QED
      BY <1>1, <1>2, <1>3, <1>5, <2>1, <2>2, EnrolWorkStep
  <1>6. CASE BeginRead(r)
    <2>1. CASE exchanges' = [exchanges EXCEPT ![r].pc = "begin"] /\ ~factor.on
      <3>1. PICK y : y = [exchanges[r] EXCEPT !.pc = "begin"]
        OBVIOUS
      <3>2. IsExchange(y) /\ y.pc = "begin" /\ y.page = exchanges[r].page
        BY <1>3, <3>1 DEF IsExchange, ExchangeFields
      <3>3. exchanges' = [exchanges EXCEPT ![r] = y] /\ UNCHANGED <<factor, verified, crossed>>
        BY <1>6, <2>1, <3>1 DEF BeginRead
      <3>4. AloneInv'
        BY <1>1, <2>1, <3>2, <3>3 DEF AloneInv, Open
      <3> QED
        BY <1>1, <1>2, <1>3, <3>2, <3>3, <3>4, EnrolWorkStep
    <2> QED
      BY <1>5, <1>6, <2>1 DEF BeginRead
  <1>7. CASE BeginWrite(r)
    <2>1. PICK y : /\ exchanges' = [exchanges EXCEPT ![r] = y] /\ IsExchange(y) /\ y.pc = "answered"
                   /\ y.page = exchanges[r].page
      BY <1>1, <1>3, <1>4, <1>7, EnrolEndFacts DEF BeginWrite
    <2>2. factor' = [factor EXCEPT !.pending = r] /\ UNCHANGED verified
      BY <1>7 DEF BeginWrite, StoredAsPending
    <2>3. /\ factor'.on = factor.on /\ factor'.codes = factor.codes /\ factor'.pending = r
          /\ factor' = [i \in {"on", "secret", "pending", "codes"} |-> factor'[i]]
      BY <1>1, <2>2
    <2>4. ~crossed' => ~crossed /\ \A q \in Numbers \ {r} : ~Open(q)
      BY <1>7 DEF BeginWrite, Crosses
    <2>5. ~crossed => ~factor.on
      BY <1>1, <1>7 DEF AloneInv, Open, BeginWrite
    <2>6. ASSUME ~crossed' PROVE \A q \in Numbers : exchanges'[q].pc \notin {"begin", "promote"}
      BY <1>1, <2>1, <2>4, <2>6 DEF Open
    <2>7. AloneInv'
      BY <2>3, <2>4, <2>5, <2>6 DEF AloneInv, Open
    <2> QED
      BY <1>1, <1>2, <1>3, <1>4, <2>1, <2>3, <2>7, EnrolWorkStep
  <1>8. CASE ConfirmRead(r)
    <2>1. CASE /\ exchanges' = [exchanges EXCEPT ![r].pc = "promote"]
               /\ factor.pending > 0 /\ verified' = verified \union {factor.pending}
      <3>1. PICK y : y = [exchanges[r] EXCEPT !.pc = "promote"]
        OBVIOUS
      <3>2. IsExchange(y) /\ y.pc = "promote" /\ y.page = exchanges[r].page
        BY <1>3, <1>8, <3>1 DEF IsExchange, ExchangeFields, ConfirmRead
      <3>3. exchanges' = [exchanges EXCEPT ![r] = y] /\ UNCHANGED <<factor, crossed>>
        BY <1>8, <2>1, <3>1 DEF ConfirmRead
      <3>4. ~crossed => ~factor.on
        BY <1>1, <2>1 DEF AloneInv
      <3>5. AloneInv'
        BY <1>1, <2>1, <3>2, <3>3, <3>4 DEF AloneInv, Open
      <3> QED
        BY <1>1, <1>2, <1>3, <3>2, <3>3, <3>5, EnrolWorkStep
    <2> QED
      BY <1>5, <1>8, <2>1 DEF ConfirmRead
  <1>9. CASE ConfirmWrite(r)
    <2>1. PICK y : /\ exchanges' = [exchanges EXCEPT ![r] = y] /\ IsExchange(y) /\ y.pc = "answered"
                   /\ y.page = exchanges[r].page /\ y.op = exchanges[r].op /\ y.code = r /\ y.ok
      BY <1>1, <1>3, <1>4, <1>9, EnrolEndFacts DEF ConfirmWrite
    <2>2. PICK b : b = TRUE
      OBVIOUS
    <2>3. factor' = [on |-> b, secret |-> factor.pending, pending |-> 0, codes |-> r] /\ UNCHANGED verified
      BY <1>9, <2>2 DEF ConfirmWrite
    <2>4. /\ factor'.secret = factor.pending /\ factor'.codes = r /\ factor'.pending = 0
          /\ factor' = [i \in {"on", "secret", "pending", "codes"} |-> factor'[i]]
      BY <2>3
    <2>5. ~crossed' => ~crossed /\ \A q \in Numbers \ {r} : ~Open(q)
      BY <1>9 DEF ConfirmWrite, Crosses
    <2>6. ~crossed => factor.pending \in verified
      BY <1>1, <1>9 DEF AloneInv, ConfirmWrite
    <2>7. ASSUME ~crossed' PROVE \A q \in Numbers : exchanges'[q].pc \notin {"begin", "promote"}
      BY <1>1, <2>1, <2>5, <2>7 DEF Open
    <2>8. AloneInv'
      BY <2>3, <2>4, <2>5, <2>6, <2>7 DEF AloneInv, Open
    <2>9. exchanges[r].pc = "promote" /\ y.op = "confirm"
      BY <1>3, <1>9, <2>1 DEF ConfirmWrite, IsExchange
    <2> QED
      <3>1. exchanges[r].pc # "none" /\ exchanges[r].pc # "over" /\ exchanges[r].pc # "answered"
        BY <2>9
      <3>2. factor'.pending \in Nat /\ kept \subseteq kept'
        BY <1>3, <2>4
      <3>3. /\ factor'.codes = r /\ exchanges[r].pc = "promote"
            /\ y.pc = "answered" /\ y.ok /\ y.op = "confirm" /\ y.code = r
        BY <2>1, <2>4, <2>9
      <3> QED
        BY <1>3, <2>1, <2>4, <2>8, <3>1, <3>2, <3>3, EnrolWorkStep
  <1> QED
    BY <1>6, <1>7, <1>8, <1>9

LEMMA EnrolFailsStep ==
    ASSUME AccountInv, NEW r \in Numbers, ExchangeFails(r)
    PROVE  AccountInv'
  <1>1. /\ AccountTypes /\ AloneInv /\ exchanges = [q \in Numbers |-> exchanges[q]]
        /\ factor = [i \in {"on", "secret", "pending", "codes"} |-> factor[i]] /\ factor.pending \in Nat
    BY DEF AccountInv, AccountTypes
  <1>2. /\ exchanges[r].pc \in {"sent", "answered"} /\ kept' = kept \union {exchanges[r].code}
        /\ UNCHANGED <<factor, pages, verified, crossed>>
    BY DEF ExchangeFails
  <1>3. IsExchange(exchanges[r]) /\ kept \subseteq kept' /\ exchanges[r].code \in kept'
    BY <1>1, <1>2 DEF AccountTypes, NoExchange, Finished
  <1>4. PICK status : EndExchange(r, status, 0)
    BY DEF ExchangeFails
  <1>5. PICK y : /\ exchanges' = [exchanges EXCEPT ![r] = y] /\ IsExchange(y) /\ y.pc = "answered"
                 /\ y.page = exchanges[r].page
    BY <1>1, <1>3, <1>4, EnrolEndFacts
  <1>6. AloneInv'
    BY <1>1, <1>2, <1>5 DEF AloneInv, Open
  <1> QED
    BY <1>1, <1>2, <1>3, <1>5, <1>6, EnrolWorkStep

LEMMA EnrolAnswerStep ==
    ASSUME AccountInv, NEW r \in Numbers, EnrolmentAnswered(r)
    PROVE  AccountInv'
  <1>1. AccountTypes /\ AloneInv
    BY DEF AccountInv
  <1>2. PICK p : p = exchanges[r].page
    OBVIOUS
  <1>3. /\ exchanges[r].pc = "answered" /\ pages[p].busy = r /\ exchanges' = [exchanges EXCEPT ![r] = Finished]
        /\ UNCHANGED <<factor, verified, kept, crossed>>
    BY <1>2 DEF EnrolmentAnswered
  <1>4. IsExchange(exchanges[r]) /\ p \in Pages /\ r \in Nat /\ r > 0
    BY <1>1, <1>2, <1>3, AccountAssumption DEF AccountTypes, NoExchange, Finished, IsExchange, Numbers
  <1>5. IsPage(pages[p]) /\ pages[p].codes = 0 /\ exchanges[r].code \in Nat
    BY <1>1, <1>3, <1>4 DEF AccountTypes, IsPage, IsExchange
  <1>6. PICK s \in Nat, c \in Nat :
          /\ pages' = [pages EXCEPT ![p] = [pages[p] EXCEPT !.busy = 0, !.secret = s, !.codes = c]]
          /\ exchanges[r].ok /\ exchanges[r].op = "confirm" => c = exchanges[r].code
    <2>1. PICK s : s = IF exchanges[r].ok /\ exchanges[r].op = "begin"
                       THEN exchanges[r].code ELSE pages[p].secret
      OBVIOUS
    <2>2. PICK c : c = IF exchanges[r].ok /\ exchanges[r].op = "confirm"
                       THEN exchanges[r].code ELSE pages[p].codes
      OBVIOUS
    <2>3. s \in Nat /\ c \in Nat
      BY <1>5, <2>1, <2>2 DEF IsPage
    <2>4. pages' = [pages EXCEPT ![p].busy = 0, ![p].secret = s, ![p].codes = c]
      BY <1>2, <2>1, <2>2 DEF EnrolmentAnswered
    <2>5. pages' = [pages EXCEPT ![p] = [pages[p] EXCEPT !.busy = 0, !.secret = s, !.codes = c]]
      BY <1>1, <1>4, <2>4 DEF AccountTypes
    <2> QED
      BY <2>2, <2>3, <2>5
  <1>7. PICK x : x = [pages[p] EXCEPT !.busy = 0, !.secret = s, !.codes = c]
    OBVIOUS
  <1>8. IsPage(x) /\ x.busy = 0 /\ x.codes = c
    <2>1. x = [i \in PageFields |-> x[i]] /\ x.busy = 0 /\ x.codes = c /\ x.secret = s
      BY <1>5, <1>7 DEF IsPage, PageFields
    <2>2. s \in Nat /\ c \in Nat
      BY <1>6
    <2> QED
      BY <2>1, <2>2 DEF IsPage
  <1>9. /\ pages' = [q \in Pages |-> pages'[q]] /\ pages'[p] = x
        /\ \A q \in Pages \ {p} : pages'[q] = pages[q]
    BY <1>1, <1>4, <1>6, <1>7 DEF AccountTypes
  <1>10. /\ exchanges' = [q \in Numbers |-> exchanges'[q]] /\ exchanges'[r] = Finished
         /\ \A q \in Numbers \ {r} : exchanges'[q] = exchanges[q]
    BY <1>1, <1>3 DEF AccountTypes
  <1>11. Finished.pc = "over"
    BY DEF Finished
  <1>12. Used' = Used
    BY <1>3, <1>10, <1>11 DEF Used
  <1>13. AccountTypes'
    BY <1>1, <1>3, <1>8, <1>9, <1>10, <1>12 DEF AccountTypes
  <1>14. AloneInv'
    BY <1>1, <1>3, <1>10, <1>11 DEF AloneInv, Open
  <1>15. ASSUME NEW q \in Numbers PROVE WaitedFor(q)'
    <2> SUFFICES ASSUME exchanges'[q].pc \in {"sent", "begin", "promote"}
                 PROVE  pages'[exchanges'[q].page].busy = q \/ q \in kept'
      BY DEF WaitedFor
    <2>1. q # r /\ exchanges'[q] = exchanges[q]
      BY <1>10, <1>11
    <2>2. exchanges[q].page \in Pages
      BY <1>1, <2>1 DEF AccountTypes, IsExchange, NoExchange, Finished
    <2>3. pages[exchanges[q].page].busy = q \/ q \in kept
      BY <2>1 DEF AccountInv, WaitedFor
    <2> QED
      BY <1>3, <1>9, <2>1, <2>2, <2>3
  <1>16. ASSUME factor'.on
         PROVE  factor'.codes \in Numbers /\ (factor'.codes \in kept' \union Shown' \/ Delivered(factor.codes)')
    <2>1. PICK d \in Numbers : d = factor.codes /\ d = factor'.codes /\ d # 0
      BY <1>3, <1>16, AccountAssumption DEF AccountInv, Numbers
    <2>2. CASE d \in kept
      BY <1>3, <2>1, <2>2
    <2>3. CASE d \in Shown
      BY <1>5, <1>9, <2>1, <2>3 DEF Shown
    <2>4. CASE Delivered(d) /\ d = r
      BY <1>4, <1>6, <1>8, <1>9, <2>1, <2>4 DEF Delivered, Shown
    <2>5. CASE Delivered(d) /\ d # r
      <3>1. exchanges[d].page \in Pages /\ exchanges'[d] = exchanges[d]
        BY <1>1, <1>10, <2>5 DEF AccountTypes, IsExchange, NoExchange, Finished, Delivered
      <3> QED
        BY <1>3, <1>9, <2>1, <2>5, <3>1 DEF Delivered
    <2> QED
      BY <1>3, <1>16, <2>1, <2>2, <2>3, <2>4, <2>5 DEF AccountInv
  <1> QED
    BY <1>13, <1>14, <1>15, <1>16 DEF AccountInv

LEMMA EnrolQuietStep ==
    ASSUME AccountInv, ClearExpiredPending \/ DisableRead \/ DisableFactor \/ UNCHANGED accountVars
    PROVE  AccountInv'
  <1>1. /\ AccountTypes /\ AloneInv
        /\ factor = [i \in {"on", "secret", "pending", "codes"} |-> factor[i]] /\ factor.pending \in Nat
    BY DEF AccountInv, AccountTypes
  <1>2. UNCHANGED <<pages, exchanges, verified, kept>>
    BY DEF ClearExpiredPending, DisableRead, DisableFactor, accountVars
  <1>3. /\ factor' = [i \in {"on", "secret", "pending", "codes"} |-> factor'[i]] /\ factor'.pending \in Nat
        /\ factor'.on => factor.on /\ factor'.codes = factor.codes /\ factor'.secret = factor.secret
        /\ factor' = factor \/ factor'.pending = 0
    <2>1. CASE DisableFactor
      <3>1. PICK b : b = FALSE
        OBVIOUS
      <3>2. factor' = [on |-> b, secret |-> 0, pending |-> 0, codes |-> 0]
        BY <2>1, <3>1 DEF DisableFactor, FactorOff
      <3> QED
        BY <3>1, <3>2
    <2>2. CASE ClearExpiredPending
      BY <1>1, <2>2 DEF ClearExpiredPending
    <2>3. CASE DisableRead \/ UNCHANGED accountVars
      BY <1>1, <2>3 DEF DisableRead, accountVars
    <2> QED
      BY <2>1, <2>2, <2>3
  <1>4. AccountTypes'
    BY <1>1, <1>2, <1>3 DEF AccountTypes, Used
  <1>5. ASSUME ~crossed'
        PROVE  ~crossed /\ (factor' # factor => \A r \in Numbers : exchanges[r].pc \notin {"begin", "promote"})
    <2>1. CASE DisableFactor
      <3>1. ~(crossed \/ \E r \in Numbers : Open(r))
        BY <1>5, <2>1 DEF DisableFactor
      <3> QED
        BY <3>1 DEF Open
    <2>2. CASE ClearExpiredPending
      <3>1. crossed' = crossed /\ \A r \in Numbers : exchanges[r].pc \in {"none", "answered", "over"}
        BY <2>2 DEF ClearExpiredPending
      <3> QED
        BY <1>5, <3>1
    <2>3. CASE DisableRead \/ UNCHANGED accountVars
      BY <1>5, <2>3 DEF DisableRead, accountVars
    <2> QED
      BY <2>1, <2>2, <2>3
  <1>6. AloneInv'
    <2> SUFFICES ASSUME ~crossed'
                 PROVE  /\ \A r \in Numbers : exchanges'[r].pc \in {"begin", "promote"} => ~factor'.on
                        /\ \A r \in Numbers : exchanges'[r].pc = "promote" => factor'.pending \in verified'
                        /\ factor'.on => factor'.secret \in verified' /\ factor'.pending = 0
      BY DEF AloneInv, Open
    <2>1. CASE factor' = factor
      BY <1>1, <1>2, <1>5, <2>1 DEF AloneInv, Open
    <2>2. CASE factor' # factor
      BY <1>1, <1>2, <1>3, <1>5, <2>2 DEF AloneInv
    <2> QED
      BY <2>1, <2>2
  <1>7. \A r \in Numbers : WaitedFor(r)'
    BY <1>2 DEF AccountInv, WaitedFor
  <1>8. ASSUME factor'.on
        PROVE  factor'.codes \in Numbers /\ (factor'.codes \in kept' \union Shown' \/ Delivered(factor.codes)')
    BY <1>2, <1>3, <1>8 DEF AccountInv, Shown, Delivered
  <1> QED
    BY <1>4, <1>6, <1>7, <1>8 DEF AccountInv

LEMMA AccountStep ==
    ASSUME AccountInv, [AccountNext]_accountVars
    PROVE  AccountInv'
  <1>1. CASE \E p \in Pages : SetUp(p) \/ TurnOn(p) \/ CancelEnrolment(p) \/ Acknowledge(p)
    BY <1>1, EnrolClicks
  <1>2. CASE \E p \in Pages : FinishEnrolment(p) \/ EnrolmentConnectionLost(p) \/ ReopenPage(p)
    BY <1>2, EnrolPageGone
  <1>3. CASE \E r \in Numbers : AccountServe(r) \/ ExchangeFails(r)
    BY <1>3, EnrolServeStep, EnrolAnswerStep, EnrolFailsStep DEF AccountServe
  <1> QED
    BY <1>1, <1>2, <1>3, EnrolQuietStep DEF AccountNext

LEMMA AccountIsHeld == AccountInv => SecondFactorIsHeld
  <1> SUFFICES ASSUME AccountInv, factor.on, ~crossed
               PROVE  factor.secret \in verified /\ factor.codes \in kept \union Shown \union OnTheirWay
    BY DEF SecondFactorIsHeld
  <1>1. factor.secret \in verified
    BY DEF AccountInv, AloneInv
  <1>2. CASE Delivered(factor.codes)
    <2>1. factor.codes \in Numbers /\ AccountTypes
      BY DEF AccountInv
    <2>2. exchanges[factor.codes].page \in Pages
      BY <1>2, <2>1 DEF AccountTypes, IsExchange, NoExchange, Finished, Delivered
    <2> QED
      BY <1>1, <1>2, <2>2 DEF Delivered, OnTheirWay
  <1> QED
    BY <1>1, <1>2 DEF AccountInv

\* A second factor is on only with a secret of which a code was checked and with
\* recovery codes its owner has, will see, or lost with a connection or a tab, for
\* any number of requests of two enrolment pages.
THEOREM SecondFactorHolds == StorefrontSpec => []SecondFactorIsHeld
  <1>1. StorefrontInit => AccountInv
    BY AccountStart DEF StorefrontInit
  <1>2. AccountInv /\ [StorefrontNext]_storefrontVars => AccountInv'
    BY AccountStep, StepOfAccount
  <1> QED
    BY <1>1, <1>2, AccountIsHeld, PTL DEF StorefrontSpec

-----------------------------------------------------------------------------
(* The basket: an answer in flight is a state the basket has been in, and   *)
(* without an overlap no older than the one the tab shows.                  *)

LEMMA StepOfBasket == [StorefrontNext]_storefrontVars => [BasketNext]_basketVars
  BY DEF StorefrontNext, storefrontVars, OfCheckout, OfProgress, OfBasket, OfSearch, OfToasts,
         OfSession, OfTokens, OfAccount, OfForms

\* Only the basket of the cart-service and what was read of it matter: x is a state
\* the basket it belongs to has been in.
ReadBefore(x) ==
    /\ x.version \in Nat /\ x.id \in Ids \union {0}
    /\ IF x.id = 0 THEN x.version = 0 ELSE x.version <= baskets[x.id].version

NotOlder(x) == x.id = cart.id => cart.version <= x.version

MutationFields == {"pc", "op", "quantity", "version", "ticket", "attempt", "status", "answer"}
IsMutation(x) ==
    /\ x = [i \in MutationFields |-> x[i]] /\ x.pc \in {"sent", "answered", "refreshing"}
    /\ x.pc = "answered" /\ x.status = 200 => ReadBefore(x.answer) /\ (~overlapped => NotOlder(x.answer))

IsRefresh(x) ==
    \/ x.pc \in {"none", "sent"}
    \/ /\ x.pc = "answered"
       /\ x.status # 502 => ReadBefore(x.answer) /\ (~overlapped => NotOlder(x.answer))

BasketTypes ==
    /\ cartCookie \in Ids \union {0}
    /\ baskets = [i \in Ids |-> baskets[i]]
    /\ \A i \in Ids : baskets[i] = [j \in {"version", "quantity"} |-> baskets[i][j]] /\ baskets[i].version \in Nat
    /\ ReadBefore(cart)
    /\ mutation.pc = "none" \/ IsMutation(mutation)
    /\ refreshes = [f \in {"mount", "stale"} |-> refreshes[f]]
    /\ \A f \in {"mount", "stale"} : IsRefresh(refreshes[f])

\* One answer at a time: the refresh after CART_STALE is part of its mutation, and
\* the one of the mount is over before the first mutation, or they overlapped.
BasketInv ==
    /\ BasketTypes
    /\ refreshes["stale"].pc # "none" => mutation.pc = "refreshing"
    /\ ~overlapped /\ refreshes["mount"].pc # "none" => mutation.pc = "none"

LEMMA BasketStart == BasketInit => BasketInv
  <1> SUFFICES ASSUME BasketInit
               PROVE  BasketInv
    OBVIOUS
  <1>1. \A i \in Ids : baskets[i] = [version |-> 0, quantity |-> 0]
    BY DEF BasketInit, Fresh
  <1>2. \A i \in Ids : baskets[i] = [j \in {"version", "quantity"} |-> baskets[i][j]] /\ baskets[i].version \in Nat
    BY <1>1
  <1>3. cart.id = 0 /\ cart.version = 0 /\ cartCookie = 0 /\ mutation.pc = "none"
    BY DEF BasketInit, NoCart, None
  <1>4. ReadBefore(cart)
    BY <1>3 DEF ReadBefore
  <1>5. /\ refreshes = [f \in {"mount", "stale"} |-> refreshes[f]]
        /\ refreshes["mount"].pc = "sent" /\ refreshes["stale"].pc = "none"
    BY DEF BasketInit, None
  <1>6. BasketTypes
    BY <1>2, <1>3, <1>4, <1>5 DEF BasketTypes, BasketInit, IsRefresh
  <1> QED
    BY <1>3, <1>5, <1>6 DEF BasketInv

\* cart-service only moves on.
Grown ==
    /\ baskets' = [i \in Ids |-> baskets'[i]]
    /\ \A i \in Ids : /\ baskets'[i] = [j \in {"version", "quantity"} |-> baskets'[i][j]]
                      /\ baskets'[i].version \in Nat /\ baskets[i].version <= baskets'[i].version

LEMMA StillRead ==
    ASSUME BasketTypes, Grown, NEW x, ReadBefore(x)
    PROVE  ReadBefore(x)'
  <1>1. CASE x.id = 0
    BY <1>1 DEF ReadBefore
  <1>2. CASE x.id \in Ids
    <2>1. baskets[x.id].version <= baskets'[x.id].version /\ baskets[x.id].version \in Nat
          /\ baskets'[x.id].version \in Nat
      BY <1>2 DEF Grown, BasketTypes
    <2> QED
      BY <2>1 DEF ReadBefore
  <1> QED
    BY <1>1, <1>2 DEF ReadBefore

\* The rest of the invariant, when the tab still shows the same.
LEMMA ShownTheSame ==
    ASSUME BasketInv, Grown, cart' = cart, overlapped => overlapped', cartCookie' \in Ids \union {0},
           mutation'.pc = "none" \/ IsMutation(mutation)',
           refreshes' = [f \in {"mount", "stale"} |-> refreshes'[f]],
           \A f \in {"mount", "stale"} : refreshes'[f] = refreshes[f] \/ IsRefresh(refreshes[f])'
    PROVE  BasketTypes'
  <1>1. BasketTypes /\ ReadBefore(cart)
    BY DEF BasketInv, BasketTypes
  <1>2. ReadBefore(cart)'
    <2>1. PICK x : x = cart
      OBVIOUS
    <2>2. ReadBefore(x)'
      BY <1>1, <2>1, StillRead
    <2> QED
      BY <2>1, <2>2 DEF ReadBefore
  <1>3. \A f \in {"mount", "stale"} : IsRefresh(refreshes[f])'
    <2> SUFFICES ASSUME NEW f \in {"mount", "stale"}, refreshes'[f] = refreshes[f]
                 PROVE  IsRefresh(refreshes[f])'
      OBVIOUS
    <2>1. PICK x : x = refreshes[f] /\ x = refreshes'[f]
      OBVIOUS
    <2>2. IsRefresh(x)
      BY <1>1, <2>1 DEF BasketTypes
    <2>3. CASE x.pc = "answered" /\ x.status # 502
      <3>1. PICK z : z = x.answer
        OBVIOUS
      <3>2. ReadBefore(z) /\ (~overlapped => NotOlder(z))
        BY <2>2, <2>3, <3>1 DEF IsRefresh
      <3>3. ReadBefore(z)'
        BY <1>1, <3>2, StillRead
      <3>4. ~overlapped' => NotOlder(z)'
        BY <3>2 DEF NotOlder
      <3> QED
        BY <2>1, <2>3, <3>1, <3>3, <3>4 DEF IsRefresh, ReadBefore, NotOlder
    <2> QED
      BY <2>1, <2>2, <2>3 DEF IsRefresh
  <1> QED
    BY <1>2, <1>3 DEF BasketTypes, Grown

LEMMA NotGrown ==
    ASSUME BasketTypes, UNCHANGED baskets
    PROVE  Grown
  BY DEF BasketTypes, Grown

LEMMA BasketStartStep ==
    ASSUME BasketInv, NEW op, NEW quantity, Start(op, quantity)
    PROVE  BasketInv'
  <1>1. /\ mutation = None /\ UNCHANGED <<cartCookie, baskets, cart, refreshes>>
        /\ overlapped' = (overlapped \/ refreshes["mount"] # None) /\ BasketTypes
    BY DEF Start, Loading, BasketInv
  <1>2. mutation.pc = "none" /\ (refreshes["mount"].pc # "none" => refreshes["mount"] # None)
    BY <1>1 DEF None
  <1>3. PICK x : mutation' = x /\ x = [i \in MutationFields |-> x[i]] /\ x.pc = "sent"
    <2>1. PICK y : y = [pc |-> "sent", op |-> op, quantity |-> quantity, version |-> cart.version,
                    ticket |-> inFlight', attempt |-> 1, status |-> 0, answer |-> NoCart]
      OBVIOUS
    <2>2. mutation' = y /\ y = [i \in MutationFields |-> y[i]] /\ y.pc = "sent"
      BY <2>1 DEF Start, MutationFields
    <2> QED
      BY <2>2
  <1>4. IsMutation(mutation)'
    BY <1>3 DEF IsMutation
  <1>5. Grown
    BY <1>1, NotGrown
  <1>6. BasketTypes'
    BY <1>1, <1>4, <1>5, ShownTheSame DEF BasketTypes
  <1>7. refreshes'["stale"].pc = "none"
    BY <1>1, <1>2 DEF BasketInv
  <1>8. ~overlapped' => refreshes'["mount"].pc = "none"
    BY <1>1, <1>2
  <1> QED
    BY <1>6, <1>7, <1>8 DEF BasketInv

LEMMA SentStep ==
    ASSUME BasketInv, mutation.pc = "sent", Grown, UNCHANGED <<cart, refreshes, overlapped>>,
           cartCookie' \in Ids \union {0}, IsMutation(mutation)'
    PROVE  BasketInv'
  <1>1. BasketTypes'
    BY ShownTheSame DEF BasketInv, BasketTypes
  <1>2. refreshes["stale"].pc = "none" /\ (~overlapped => refreshes["mount"].pc = "none")
    BY DEF BasketInv
  <1> QED
    BY <1>1, <1>2 DEF BasketInv

LEMMA AnsweredWith ==
    ASSUME IsMutation(mutation), NEW u, mutation' = [mutation EXCEPT !.pc = "answered", !.status = u]
    PROVE  /\ mutation' = [i \in MutationFields |-> mutation'[i]] /\ mutation'.pc = "answered"
           /\ mutation'.status = u
  BY DEF IsMutation, MutationFields

LEMMA ErrorKept ==
    ASSUME mutation' = [i \in MutationFields |-> mutation'[i]], mutation'.pc = "answered", mutation'.status # 200
    PROVE  IsMutation(mutation)'
  BY DEF IsMutation

\* A failed exchange is tried again or answered with an error.
LEMMA FailedFacts ==
    ASSUME IsMutation(mutation), mutation.pc = "sent", NEW status \in {0, 502, 503, 504}, Failed(status)
    PROVE  IsMutation(mutation)' /\ cartCookie' = cartCookie
  <1>1. cartCookie' = cartCookie
    BY DEF Failed
  <1>2. CASE mutation' = [mutation EXCEPT !.attempt = mutation.attempt + 1]
    <2>1. PICK x : x = [mutation EXCEPT !.attempt = mutation.attempt + 1]
      OBVIOUS
    <2>2. x = [i \in MutationFields |-> x[i]] /\ x.pc = "sent"
      BY <2>1 DEF IsMutation, MutationFields
    <2> QED
      BY <1>1, <1>2, <2>1, <2>2 DEF IsMutation
  <1>3. CASE mutation' = [mutation EXCEPT !.pc = "answered", !.status = ProblemStatus(status)]
    <2>1. ProblemStatus(status) # 200
      BY DEF ProblemStatus
    <2>2. PICK st : st = ProblemStatus(status)
      OBVIOUS
    <2>3. mutation' = [mutation EXCEPT !.pc = "answered", !.status = st]
      BY <1>3, <2>2
    <2>4. mutation' = [i \in MutationFields |-> mutation'[i]] /\ mutation'.pc = "answered" /\ mutation'.status = st
      BY <2>3, AnsweredWith, ZenonT(30)
    <2>5. IsMutation(mutation)'
      BY <2>1, <2>2, <2>4, ErrorKept
    <2> QED
      BY <1>1, <2>5
  <1> QED
    BY <1>2, <1>3 DEF Failed

LEMMA AddressedFacts ==
    ASSUME BasketTypes
    PROVE  Mine \in Ids /\ Addressed \in Ids \union {0} /\ 0 \notin Ids
  <1>1. MaxClicks * CartAttempts \in Nat
    BY BasketAssumption
  <1>2. Mine \in Nat /\ Mine >= 1
    BY <1>1 DEF Mine
  <1>3. Mine \in Ids /\ 0 \notin Ids
    BY <1>2 DEF Ids
  <1> QED
    BY <1>3 DEF Addressed, BasketTypes

LEMMA ServeMutationStep ==
    ASSUME BasketInv, ServeMutation
    PROVE  BasketInv'
  <1>1. /\ mutation.pc = "sent" /\ UNCHANGED <<cart, refreshes, overlapped>> /\ BasketTypes
    BY DEF ServeMutation, BasketInv
  <1>2. IsMutation(mutation)
    BY <1>1 DEF BasketTypes
  <1>3. PICK id \in IF Addressed = 0 /\ mutation.op = "add" THEN NewIds ELSE {Addressed} :
           \/ /\ mutation' = [mutation EXCEPT !.pc = "answered", !.status = 404]
              /\ UNCHANGED <<cartCookie, baskets>>
           \/ /\ mutation' = [mutation EXCEPT !.pc = "answered", !.status = 409]
              /\ UNCHANGED <<cartCookie, baskets>>
           \/ /\ id > 0
              /\ baskets' = [baskets EXCEPT ![id] = Applied(@)]
              /\ Done(id, baskets'[id]) \/ \E status \in Once({}) : Failed(status)
    BY DEF ServeMutation
  <1>4. ASSUME NEW st \in {404, 409}, mutation' = [mutation EXCEPT !.pc = "answered", !.status = st],
               UNCHANGED <<cartCookie, baskets>>
        PROVE  BasketInv'
    <2>1. st # 200
      BY <1>4
    <2>2. IsMutation(mutation)'
      <3>1. PICK u : u = st
        OBVIOUS
      <3>2. mutation' = [mutation EXCEPT !.pc = "answered", !.status = u]
        BY <1>4, <3>1
      <3>3. mutation' = [i \in MutationFields |-> mutation'[i]] /\ mutation'.pc = "answered" /\ mutation'.status = u
        BY <1>2, <3>2, AnsweredWith
      <3> QED
        BY <2>1, <3>1, <3>3, ErrorKept
    <2>3. Grown /\ cartCookie' \in Ids \union {0}
      BY <1>1, <1>4, NotGrown DEF BasketTypes
    <2> QED
      BY <1>1, <2>2, <2>3, SentStep
  <1>5. CASE /\ id > 0
             /\ baskets' = [baskets EXCEPT ![id] = Applied(@)]
             /\ Done(id, baskets'[id]) \/ \E status \in Once({}) : Failed(status)
    <2>1. id \in Ids
      BY <1>1, <1>3, <1>5, AddressedFacts DEF NewIds
    <2>2. PICK x : x = Applied(baskets[id])
      OBVIOUS
    <2>3. /\ x = [j \in {"version", "quantity"} |-> x[j]] /\ x.version = baskets[id].version + 1
          /\ baskets[id].version \in Nat
      BY <1>1, <2>1, <2>2 DEF Applied, BasketTypes
    <2>4. /\ baskets' = [i \in Ids |-> baskets'[i]] /\ baskets'[id] = x
          /\ \A i \in Ids \ {id} : baskets'[i] = baskets[i]
      BY <1>1, <1>5, <2>1, <2>2 DEF BasketTypes
    <2>5. Grown
      <3> SUFFICES ASSUME NEW i \in Ids
                   PROVE  /\ baskets'[i] = [j \in {"version", "quantity"} |-> baskets'[i][j]]
                          /\ baskets'[i].version \in Nat /\ baskets[i].version <= baskets'[i].version
        BY <2>4 DEF Grown
      <3>1. CASE i = id
        BY <2>3, <2>4, <3>1
      <3>2. CASE i # id
        BY <1>1, <2>4, <3>2 DEF BasketTypes
      <3> QED
        BY <3>1, <3>2
    <2>6. CASE \E status \in Once({}) : Failed(status)
      <3>1. PICK status \in {0, 502, 503, 504} : Failed(status)
        BY <2>6 DEF Once, Unreachable, Garbled, TimedOut
      <3>2. IsMutation(mutation)' /\ cartCookie' = cartCookie
        BY <1>1, <1>2, <3>1, FailedFacts
      <3>3. cartCookie' \in Ids \union {0}
        BY <1>1, <3>2 DEF BasketTypes
      <3> QED
        BY <1>1, <2>5, <3>2, <3>3, SentStep
    <2>7. CASE Done(id, baskets'[id])
      <3>1. PICK z : z = [id |-> id, version |-> x.version, quantity |-> x.quantity]
        OBVIOUS
      <3>2. z.id = id /\ z.version = x.version
        BY <3>1
      <3>3. PICK y : y = [mutation EXCEPT !.pc = "answered", !.status = 200, !.answer = z]
        OBVIOUS
      <3>4. /\ y = [i \in MutationFields |-> y[i]] /\ y.pc = "answered" /\ y.status = 200 /\ y.answer = z
        BY <1>2, <3>3 DEF IsMutation, MutationFields
      <3>5. mutation' = y /\ cartCookie' \in Ids \union {0}
        BY <1>1, <2>1, <2>4, <2>7, <3>1, <3>3 DEF Done, BasketTypes
      <3>6. ReadBefore(z)'
        BY <2>1, <2>3, <2>4, <3>2, AddressedFacts, <1>1 DEF ReadBefore
      <3>7. NotOlder(z)'
        <4>1. ASSUME cart.id = id PROVE cart.version <= baskets[id].version /\ cart.version \in Nat
          BY <1>1, <2>1, <4>1, AddressedFacts DEF ReadBefore, BasketTypes
        <4> QED
          BY <1>1, <2>3, <3>2, <4>1 DEF NotOlder
      <3>8. IsMutation(mutation)'
        BY <3>4, <3>5, <3>6, <3>7 DEF IsMutation, ReadBefore, NotOlder
      <3> QED
        BY <1>1, <2>5, <3>5, <3>8, SentStep
    <2> QED
      BY <1>5, <2>6, <2>7
  <1> QED
    BY <1>3, <1>4, <1>5

LEMMA MutationFailsStep ==
    ASSUME BasketInv, MutationFails
    PROVE  BasketInv'
  <1>1. /\ mutation.pc = "sent" /\ UNCHANGED <<cart, refreshes, overlapped, baskets>> /\ BasketTypes
    BY DEF MutationFails, BasketInv
  <1>2. PICK status \in {0, 502, 503, 504} : Failed(status)
    BY DEF MutationFails
  <1>3. IsMutation(mutation)' /\ cartCookie' = cartCookie
    BY <1>1, <1>2, FailedFacts DEF BasketTypes
  <1>4. Grown /\ cartCookie' \in Ids \union {0}
    BY <1>1, <1>3, NotGrown DEF BasketTypes
  <1> QED
    BY <1>1, <1>3, <1>4, SentStep

LEMMA ElsewhereStep ==
    ASSUME BasketInv, ChangedElsewhere
    PROVE  BasketInv'
  <1>1. /\ UNCHANGED <<cartCookie, cart, mutation, refreshes, overlapped>> /\ BasketTypes
    BY DEF ChangedElsewhere, BasketInv
  <1>2. PICK id \in Ids : id = Addressed
    BY <1>1, AddressedFacts DEF ChangedElsewhere
  <1>3. PICK q : baskets' = [baskets EXCEPT ![id] = [version |-> @.version + 1, quantity |-> q]]
    BY <1>2 DEF ChangedElsewhere
  <1>4. PICK x : x = [version |-> baskets[id].version + 1, quantity |-> q]
    OBVIOUS
  <1>5. /\ x = [j \in {"version", "quantity"} |-> x[j]] /\ x.version = baskets[id].version + 1
        /\ baskets[id].version \in Nat
    BY <1>1, <1>4 DEF BasketTypes
  <1>6. /\ baskets' = [i \in Ids |-> baskets'[i]] /\ baskets'[id] = x
        /\ \A i \in Ids \ {id} : baskets'[i] = baskets[i]
    BY <1>1, <1>3, <1>4 DEF BasketTypes
  <1>7. Grown
    <2> SUFFICES ASSUME NEW i \in Ids
                 PROVE  /\ baskets'[i] = [j \in {"version", "quantity"} |-> baskets'[i][j]]
                        /\ baskets'[i].version \in Nat /\ baskets[i].version <= baskets'[i].version
      BY <1>6 DEF Grown
    <2>1. CASE i = id
      BY <1>5, <1>6, <2>1
    <2>2. CASE i # id
      BY <1>1, <1>6, <2>2 DEF BasketTypes
    <2> QED
      BY <2>1, <2>2
  <1>8. mutation'.pc = "none" \/ IsMutation(mutation)'
    <2> SUFFICES ASSUME IsMutation(mutation)
                 PROVE  IsMutation(mutation)'
      BY <1>1 DEF BasketTypes
    <2>1. CASE mutation.pc = "answered" /\ mutation.status = 200
      <3>1. PICK z : z = mutation.answer
        OBVIOUS
      <3>2. ReadBefore(z) /\ (~overlapped => NotOlder(z))
        BY <2>1, <3>1 DEF IsMutation
      <3>3. ReadBefore(z)' /\ (~overlapped' => NotOlder(z)')
        BY <1>1, <1>7, <3>2, StillRead DEF NotOlder
      <3> QED
        BY <1>1, <2>1, <3>1, <3>3 DEF IsMutation, ReadBefore, NotOlder
    <2> QED
      BY <1>1, <2>1 DEF IsMutation
  <1>9. BasketTypes'
    BY <1>1, <1>7, <1>8, ShownTheSame DEF BasketTypes
  <1> QED
    BY <1>1, <1>9 DEF BasketInv

LEMMA ServeRefreshStep ==
    ASSUME BasketInv, NEW f \in {"mount", "stale"}, ServeRefresh(f)
    PROVE  BasketInv'
  <1>1. /\ refreshes[f].pc = "sent" /\ UNCHANGED <<cartCookie, baskets, cart, mutation, overlapped>> /\ BasketTypes
    BY DEF ServeRefresh, BasketInv
  <1>2. Addressed \in Ids \union {0} /\ 0 \notin Ids
    BY <1>1, AddressedFacts
  <1>3. PICK x : /\ refreshes' = [refreshes EXCEPT ![f] = x] /\ x.pc = "answered"
                 /\ x.status # 502 => \/ x.answer = NoCart
                                      \/ /\ Addressed \in Ids /\ x.answer.id = Addressed
                                         /\ x.answer.version = baskets[Addressed].version
    <2>1. CASE refreshes' = [refreshes EXCEPT ![f] = [pc |-> "answered", status |-> 502, answer |-> NoCart]]
      <3>1. PICK x : x = [pc |-> "answered", status |-> 502, answer |-> NoCart]
        OBVIOUS
      <3>2. refreshes' = [refreshes EXCEPT ![f] = x] /\ x.pc = "answered" /\ x.answer = NoCart
        BY <2>1, <3>1
      <3> QED
        BY <3>2
    <2>2. CASE refreshes' = [refreshes EXCEPT ![f] = [pc |-> "answered", status |-> 404, answer |-> NoCart]]
      <3>1. PICK x : x = [pc |-> "answered", status |-> 404, answer |-> NoCart]
        OBVIOUS
      <3>2. refreshes' = [refreshes EXCEPT ![f] = x] /\ x.pc = "answered" /\ x.answer = NoCart
        BY <2>2, <3>1
      <3> QED
        BY <3>2
    <2>3. CASE /\ Addressed # 0
               /\ refreshes' = [refreshes EXCEPT ![f] =
                    [pc |-> "answered", status |-> 200,
                      answer |-> [id |-> Addressed, version |-> baskets[Addressed].version,
                                  quantity |-> baskets[Addressed].quantity]]]
      <3>1. PICK z : z = [id |-> Addressed, version |-> baskets[Addressed].version,
                          quantity |-> baskets[Addressed].quantity]
        OBVIOUS
      <3>2. z.id = Addressed /\ z.version = baskets[Addressed].version
        BY <3>1
      <3>3. PICK x : x = [pc |-> "answered", status |-> 200, answer |-> z]
        OBVIOUS
      <3>4. refreshes' = [refreshes EXCEPT ![f] = x] /\ x.pc = "answered" /\ x.answer = z
        BY <2>3, <3>1, <3>3
      <3> QED
        BY <1>2, <2>3, <3>2, <3>4, ZenonT(30)
    <2> QED
      BY <2>1, <2>2, <2>3 DEF ServeRefresh
  <1>4. /\ refreshes' = [g \in {"mount", "stale"} |-> refreshes'[g]] /\ refreshes'[f] = x
        /\ \A g \in {"mount", "stale"} \ {f} : refreshes'[g] = refreshes[g]
    BY <1>1, <1>3 DEF BasketTypes
  <1>5. ReadBefore(cart)
    BY <1>1 DEF BasketTypes
  <1>6. IsRefresh(refreshes[f])'
    <2> SUFFICES ASSUME x.status # 502
                 PROVE  ReadBefore(x.answer)' /\ NotOlder(x.answer)'
      BY <1>3, <1>4 DEF IsRefresh, ReadBefore, NotOlder
    <2>1. PICK z : z = x.answer
      OBVIOUS
    <2>2. CASE z = NoCart
      <3>1. z.id = 0 /\ z.version = 0
        BY <2>2 DEF NoCart
      <3>2. ReadBefore(z)'
        BY <3>1 DEF ReadBefore
      <3>3. NotOlder(z)'
        BY <1>1, <1>5, <3>1 DEF ReadBefore, NotOlder
      <3> QED
        BY <2>1, <3>2, <3>3 DEF ReadBefore, NotOlder
    <2>3. CASE Addressed \in Ids /\ z.id = Addressed /\ z.version = baskets[Addressed].version
      <3>1. PICK a \in Ids : a = Addressed
        BY <2>3
      <3>2. z.id = a /\ z.version = baskets[a].version /\ baskets[a].version \in Nat /\ a # 0
        BY <1>1, <1>2, <2>3, <3>1 DEF BasketTypes
      <3>3. ReadBefore(z)'
        BY <1>1, <3>2 DEF ReadBefore
      <3>4. NotOlder(z)'
        BY <1>1, <1>5, <3>2 DEF ReadBefore, NotOlder
      <3> QED
        BY <2>1, <3>3, <3>4 DEF ReadBefore, NotOlder
    <2> QED
      BY <1>3, <2>1, <2>2, <2>3
  <1>7. Grown
    BY <1>1, NotGrown
  <1>8. mutation'.pc = "none" \/ IsMutation(mutation)'
    BY <1>1 DEF BasketTypes, IsMutation, ReadBefore, NotOlder
  <1>9. BasketTypes'
    BY <1>1, <1>4, <1>6, <1>7, <1>8, ShownTheSame DEF BasketTypes
  <1>10. \A g \in {"mount", "stale"} : refreshes'[g].pc # "none" => refreshes[g].pc # "none"
    BY <1>1, <1>4
  <1> QED
    BY <1>1, <1>9, <1>10 DEF BasketInv

\* The tab shows the answer x, the only one that is under way.
LEMMA ShowStep ==
    ASSUME BasketInv, NEW x, cart' = x, ReadBefore(x),
           UNCHANGED <<cartCookie, baskets, overlapped>>,
           mutation'.pc = "none" \/ (mutation' = mutation /\ overlapped),
           refreshes' = [f \in {"mount", "stale"} |-> refreshes'[f]],
           \A f \in {"mount", "stale"} : refreshes'[f] = refreshes[f] \/ refreshes'[f].pc = "none",
           \/ overlapped
           \/ \A f \in {"mount", "stale"} : refreshes'[f].pc = "none",
           refreshes'["stale"].pc # "none" => mutation'.pc = "refreshing"
    PROVE  BasketInv'
  <1>1. BasketTypes
    BY DEF BasketInv
  <1>2. ReadBefore(cart)'
    BY DEF ReadBefore
  <1>3. mutation'.pc = "none" \/ IsMutation(mutation)'
    BY <1>1 DEF BasketTypes, IsMutation, ReadBefore
  <1>4. \A f \in {"mount", "stale"} : IsRefresh(refreshes[f])'
    BY <1>1 DEF BasketTypes, IsRefresh, ReadBefore
  <1>5. BasketTypes'
    BY <1>1, <1>2, <1>3, <1>4 DEF BasketTypes
  <1> QED
    BY <1>5 DEF BasketInv

\* What a step may do to the basket on display.
NoRegress == ~overlapped => cart'.id # cart.id \/ cart'.version >= cart.version

LEMMA SameIsNoRegress ==
    ASSUME BasketInv, cart' = cart
    PROVE  NoRegress
  BY DEF NoRegress, BasketInv, BasketTypes, ReadBefore

LEMMA NewerIsNoRegress ==
    ASSUME BasketInv, NEW x, cart' = x, ReadBefore(x), ~overlapped => NotOlder(x)
    PROVE  NoRegress
  BY DEF NoRegress, BasketInv, BasketTypes, ReadBefore, NotOlder

LEMMA MutationArrivesStep ==
    ASSUME BasketInv, MutationArrives
    PROVE  BasketInv' /\ NoRegress
  <1>1. /\ mutation.pc = "answered" /\ UNCHANGED <<cartCookie, baskets, overlapped>> /\ BasketTypes
    BY DEF MutationArrives, BasketInv
  <1>2. IsMutation(mutation) /\ ReadBefore(cart)
    BY <1>1 DEF BasketTypes
  <1>3. refreshes["stale"].pc = "none" /\ (~overlapped => refreshes["mount"].pc = "none")
    BY <1>1 DEF BasketInv
  <1>4. refreshes = [f \in {"mount", "stale"} |-> refreshes[f]] /\ None.pc = "none"
    BY <1>1 DEF BasketTypes, None
  <1>5. CASE mutation' = None /\ UNCHANGED <<cart, refreshes>>
    <2>1. PICK x : x = cart
      OBVIOUS
    <2>2. ReadBefore(x) /\ cart' = x
      BY <1>2, <1>5, <2>1
    <2>3. BasketInv'
      BY <1>1, <1>3, <1>4, <1>5, <2>2, ShowStep
    <2> QED
      BY <1>5, <2>3, SameIsNoRegress
  <1>6. CASE mutation' = None /\ UNCHANGED refreshes /\ mutation.status = 200 /\ cart' = mutation.answer
    <2>1. PICK x : x = mutation.answer
      OBVIOUS
    <2>2. ReadBefore(x) /\ (~overlapped => NotOlder(x)) /\ cart' = x
      BY <1>1, <1>2, <1>6, <2>1 DEF IsMutation
    <2>3. BasketInv'
      BY <1>1, <1>3, <1>4, <1>6, <2>2, ShowStep
    <2> QED
      BY <2>2, <2>3, NewerIsNoRegress
  <1>7. CASE /\ refreshes' = [refreshes EXCEPT !.stale = [pc |-> "sent"]]
             /\ mutation' = AwaitRefresh /\ UNCHANGED cart
    <2>1. PICK y : y = [pc |-> "sent"]
      OBVIOUS
    <2>2. y.pc = "sent"
      BY <2>1
    <2>3. refreshes' = [refreshes EXCEPT !["stale"] = y]
      BY <1>7, <2>1
    <2>4. /\ refreshes' = [f \in {"mount", "stale"} |-> refreshes'[f]] /\ refreshes'["stale"] = y
          /\ refreshes'["mount"] = refreshes["mount"]
      BY <1>4, <2>3
    <2>5. IsRefresh(refreshes["stale"])'
      BY <2>2, <2>4 DEF IsRefresh
    <2>6. mutation' = [i \in MutationFields |-> mutation'[i]] /\ mutation'.pc = "refreshing"
      BY <1>2, <1>7 DEF IsMutation, MutationFields, AwaitRefresh
    <2>7. IsMutation(mutation)'
      BY <2>6 DEF IsMutation
    <2>8. Grown
      BY <1>1, NotGrown
    <2>9. BasketTypes'
      BY <1>1, <1>7, <2>4, <2>5, <2>7, <2>8, ShownTheSame DEF BasketTypes
    <2>10. BasketInv'
      BY <1>1, <1>3, <2>4, <2>6, <2>9 DEF BasketInv
    <2> QED
      BY <1>7, <2>10, SameIsNoRegress
  <1> QED
    BY <1>5, <1>6, <1>7 DEF MutationArrives

LEMMA RefreshArrivesStep ==
    ASSUME BasketInv, NEW f \in {"mount", "stale"}, RefreshArrives(f)
    PROVE  BasketInv' /\ NoRegress
  <1>1. /\ refreshes[f].pc = "answered" /\ UNCHANGED <<cartCookie, baskets, overlapped>> /\ BasketTypes
        /\ refreshes' = [refreshes EXCEPT ![f] = None]
    BY DEF RefreshArrives, BasketInv
  <1>2. PICK x : /\ cart' = x /\ ReadBefore(x) /\ (~overlapped => x = cart \/ NotOlder(x))
    <2>1. CASE cart' = cart
      <3>1. PICK x : x = cart
        OBVIOUS
      <3> QED
        BY <1>1, <2>1, <3>1 DEF BasketTypes
    <2>2. CASE cart' = refreshes[f].answer /\ refreshes[f].status # 502
      <3>1. PICK x : x = refreshes[f].answer
        OBVIOUS
      <3>2. IsRefresh(refreshes[f])
        BY <1>1 DEF BasketTypes
      <3>3. ReadBefore(x) /\ (~overlapped => NotOlder(x))
        BY <1>1, <2>2, <3>1, <3>2 DEF IsRefresh
      <3> QED
        BY <2>2, <3>1, <3>3
    <2> QED
      BY <2>1, <2>2 DEF RefreshArrives
  <1>3. NoRegress
    BY <1>2, SameIsNoRegress, NewerIsNoRegress
  <1>4. None.pc = "none"
    BY DEF None
  <1>5. /\ refreshes' = [g \in {"mount", "stale"} |-> refreshes'[g]] /\ refreshes'[f].pc = "none"
        /\ \A g \in {"mount", "stale"} \ {f} : refreshes'[g] = refreshes[g]
    BY <1>1, <1>4 DEF BasketTypes
  <1>6. CASE f = "stale"
    <2>1. mutation.pc = "refreshing"
      BY <1>1, <1>6 DEF BasketInv
    <2>2. mutation'.pc = "none" /\ (~overlapped => refreshes["mount"].pc = "none")
      BY <1>4, <1>6, <2>1 DEF BasketInv, RefreshArrives, Loading
    <2>3. BasketInv'
      BY <1>1, <1>2, <1>5, <1>6, <2>2, ShowStep
    <2> QED
      BY <1>3, <2>3
  <1>7. CASE f = "mount"
    <2>1. mutation' = mutation
      BY <1>7 DEF RefreshArrives
    <2>2. ~overlapped => mutation.pc = "none" /\ refreshes["stale"].pc = "none"
      BY <1>1, <1>7 DEF BasketInv
    <2>3. refreshes'["stale"].pc # "none" => mutation'.pc = "refreshing"
      BY <1>5, <1>7, <2>1 DEF BasketInv
    <2>4. BasketInv'
      BY <1>1, <1>2, <1>5, <1>7, <2>1, <2>2, <2>3, ShowStep
    <2> QED
      BY <1>3, <2>4
  <1> QED
    BY <1>6, <1>7

LEMMA BasketStep ==
    ASSUME BasketInv, [BasketNext]_basketVars
    PROVE  BasketInv' /\ [NoRegress]_basketVars
  <1>1. CASE Add \/ SetQuantity \/ RemoveLine \/ ApplyCoupon
    <2>1. PICK op, q : Start(op, q)
      BY <1>1 DEF Add, SetQuantity, RemoveLine, ApplyCoupon
    <2>2. cart' = cart
      BY <2>1 DEF Start
    <2> QED
      BY <2>1, <2>2, BasketStartStep, SameIsNoRegress
  <1>2. CASE ServeMutation \/ MutationFails \/ ChangedElsewhere
    <2>1. cart' = cart
      BY <1>2 DEF ServeMutation, MutationFails, ChangedElsewhere
    <2> QED
      BY <1>2, <2>1, ServeMutationStep, MutationFailsStep, ElsewhereStep, SameIsNoRegress
  <1>3. DOMAIN refreshes = {"mount", "stale"}
    BY DEF BasketInv, BasketTypes
  <1>4. CASE \E f \in DOMAIN refreshes : ServeRefresh(f) \/ RefreshArrives(f)
    <2>1. PICK f \in {"mount", "stale"} : ServeRefresh(f) \/ RefreshArrives(f)
      BY <1>3, <1>4
    <2>2. ServeRefresh(f) => cart' = cart
      BY DEF ServeRefresh
    <2> QED
      BY <2>1, <2>2, ServeRefreshStep, RefreshArrivesStep, SameIsNoRegress
  <1>5. CASE UNCHANGED basketVars
    <2>1. BasketTypes'
      BY <1>5 DEF basketVars, BasketInv, BasketTypes, ReadBefore, NotOlder, IsMutation, IsRefresh
    <2> QED
      BY <1>5, <2>1 DEF basketVars, BasketInv
  <1> QED
    BY <1>1, <1>2, <1>4, <1>5, MutationArrivesStep DEF BasketNext, BasketServe

\* The tab never goes back to an older state of the basket it shows, unless the
\* refresh of the mount ran beside a mutation: the controls wait for a mutation, and
\* a mutation for the refresh after CART_STALE.  For any number of mutations, failed
\* exchanges and changes on another device.
THEOREM BasketOnlyMovesOn == StorefrontSpec => BasketNeverRegresses
  <1>1. StorefrontInit => BasketInv
    BY BasketStart DEF StorefrontInit
  <1>2. BasketInv /\ [StorefrontNext]_storefrontVars => BasketInv'
    BY BasketStep, StepOfBasket
  <1>3. BasketInv /\ [StorefrontNext]_storefrontVars
            => [~overlapped => cart'.id # cart.id \/ cart'.version >= cart.version]_basketVars
    BY BasketStep, StepOfBasket DEF NoRegress
  <1> QED
    BY <1>1, <1>2, <1>3, PTL DEF StorefrontSpec, BasketNeverRegresses

-----------------------------------------------------------------------------
(* The refresh tokens: an exchange takes one live token of its session and  *)
(* gives one, and is counted when it had none to take.                      *)

LEMMA StepOfTokens == [StorefrontNext]_storefrontVars => [TokensNext]_tokenVars
  BY DEF StorefrontNext, storefrontVars, OfCheckout, OfProgress, OfBasket, OfSearch, OfToasts,
         OfSession, OfTokens, OfAccount, OfForms

RowTypes ==
    /\ state \in [TokenIds -> {"none", "ACTIVE", "USED", "REVOKED"}]
    /\ session = [t \in TokenIds |-> session[t]]
    /\ \A t \in TokenIds : state[t] # "none" => session[t] \in Sessions
    /\ lost \in [Sessions -> Nat]

TokenInv ==
    /\ RowTypes
    /\ reading = [c \in Clients |-> reading[c]]
    /\ \A c \in Clients : \A t \in reading[c] : t \in TokenIds /\ state[t] # "none"
    /\ over \subseteq Issued
    /\ LiveTokensAreAccounted

LEMMA UnmintedIsNew == \A n \in Unminted : n \in TokenIds /\ state[n] = "none"
  BY DEF Unminted

LEMMA LiveCounts == \A s : IsFiniteSet(Live(s)) /\ Cardinality(Live(s)) \in Nat
  <1> SUFFICES ASSUME NEW s PROVE IsFiniteSet(Live(s)) /\ Cardinality(Live(s)) \in Nat
    OBVIOUS
  <1>1. IsFiniteSet(Live(s))
    BY TokensAssumption, FS_Subset DEF Live
  <1> QED
    BY <1>1, FS_CardinalityType

\* The bound of one session survives a step that leaves its tokens and its end alone.
LEMMA SameSession ==
    ASSUME TokenInv, NEW s \in Sessions, Live(s)' = Live(s), s \in over' <=> s \in over, lost'[s] = lost[s]
    PROVE  Cardinality(Live(s)') <= (IF s \in over' THEN 0 ELSE 1) + lost'[s]
  <1>1. Cardinality(Live(s)) <= (IF s \in over THEN 0 ELSE 1) + lost[s]
    BY DEF TokenInv, LiveTokensAreAccounted
  <1> QED
    BY <1>1

LEMMA IssueStep ==
    ASSUME TokenInv, NEW s \in Sessions, NEW n \in TokenIds, IssueToken(s, n)
    PROVE  TokenInv'
  <1>1. /\ state[n] = "none" /\ s \notin Issued
        /\ state' = [state EXCEPT ![n] = "ACTIVE"] /\ session' = [session EXCEPT ![n] = s]
        /\ UNCHANGED <<usable, reading, over, lost, reused>>
    BY UnmintedIsNew DEF IssueToken, MintRefreshToken
  <1>2. RowTypes /\ over \subseteq Issued
    BY DEF TokenInv
  <1>3. RowTypes'
    BY <1>1, <1>2 DEF RowTypes
  <1>4. /\ reading' = [c \in Clients |-> reading'[c]]
        /\ \A c \in Clients : \A t \in reading'[c] : t \in TokenIds /\ state'[t] # "none"
    BY <1>1, <1>2 DEF TokenInv, RowTypes
  <1>5. over' \subseteq Issued'
    <2>1. Issued \subseteq Issued'
      BY <1>1, <1>2 DEF RowTypes, Issued
    <2> QED
      BY <1>1, <1>2, <2>1
  <1>6. ASSUME NEW u \in Sessions
        PROVE  Cardinality(Live(u)') <= (IF u \in over' THEN 0 ELSE 1) + lost'[u]
    <2>1. CASE u # s
      <3>1. Live(u)' = Live(u)
        BY <1>1, <1>2, <2>1 DEF RowTypes, Live
      <3> QED
        BY <1>1, <3>1, SameSession
    <2>2. CASE u = s
      <3>1. Live(u)' = {n}
        BY <1>1, <1>2, <2>2 DEF RowTypes, Live, Issued
      <3>2. Cardinality({n}) = 1
        BY FS_Singleton
      <3>3. u \notin over' /\ lost'[u] \in Nat
        BY <1>1, <1>2, <2>2 DEF RowTypes
      <3> QED
        BY <3>1, <3>2, <3>3
    <2> QED
      BY <2>1, <2>2
  <1> QED
    BY <1>3, <1>4, <1>5, <1>6 DEF TokenInv, LiveTokensAreAccounted

LEMMA RefreshStep ==
    ASSUME TokenInv, NEW c \in Clients, NEW t \in TokenIds, NEW n \in TokenIds, RefreshWrite(c, t, n)
    PROVE  TokenInv'
  <1> DEFINE s == session[t]
  <1>1. RowTypes /\ over \subseteq Issued
    BY DEF TokenInv
  <1>2. /\ state[t] # "none" /\ state[n] = "none" /\ n # t
        /\ s \in Sessions
    BY <1>1, UnmintedIsNew DEF TokenInv, RowTypes, RefreshWrite, MintRefreshToken
  <1>3. /\ state'[n] = "ACTIVE" /\ state'[t] # "ACTIVE" /\ state'[t] # "none"
        /\ \A x \in TokenIds \ {n, t} : state'[x] = state[x]
        /\ state' \in [TokenIds -> {"none", "ACTIVE", "USED", "REVOKED"}]
    BY <1>1, <1>2 DEF RowTypes, RefreshWrite, MintRefreshToken, MarkUsed
  <1>4. /\ session' = [x \in TokenIds |-> session'[x]] /\ session'[n] = s
        /\ \A x \in TokenIds \ {n} : session'[x] = session[x]
        /\ over' = over
    BY <1>1 DEF RowTypes, RefreshWrite, MintRefreshToken
  <1>5. /\ lost' \in [Sessions -> Nat] /\ \A u \in Sessions \ {s} : lost'[u] = lost[u]
        /\ lost'[s] = IF state[t] = "ACTIVE" THEN lost[s] ELSE lost[s] + 1
    BY <1>1, <1>2 DEF RowTypes, RefreshWrite
  <1>6. RowTypes'
    BY <1>1, <1>2, <1>3, <1>4, <1>5 DEF RowTypes
  <1>7. reading' = [d \in Clients |-> reading'[d]] /\ \A d \in Clients : reading'[d] \subseteq reading[d]
    BY DEF TokenInv, RefreshWrite
  <1>8. \A d \in Clients : \A x \in reading'[d] : x \in TokenIds /\ state'[x] # "none"
    BY <1>2, <1>3, <1>7 DEF TokenInv
  <1>9. over' \subseteq Issued'
    <2>1. Issued \subseteq Issued'
      BY <1>2, <1>3, <1>4 DEF Issued
    <2> QED
      BY <1>1, <1>4, <2>1
  <1> HIDE DEF s
  <1>10. ASSUME NEW u \in Sessions
         PROVE  Cardinality(Live(u)') <= (IF u \in over' THEN 0 ELSE 1) + lost'[u]
    <2>1. CASE u # s
      <3>1. Live(u)' = Live(u)
        BY <1>2, <1>3, <1>4, <2>1 DEF Live, s
      <3> QED
        BY <1>4, <1>5, <2>1, <3>1, SameSession
    <2>2. CASE u = s
      <3> DEFINE rest == Live(u) \ {t}
      <3>1. Live(u)' = rest \cup {n} /\ n \notin rest
        BY <1>2, <1>3, <1>4, <2>2 DEF Live, s
      <3>2. IsFiniteSet(rest)
        BY LiveCounts, FS_Subset
      <3>3. Cardinality(Live(u)') = Cardinality(rest) + 1 /\ Cardinality(rest) \in Nat
        BY <3>1, <3>2, FS_AddElement, FS_CardinalityType
      <3>4. CASE state[t] = "ACTIVE"
        <4>1. t \in Live(u)
          BY <2>2, <3>4 DEF Live, s
        <4>2. Cardinality(rest) = Cardinality(Live(u)) - 1
          BY <4>1, LiveCounts, FS_RemoveElement
        <4> HIDE DEF rest
        <4>3. Cardinality(Live(u)) \in Nat /\ lost'[u] = lost[u]
          BY <1>5, <2>2, <3>4, LiveCounts
        <4>4. Cardinality(Live(u)) <= (IF u \in over THEN 0 ELSE 1) + lost[u]
          BY DEF TokenInv, LiveTokensAreAccounted
        <4> QED
          BY <1>4, <3>3, <4>2, <4>3, <4>4
      <3>5. CASE state[t] # "ACTIVE"
        <4>1. rest = Live(u)
          BY <3>5 DEF Live
        <4>2. Cardinality(Live(u)') = Cardinality(Live(u)) + 1 /\ Cardinality(Live(u)) \in Nat
          BY <3>3, <4>1
        <4> HIDE DEF rest
        <4>3. lost'[u] = lost[u] + 1 /\ lost[u] \in Nat
          BY <1>1, <1>5, <2>2, <3>5 DEF RowTypes
        <4>4. Cardinality(Live(u)) <= (IF u \in over THEN 0 ELSE 1) + lost[u]
          BY DEF TokenInv, LiveTokensAreAccounted
        <4> QED
          BY <1>4, <4>2, <4>3, <4>4
      <3> QED
        BY <3>4, <3>5
    <2> QED
      BY <2>1, <2>2
  <1> QED
    BY <1>6, <1>7, <1>8, <1>9, <1>10 DEF TokenInv, LiveTokensAreAccounted

LEMMA EndSessionsStep ==
    ASSUME TokenInv, NEW sessions \in SUBSET Issued, NEW states, "ACTIVE" \in states, "none" \notin states,
           End(sessions, states)
    PROVE  TokenInv'
  <1>1. RowTypes /\ over \subseteq Issued
    BY DEF TokenInv
  <1>2. /\ state' \in [TokenIds -> {"none", "ACTIVE", "USED", "REVOKED"}]
        /\ \A t \in TokenIds :
              \/ state'[t] = state[t]
              \/ session[t] \in sessions /\ state[t] # "none" /\ state'[t] = "REVOKED"
        /\ \A t \in TokenIds : session[t] \in sessions => state'[t] # "ACTIVE"
    BY <1>1 DEF RowTypes, End, Revoked
  <1>3. over' = over \cup sessions /\ UNCHANGED <<session, reading, lost>>
    BY DEF End
  <1>4. \A t \in TokenIds : state'[t] # "none" <=> state[t] # "none"
    BY <1>2
  <1>7. RowTypes' /\ Issued' = Issued
    BY <1>1, <1>2, <1>3, <1>4 DEF RowTypes, Issued
  <1>5. /\ reading' = [c \in Clients |-> reading'[c]]
        /\ \A c \in Clients : \A t \in reading'[c] : t \in TokenIds /\ state'[t] # "none"
    BY <1>3, <1>4 DEF TokenInv
  <1>6. ASSUME NEW u \in Sessions
        PROVE  Cardinality(Live(u)') <= (IF u \in over' THEN 0 ELSE 1) + lost'[u]
    <2>1. CASE u \notin sessions
      <3>1. Live(u)' = Live(u)
        BY <1>2, <1>3, <2>1 DEF Live
      <3> QED
        BY <1>3, <2>1, <3>1, SameSession
    <2>2. CASE u \in sessions
      <3>1. Live(u)' = {}
        BY <1>2, <1>3, <2>2 DEF Live
      <3>2. Cardinality({}) = 0 /\ lost'[u] \in Nat
        BY <1>7, FS_EmptySet DEF RowTypes
      <3> QED
        BY <3>1, <3>2
    <2> QED
      BY <2>1, <2>2
  <1> QED
    BY <1>1, <1>3, <1>5, <1>6, <1>7 DEF TokenInv, LiveTokensAreAccounted

\* Steps that change no row.
LEMMA RowsAlone ==
    ASSUME TokenInv, UNCHANGED <<state, session, over, lost>>,
           reading' = [c \in Clients |-> reading'[c]],
           \A c \in Clients : \A t \in reading'[c] : t \in reading[c] \/ (t \in TokenIds /\ state[t] = "ACTIVE")
    PROVE  TokenInv'
  BY DEF TokenInv, RowTypes, Issued, LiveTokensAreAccounted, Live

LEMMA TokensStep ==
    ASSUME TokenInv, [TokensNext]_tokenVars
    PROVE  TokenInv'
  <1>0. reading = [c \in Clients |-> reading[c]]
    BY DEF TokenInv
  <1>1. ASSUME NEW c \in Clients, NEW t \in TokenIds, RefreshRead(c, t) PROVE TokenInv'
    <2>1. reading' = [reading EXCEPT ![c] = {t}] /\ state[t] = "ACTIVE" /\ UNCHANGED <<state, session, over, lost>>
      BY <1>1 DEF RefreshRead
    <2> QED
      BY <1>0, <2>1, RowsAlone
  <1>2. ASSUME NEW c \in Clients, RefreshDisabled(c) PROVE TokenInv'
    <2>1. reading' = [reading EXCEPT ![c] = {}] /\ UNCHANGED <<state, session, over, lost>>
      BY <1>2 DEF RefreshDisabled
    <2> QED
      BY <1>0, <2>1, RowsAlone
  <1>3. CASE (\E t \in TokenIds : RefreshReused(t)) \/ SetEnabled \/ UNCHANGED tokenVars
    <2>1. UNCHANGED <<state, session, over, lost, reading>>
      BY <1>3 DEF RefreshReused, SetEnabled, tokenVars
    <2> QED
      BY <1>0, <2>1, RowsAlone
  <1>4. ASSUME NEW t \in TokenIds, RevokeByToken(t) PROVE TokenInv'
    <2>1. session[t] \in Issued
      BY <1>4 DEF RevokeByToken, Issued
    <2> QED
      BY <1>4, <2>1, EndSessionsStep DEF RevokeByToken
  <1>5. CASE RevokeAllForUser
    BY <1>5, EndSessionsStep DEF RevokeAllForUser
  <1>6. ASSUME NEW s \in Sessions, ChangePasswordOf(s) PROVE TokenInv'
    BY <1>6, EndSessionsStep DEF ChangePasswordOf
  <1> QED
    BY <1>1, <1>2, <1>3, <1>4, <1>5, <1>6, IssueStep, RefreshStep DEF TokensNext

LEMMA TokensStart == TokensInit => TokenInv
  <1> SUFFICES ASSUME TokensInit PROVE TokenInv
    OBVIOUS
  <1>1. RowTypes /\ reading = [c \in Clients |-> reading[c]] /\ \A c \in Clients : reading[c] = {}
    BY DEF TokensInit, RowTypes
  <1>2. \A s : Live(s) = {}
    BY DEF TokensInit, Live
  <1>3. Cardinality({}) = 0 /\ \A s \in Sessions : lost[s] = 0
    BY FS_EmptySet DEF TokensInit
  <1> QED
    BY <1>1, <1>2, <1>3 DEF TokensInit, TokenInv, LiveTokensAreAccounted

\* A session of identity-service has one live refresh token, and none once it was
\* ended, but for one more for each exchange that lost the race markUsed leaves open,
\* for any number of tokens, sessions and requests at once.
THEOREM TokensAreAccounted == StorefrontSpec => []LiveTokensAreAccounted
  <1>1. StorefrontInit => TokenInv
    BY TokensStart DEF StorefrontInit
  <1>2. TokenInv /\ [StorefrontNext]_storefrontVars => TokenInv'
    BY TokensStep, StepOfTokens
  <1>3. TokenInv => LiveTokensAreAccounted
    BY DEF TokenInv
  <1> QED
    BY <1>1, <1>2, <1>3, PTL DEF StorefrontSpec
=============================================================================
