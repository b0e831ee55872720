-------------------------------- MODULE Cart --------------------------------
(***************************************************************************)
(* cart-service: carts in Redis, changed by concurrent requests with a     *)
(* compare-and-set on a version (cart.ts), priced behind a circuit breaker *)
(* (CircuitBreaker), merged at login.  One customer, who shops on several  *)
(* devices and signs in.  Every await of a handler is a step boundary.     *)
(***************************************************************************)
EXTENDS CircuitBreaker, FiniteSetsExt

CONSTANTS
    CartIds,       \* ids that create() may mint
    Skus, Coupons,
    MaxQty,        \* MAX_QTY_PER_LINE
    MaxLines,      \* MAX_LINES
    MaxRequests    \* bound: requests that arrive

ASSUME CartAssumption ==
    /\ MaxQty \in Nat \ {0} /\ MaxLines \in Nat \ {0}
    /\ MaxRequests \in Nat
    /\ "none" \notin CartIds

VARIABLES
    stored,        \* the hash cart:<id>; version 0 stands for no key
    userIndex,     \* cart:user:<userId>, a cart id or "none"
    created,       \* ids already minted
    gone,          \* history: carts that were deleted or expired
    rq,            \* the requests under way
    arrived        \* bound: requests so far

storeVars == <<stored, userIndex, created, gone>>
vars == <<storeVars, rq, arrived, breakerVars>>

Lines == [Skus -> 0 .. MaxQty]
Contents == [owned : BOOLEAN, lines : Lines, coupons : SUBSET Coupons]
NoLines == [s \in Skus |-> 0]
Empty == [owned |-> FALSE, lines |-> NoLines, coupons |-> {}]
NoCart == [version |-> 0]
Snapshot(c) == IF stored[c].version = 0 THEN [version |-> 0, content |-> Empty] ELSE stored[c]
Snapshots == [version : Nat, content : Contents]

Idle == [pc |-> "idle", cart |-> "none", other |-> "none", new |-> Empty, version |-> 0]
Phases == {"idle", "cas", "create", "index", "loadUser", "loadCart", "adopt", "union", "del",
           "price", "pricing"}

TypeOK ==
    /\ BreakerTypeOK
    /\ stored \in [CartIds -> {NoCart} \union [version : Nat \ {0}, content : Contents]]
    /\ userIndex \in CartIds \union {"none"}
    /\ created \in SUBSET CartIds /\ gone \in SUBSET created
    /\ rq \in [Requests -> [pc : Phases, cart : CartIds \union {"none"},
                            other : CartIds \union {"none"}, new : Contents, version : Nat]]
    /\ arrived \in 0 .. MaxRequests

Init ==
    /\ BreakerInit
    /\ stored = [c \in CartIds |-> NoCart]
    /\ userIndex = "none"
    /\ created = {} /\ gone = {}
    /\ rq = [r \in Requests |-> Idle]
    /\ arrived = 0

-----------------------------------------------------------------------------
Held(lines) == {s \in Skus : lines[s] > 0}

(* Mutant: the script writes without comparing. *)
VersionIgnored(c, version) == TRUE

(* The Lua script's comparison: an absent key takes any version. *)
VersionMatches(c, version) == stored[c].version \in {0, version}

(* The script's write: the version is counted up from what is there. *)
Written(c, content) ==
    [stored EXCEPT ![c] = [version |-> stored[c].version + 1, content |-> content]]

Arrive(r) == rq[r].pc = "idle" /\ arrived < MaxRequests /\ arrived' = arrived + 1
Goto(r, next) == rq' = [rq EXCEPT ![r] = next]
Finish(r) == Goto(r, Idle)

(* A request whose load and checks are done: the new content is CAS'ed next. *)
Proceed(r, c, content) ==
    Goto(r, [Idle EXCEPT !.pc = "cas", !.cart = c, !.new = content,
             !.version = stored[c].version])

(* create(): a fresh id, the hash, the user's index, then the prices. *)
CreateCart(r, owned) ==
    /\ Arrive(r)
    /\ \E c \in CartIds \ created :
         /\ created' = created \union {c}
         /\ Goto(r, [Idle EXCEPT !.pc = "create", !.cart = c, !.new.owned = owned])
    /\ UNCHANGED <<stored, userIndex, gone, breakerVars>>

CreateWrite(r) ==
    /\ rq[r].pc = "create"
    /\ stored' = Written(rq[r].cart, rq[r].new)
    /\ Goto(r, [rq[r] EXCEPT !.pc = IF rq[r].new.owned THEN "index" ELSE "price"])
    /\ UNCHANGED <<userIndex, created, gone, arrived, breakerVars>>

(* redis.set(userIndex(userId), cartId) at the end of create() and of merge()
   when it adopts the anonymous cart. *)
SetIndex(r) ==
    /\ rq[r].pc = "index"
    /\ userIndex' = rq[r].cart
    /\ Goto(r, [rq[r] EXCEPT !.pc = "price"])
    /\ UNCHANGED <<stored, created, gone, arrived, breakerVars>>

(* get(): load, then the prices. *)
Get(r, c) ==
    /\ Arrive(r)
    /\ stored[c].version > 0
    /\ Goto(r, [Idle EXCEPT !.pc = "price", !.cart = c])
    /\ UNCHANGED <<storeVars, breakerVars>>

(* Mutant: an existing line is raised past the limit. *)
AddedUnclamped(lines, sku, qty) ==
    IF lines[sku] > 0 \/ Cardinality(Held(lines)) < MaxLines
    THEN {[lines EXCEPT ![sku] = @ + qty]}
    ELSE {}

(* The lines addLine() may leave for a SKU of an active product; none if the
   cart is full. *)
Added(lines, sku, qty) ==
    IF lines[sku] > 0 \/ Cardinality(Held(lines)) < MaxLines
    THEN {[lines EXCEPT ![sku] = Min({@ + qty, MaxQty})]}
    ELSE {}

(* addLine() up to the script, for a request that holds the current version
   (any other gets CartStale).  Whether the catalog knows the SKU as active is
   the catalog's affair; where it does not, the request ends here. *)
AddLine(r, c, sku, qty) ==
    /\ Arrive(r)
    /\ stored[c].version > 0
    /\ \E lines \in Added(stored[c].content.lines, sku, qty) :
         Proceed(r, c, [stored[c].content EXCEPT !.lines = lines])
    /\ UNCHANGED <<storeVars, breakerVars>>

(* updateLine(): zero removes the line; another quantity needs one. *)
UpdateLine(r, c, sku, qty) ==
    /\ Arrive(r)
    /\ stored[c].version > 0
    /\ qty = 0 \/ stored[c].content.lines[sku] > 0
    /\ Proceed(r, c, [stored[c].content EXCEPT !.lines[sku] = Min({qty, MaxQty})])
    /\ UNCHANGED <<storeVars, breakerVars>>

ApplyCoupon(r, c, code) ==
    /\ Arrive(r)
    /\ stored[c].version > 0
    /\ Proceed(r, c, [stored[c].content EXCEPT !.coupons = @ \union {code}])
    /\ UNCHANGED <<storeVars, breakerVars>>

(* The CAS of the three mutations, which end with CartStale when it fails. *)
Cas(r) ==
    /\ rq[r].pc = "cas"
    /\ \/ /\ VersionMatches(rq[r].cart, rq[r].version)
          /\ stored' = Written(rq[r].cart, rq[r].new)
          /\ Goto(r, [Idle EXCEPT !.pc = "price", !.cart = rq[r].cart])
       \/ /\ ~VersionMatches(rq[r].cart, rq[r].version)
          /\ Finish(r)
          /\ UNCHANGED stored
    /\ UNCHANGED <<userIndex, created, gone, arrived, breakerVars>>

-----------------------------------------------------------------------------
(* merge(anonCartId, userId): load the anonymous cart, ... *)
Merge(r, anon) ==
    /\ Arrive(r)
    /\ Goto(r, [Idle EXCEPT !.pc = "loadUser", !.other = anon,
                !.version = stored[anon].version, !.new = Snapshot(anon).content])
    /\ UNCHANGED <<storeVars, breakerVars>>

(* The contents merge() may compute: the larger quantity wins, and lines of the
   anonymous cart are appended while there is room. *)
Union(cur, anon) ==
    LET room  == MaxLines - Cardinality(Held(cur.lines))
        extra == Held(anon.lines) \ Held(cur.lines)
        fits  == {k \in SUBSET extra : Cardinality(k) = Min({room, Cardinality(extra)})}
    IN  {[cur EXCEPT
            !.lines = [s \in Skus |-> IF cur.lines[s] > 0 THEN Max({cur.lines[s], anon.lines[s]})
                                      ELSE IF s \in k THEN anon.lines[s] ELSE 0],
            !.coupons = @ \union anon.coupons] : k \in fits}

(* ... then the id of the user's cart from the index, ... *)
MergeReadIndex(r) ==
    /\ rq[r].pc = "loadUser"
    /\ Goto(r, [rq[r] EXCEPT !.pc = "loadCart", !.cart = userIndex])
    /\ UNCHANGED <<storeVars, arrived, breakerVars>>

(* ... then that cart, and decide. *)
MergeLoadUser(r) ==
    LET q == rq[r]
        existing == IF q.cart = "none" THEN NoCart ELSE stored[q.cart]
    IN  /\ q.pc = "loadCart"
        /\ \/ /\ q.version = 0 /\ existing.version = 0
              /\ \E c \in CartIds \ created :
                   /\ created' = created \union {c}
                   /\ Goto(r, [Idle EXCEPT !.pc = "create", !.cart = c, !.new.owned = TRUE])
           \/ /\ q.version > 0 /\ existing.version = 0
              /\ Goto(r, [q EXCEPT !.pc = "adopt", !.cart = q.other, !.new.owned = TRUE])
              /\ UNCHANGED created
           \/ /\ q.version = 0 /\ existing.version > 0
              /\ Goto(r, [Idle EXCEPT !.pc = "price", !.cart = q.cart])
              /\ UNCHANGED created
           \/ /\ q.version > 0 /\ existing.version > 0
              /\ \E new \in Union(existing.content, q.new) :
                   Goto(r, [q EXCEPT !.pc = "union", !.new = new,
                            !.version = existing.version])
              /\ UNCHANGED created
        /\ UNCHANGED <<stored, userIndex, gone, arrived, breakerVars>>

(* The CAS of merge(), whose result is not looked at; adopting goes on to the
   index, a union to the DEL of the anonymous cart. *)
MergeWrite(r) ==
    /\ rq[r].pc \in {"adopt", "union"}
    /\ stored' = IF VersionMatches(rq[r].cart, rq[r].version)
                 THEN Written(rq[r].cart, rq[r].new) ELSE stored
    /\ Goto(r, [rq[r] EXCEPT !.pc = IF @ = "adopt" THEN "index" ELSE "del"])
    /\ UNCHANGED <<userIndex, created, gone, arrived, breakerVars>>

MergeDelete(r) ==
    /\ rq[r].pc = "del"
    /\ stored' = [stored EXCEPT ![rq[r].other] = NoCart]
    /\ gone' = gone \union {rq[r].other}
    /\ Goto(r, [Idle EXCEPT !.pc = "price", !.cart = rq[r].cart])
    /\ UNCHANGED <<userIndex, created, arrived, breakerVars>>

-----------------------------------------------------------------------------
(* degradedCart(): without the engine the answer carries list prices. *)
Degrade(r) == Finish(r)

(* price(): the engine is asked when the breaker allows. *)
Price(r) ==
    /\ rq[r].pc = "price"
    /\ \/ StartCall(r) /\ Goto(r, [Idle EXCEPT !.pc = "pricing"])
       \/ ~Allow /\ Degrade(r) /\ UNCHANGED breakerVars
    /\ UNCHANGED <<storeVars, arrived>>

(* The engine's answer, or its deadline. *)
Priced(r, success) ==
    /\ rq[r].pc = "pricing"
    /\ Record(r, success)
    /\ IF success THEN Finish(r) ELSE Degrade(r)
    /\ UNCHANGED <<storeVars, arrived>>

(* A call to Redis fails or times out: the request ends with a 500. *)
Fail(r) ==
    /\ rq[r].pc \notin {"idle", "price", "pricing"}
    /\ Finish(r)
    /\ UNCHANGED <<storeVars, arrived, breakerVars>>

(* The pod restarts: its requests and its breaker are gone. *)
Restart ==
    /\ \E r \in Requests : rq[r].pc # "idle"
    /\ rq' = [r \in Requests |-> Idle]
    /\ state' = "closed" /\ failures' = <<>> /\ openedFor' = 0
    /\ calls' = [r \in Requests |-> NoCall]
    /\ UNCHANGED <<storeVars, arrived>>

(* The TTL of a cart, or of the index, which only create() and merge() renew. *)
Expire(c) ==
    /\ stored[c].version > 0
    /\ stored' = [stored EXCEPT ![c] = NoCart]
    /\ gone' = gone \union {c}
    /\ UNCHANGED <<userIndex, created, rq, arrived, breakerVars>>

ExpireIndex ==
    /\ userIndex # "none"
    /\ userIndex' = "none"
    /\ UNCHANGED <<stored, created, gone, rq, arrived, breakerVars>>

PassTime == Tick /\ UNCHANGED <<storeVars, rq, arrived>>

Serve(r) ==
    \/ \E owned \in BOOLEAN : CreateCart(r, owned)
    \/ \E c \in created : \/ Get(r, c)
                          \/ \E sku \in Skus, qty \in 0 .. MaxQty :
                               \/ qty > 0 /\ AddLine(r, c, sku, qty)
                               \/ UpdateLine(r, c, sku, qty)
                          \/ \E code \in Coupons : ApplyCoupon(r, c, code)
                          \/ Merge(r, c)
    \/ CreateWrite(r) \/ SetIndex(r) \/ Cas(r)
    \/ MergeReadIndex(r) \/ MergeLoadUser(r) \/ MergeWrite(r) \/ MergeDelete(r)
    \/ Price(r) \/ (\E ok \in BOOLEAN : Priced(r, ok)) \/ Fail(r)

Next ==
    \/ \E r \in Requests : Serve(r)
    \/ \E c \in CartIds : Expire(c)
    \/ ExpireIndex \/ Restart \/ PassTime

Spec == Init /\ [][Next]_vars

-----------------------------------------------------------------------------
L == INSTANCE LinearCart WITH carts <- stored

(* Concurrent devices see a cart change one operation at a time: every write is
   an operation on the content it replaces, so the script's version check keeps
   any device from discarding another's addition (cart.ts, lines 17-20), until
   the cart is deleted. *)
CartsAreLinear == L!Spec

(* merge() is "union, not replace" (cart.ts, lines 241-244): when it deletes the
   anonymous cart, every line in it is in another cart of the customer. *)
MergeKeepsLines ==
    [][\A r \in Requests :
         rq[r].pc = "del" /\ rq'[r].pc = "price" =>
            \A s \in Held(Snapshot(rq[r].other).content.lines) :
               \E c \in CartIds : stored'[c].version > 0 /\ stored'[c].content.lines[s] > 0]_vars
=============================================================================
