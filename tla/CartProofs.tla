----------------------------- MODULE CartProofs -----------------------------
(***************************************************************************)
(* Proofs about module Cart, for every number of requests, carts, SKUs and *)
(* coupons and every setting of the breaker.                               *)
(***************************************************************************)
EXTENDS Cart, SequenceTheorems, TLAPS

LEMMA MinOfTwo ==
    ASSUME NEW a \in Nat, NEW b \in Nat
    PROVE  Min({a, b}) \in {a, b} /\ Min({a, b}) <= a /\ Min({a, b}) <= b
  <1>1. \E x \in {a, b} : \A y \in {a, b} : x <= y
    OBVIOUS
  <1> QED
    BY <1>1 DEF Min

LEMMA MaxOfTwo ==
    ASSUME NEW a \in Nat, NEW b \in Nat
    PROVE  Max({a, b}) \in {a, b} /\ Max({a, b}) >= a /\ Max({a, b}) >= b
  <1>1. \E x \in {a, b} : \A y \in {a, b} : x >= y
    OBVIOUS
  <1> QED
    BY <1>1 DEF Max
-----------------------------------------------------------------------------
(* The breaker.                                                            *)

LEMMA PushType ==
    ASSUME BreakerTypeOK, NEW failed \in BOOLEAN
    PROVE  Push(failures, failed) \in Seq(BOOLEAN) /\ Len(Push(failures, failed)) <= WindowSize
  <1> DEFINE longer == Append(failures, failed)
  <1>1. longer \in Seq(BOOLEAN) /\ Len(longer) = Len(failures) + 1 /\ Len(failures) \in Nat
    BY AppendProperties DEF BreakerTypeOK
  <1>2. longer # <<>>
    BY <1>1
  <1>3. Tail(longer) \in Seq(BOOLEAN) /\ Len(Tail(longer)) = Len(longer) - 1
    BY <1>1, <1>2, HeadTailProperties
  <1>4. Push(failures, failed) = IF Len(longer) > WindowSize THEN Tail(longer) ELSE longer
    BY DEF Push
  <1>5. Len(failures) <= WindowSize /\ WindowSize \in Nat
    BY BreakerAssumption DEF BreakerTypeOK
  <1> HIDE DEF longer
  <1>6. CASE Len(longer) > WindowSize
    BY <1>1, <1>3, <1>4, <1>5, <1>6
  <1>7. CASE ~(Len(longer) > WindowSize)
    BY <1>1, <1>4, <1>5, <1>7
  <1> QED
    BY <1>6, <1>7

BreakerStep(r) == StartCall(r) \/ \E ok \in BOOLEAN : Record(r, ok)

LEMMA BreakerTypes ==
    ASSUME BreakerTypeOK, NEW r \in Requests, BreakerStep(r) \/ Tick \/ UNCHANGED breakerVars
    PROVE  BreakerTypeOK'
  <1>1. CASE StartCall(r)
    BY <1>1, BreakerAssumption DEF StartCall, BreakerTypeOK
  <1>2. ASSUME NEW ok \in BOOLEAN, Record(r, ok)
        PROVE  BreakerTypeOK'
    <2>1. NoCall \in [age : 0 .. Deadline, probe : BOOLEAN, live : BOOLEAN]
      BY BreakerAssumption DEF NoCall
    <2>2. calls' \in [Requests -> [age : 0 .. Deadline, probe : BOOLEAN, live : BOOLEAN]]
      BY <1>2, <2>1 DEF Record, BreakerTypeOK
    <2>3. failures' \in Seq(BOOLEAN) /\ Len(failures') <= WindowSize
      <3>1. CASE state = "half-open"
        <4>1. failures' = <<>> \/ failures' = failures
          BY <1>2, <3>1 DEF Record
        <4>2. <<>> \in Seq(BOOLEAN) /\ Len(<<>>) <= WindowSize
          BY BreakerAssumption
        <4> QED
          BY <4>1, <4>2 DEF BreakerTypeOK
      <3>2. CASE state # "half-open"
        <4>1. (~ok) \in BOOLEAN
          OBVIOUS
        <4> QED
          BY <1>2, <3>2, <4>1, PushType DEF Record
      <3> QED
        BY <3>1, <3>2
    <2>4. state' \in {"closed", "open", "half-open"} /\ openedFor' \in 0 .. ProbeAfter
      BY <1>2, BreakerAssumption DEF Record, BreakerTypeOK
    <2> QED
      BY <2>2, <2>3, <2>4 DEF BreakerTypeOK
  <1>3. CASE Tick
    <2>1. calls' \in [Requests -> [age : 0 .. Deadline, probe : BOOLEAN, live : BOOLEAN]]
      <3>1. ASSUME NEW q \in Requests
            PROVE  (IF Live(q) THEN [calls[q] EXCEPT !.age = @ + 1] ELSE calls[q])
                     \in [age : 0 .. Deadline, probe : BOOLEAN, live : BOOLEAN]
        <4>1. calls[q] \in [age : 0 .. Deadline, probe : BOOLEAN, live : BOOLEAN]
          BY DEF BreakerTypeOK
        <4>2. CASE ~Live(q)
          BY <4>1, <4>2
        <4>3. CASE Live(q)
          <5>1. calls[q].age + 1 \in 0 .. Deadline
            BY <1>3, <4>1, <4>3, BreakerAssumption DEF Tick
          <5> QED
            BY <4>1, <4>3, <5>1
        <4> QED
          BY <4>2, <4>3
      <3> QED
        BY <1>3, <3>1 DEF Tick
    <2>2. openedFor' \in 0 .. ProbeAfter
      BY <1>3, BreakerAssumption DEF Tick, BreakerTypeOK, ProbeDue
    <2> QED
      BY <1>3, <2>1, <2>2 DEF Tick, BreakerTypeOK
  <1>4. CASE UNCHANGED breakerVars
    BY <1>4 DEF breakerVars, BreakerTypeOK
  <1> QED
    BY <1>1, <1>2, <1>3, <1>4 DEF BreakerStep
-----------------------------------------------------------------------------
(* Types of the carts and of the requests.                                 *)

Ids == CartIds \union {"none"}
Req == [pc : Phases, cart : Ids, other : Ids, new : Contents, version : Nat]
Carts == [version : Nat \ {0}, content : Contents]

LEMMA EmptyType == NoLines \in Lines /\ Empty \in Contents /\ Idle \in Req
  <1>1. NoLines \in Lines
    BY CartAssumption DEF NoLines, Lines
  <1>2. Empty \in Contents
    BY <1>1 DEF Empty, Contents
  <1> QED
    BY <1>1, <1>2 DEF Idle, Req, Ids, Phases

LEMMA StoredFacts ==
    ASSUME TypeOK, NEW c \in CartIds
    PROVE  /\ stored[c] = NoCart \/ stored[c] \in Carts
           /\ NoCart.version = 0
           /\ stored[c].version \in Nat
           /\ stored[c].version # 0 <=> stored[c] \in Carts
           /\ stored[c].version > 0 <=> stored[c] \in Carts
           /\ stored[c] \in Carts => stored[c].content \in Contents
  BY DEF TypeOK, NoCart, Carts

LEMMA ReqFacts ==
    ASSUME TypeOK, NEW r \in Requests
    PROVE  /\ rq[r] \in Req
           /\ rq[r].pc \in Phases /\ rq[r].cart \in Ids /\ rq[r].other \in Ids
           /\ rq[r].new \in Contents /\ rq[r].version \in Nat
  BY DEF TypeOK, Req, Ids

LEMMA GotoType ==
    ASSUME TypeOK, NEW r \in Requests, NEW next \in Req, Goto(r, next)
    PROVE  rq' \in [Requests -> Req]
  BY DEF TypeOK, Goto, Req, Ids

LEMMA WrittenType ==
    ASSUME TypeOK, NEW c \in CartIds, NEW content \in Contents
    PROVE  Written(c, content) \in [CartIds -> {NoCart} \union Carts]
  <1>1. [version |-> stored[c].version + 1, content |-> content] \in Carts
    BY StoredFacts DEF Carts
  <1> QED
    BY <1>1 DEF Written, TypeOK, Carts

\* TypeOK, with the names of this module.
LEMMA TypeByParts ==
    TypeOK <=> /\ BreakerTypeOK
               /\ stored \in [CartIds -> {NoCart} \union Carts]
               /\ userIndex \in Ids
               /\ created \in SUBSET CartIds /\ gone \in SUBSET created
               /\ rq \in [Requests -> Req]
               /\ arrived \in 0 .. MaxRequests
  BY DEF TypeOK, Carts, Ids, Req

LEMMA AddedType ==
    ASSUME NEW content \in Contents, NEW sku \in Skus, NEW qty \in 0 .. MaxQty,
           NEW lines \in Added(content.lines, sku, qty)
    PROVE  /\ [content EXCEPT !.lines = lines] \in Contents
           /\ L!SetLine(content, [content EXCEPT !.lines = lines])
  <1> DEFINE q == Min({content.lines[sku] + qty, MaxQty})
  <1>1. content.lines \in Lines /\ content.lines[sku] \in 0 .. MaxQty /\ MaxQty \in Nat
    BY CartAssumption DEF Contents, Lines
  <1>2. content.lines[sku] + qty \in Nat
    BY <1>1
  <1>3. q \in 0 .. MaxQty
    BY <1>1, <1>2, MinOfTwo
  <1>4. lines = [content.lines EXCEPT ![sku] = q]
    BY DEF Added
  <1> HIDE DEF q
  <1>5. lines \in Lines
    BY <1>1, <1>3, <1>4 DEF Lines
  <1>6. [content EXCEPT !.lines = lines] = [content EXCEPT !.lines[sku] = q]
    BY <1>4 DEF Contents
  <1>7. L!SetLine(content, [content EXCEPT !.lines = lines])
    BY <1>3, <1>6 DEF L!SetLine
  <1> QED
    BY <1>5, <1>7 DEF Contents

LEMMA UpdatedType ==
    ASSUME NEW content \in Contents, NEW sku \in Skus, NEW qty \in 0 .. MaxQty
    PROVE  /\ Min({qty, MaxQty}) \in 0 .. MaxQty
           /\ [content EXCEPT !.lines[sku] = Min({qty, MaxQty})] \in Contents
  <1> DEFINE q == Min({qty, MaxQty})
  <1>1. q \in 0 .. MaxQty
    BY CartAssumption, MinOfTwo
  <1> HIDE DEF q
  <1>2. [content.lines EXCEPT ![sku] = q] \in Lines
    BY <1>1 DEF Contents, Lines
  <1>3. [content EXCEPT !.lines[sku] = q] \in Contents
    BY <1>2 DEF Contents
  <1> QED
    BY <1>1, <1>3 DEF q

LEMMA UnionType ==
    ASSUME NEW cur \in Contents, NEW anon \in Contents, NEW new \in Union(cur, anon)
    PROVE  /\ new \in Contents /\ new.owned = cur.owned /\ cur.coupons \subseteq new.coupons
           /\ \A s \in Skus : new.lines[s] >= cur.lines[s]
  <1>1. PICK k \in SUBSET Skus :
          new = [cur EXCEPT
            !.lines = [s \in Skus |-> IF cur.lines[s] > 0 THEN Max({cur.lines[s], anon.lines[s]})
                                      ELSE IF s \in k THEN anon.lines[s] ELSE 0],
            !.coupons = @ \union anon.coupons]
    BY DEF Union, Held
  <1>2. /\ new.owned = cur.owned /\ new.coupons = cur.coupons \union anon.coupons
        /\ new.lines = [s \in Skus |-> IF cur.lines[s] > 0 THEN Max({cur.lines[s], anon.lines[s]})
                                        ELSE IF s \in k THEN anon.lines[s] ELSE 0]
        /\ new = [owned |-> new.owned, lines |-> new.lines, coupons |-> new.coupons]
    BY <1>1 DEF Contents
  <1>3. \A s \in Skus : cur.lines[s] \in 0 .. MaxQty /\ anon.lines[s] \in 0 .. MaxQty
    BY DEF Contents, Lines
  <1>4. \A s \in Skus : new.lines[s] \in 0 .. MaxQty /\ new.lines[s] >= cur.lines[s]
    <2> SUFFICES ASSUME NEW s \in Skus
                 PROVE  new.lines[s] \in 0 .. MaxQty /\ new.lines[s] >= cur.lines[s]
      OBVIOUS
    <2>1. MaxQty \in Nat /\ cur.lines[s] \in 0 .. MaxQty /\ anon.lines[s] \in 0 .. MaxQty
      BY <1>3, CartAssumption
    <2>2. CASE cur.lines[s] > 0
      <3>1. new.lines[s] = Max({cur.lines[s], anon.lines[s]})
        BY <1>2, <2>2
      <3> QED
        BY <2>1, <3>1, MaxOfTwo
    <2>3. CASE ~(cur.lines[s] > 0)
      <3>1. new.lines[s] = anon.lines[s] \/ new.lines[s] = 0
        BY <1>2, <2>3
      <3> QED
        BY <2>1, <2>3, <3>1
    <2> QED
      BY <2>2, <2>3
  <1>5. new.lines \in Lines
    BY <1>2, <1>4 DEF Lines
  <1> QED
    BY <1>2, <1>4, <1>5 DEF Contents

\* The content a change of a cart proceeds with is an operation on what it read.
LEMMA ProceedType ==
    ASSUME TypeOK, NEW r \in Requests, NEW c \in CartIds, NEW content \in Contents,
           Proceed(r, c, content)
    PROVE  rq' \in [Requests -> Req]
  <1>1. [Idle EXCEPT !.pc = "cas", !.cart = c, !.new = content, !.version = stored[c].version] \in Req
    BY EmptyType, StoredFacts DEF Req, Ids, Phases
  <1> QED
    BY <1>1, GotoType DEF Proceed

LEMMA IdleWith ==
    ASSUME NEW p \in Phases, NEW c \in Ids, NEW owned \in BOOLEAN
    PROVE  /\ [Idle EXCEPT !.pc = p] \in Req
           /\ [Idle EXCEPT !.pc = p, !.cart = c] \in Req
           /\ [Idle EXCEPT !.pc = p, !.cart = c, !.new.owned = owned] \in Req
  <1>1. [Idle.new EXCEPT !.owned = owned] \in Contents
    BY EmptyType DEF Contents, Req
  <1> QED
    BY <1>1, EmptyType DEF Req

LEMMA ReqWith ==
    ASSUME NEW q \in Req, NEW p \in Phases
    PROVE  [q EXCEPT !.pc = p] \in Req
  BY DEF Req

LEMMA ArrivalTypes ==
    ASSUME TypeOK, NEW r \in Requests, NEW c \in created,
           \/ Get(r, c) \/ Merge(r, c)
           \/ \E sku \in Skus, qty \in 0 .. MaxQty : AddLine(r, c, sku, qty) \/ UpdateLine(r, c, sku, qty)
           \/ \E code \in Coupons : ApplyCoupon(r, c, code)
    PROVE  TypeOK'
  <1>1. c \in CartIds
    BY DEF TypeOK
  <1>2. arrived' \in 0 .. MaxRequests /\ UNCHANGED <<storeVars, breakerVars>>
    <2>1. /\ arrived < MaxRequests /\ arrived' = arrived + 1
          /\ UNCHANGED <<storeVars, breakerVars>>
      BY DEF Get, Merge, AddLine, UpdateLine, ApplyCoupon, Arrive
    <2> QED
      BY <2>1, CartAssumption DEF TypeOK
  <1>3. rq' \in [Requests -> Req]
    <2>1. CASE Get(r, c)
      BY <1>1, <2>1, IdleWith, GotoType DEF Get, Ids, Phases
    <2>2. CASE Merge(r, c)
      <3>1. Snapshot(c).content \in Contents /\ stored[c].version \in Nat
        BY <1>1, StoredFacts, EmptyType DEF Snapshot
      <3>2. [Idle EXCEPT !.pc = "loadUser", !.other = c, !.version = stored[c].version,
                         !.new = Snapshot(c).content] \in Req
        BY <1>1, <3>1, EmptyType DEF Req, Ids, Phases
      <3> QED
        BY <2>2, <3>2, GotoType DEF Merge
    <2>3. ASSUME NEW sku \in Skus, NEW qty \in 0 .. MaxQty, AddLine(r, c, sku, qty)
          PROVE  rq' \in [Requests -> Req]
      <3>1. stored[c].content \in Contents
        BY <1>1, <2>3, StoredFacts DEF AddLine
      <3> QED
        BY <1>1, <2>3, <3>1, AddedType, ProceedType DEF AddLine
    <2>4. ASSUME NEW sku \in Skus, NEW qty \in 0 .. MaxQty, UpdateLine(r, c, sku, qty)
          PROVE  rq' \in [Requests -> Req]
      <3>1. stored[c].content \in Contents
        BY <1>1, <2>4, StoredFacts DEF UpdateLine
      <3> QED
        BY <1>1, <2>4, <3>1, UpdatedType, ProceedType DEF UpdateLine
    <2>5. ASSUME NEW code \in Coupons, ApplyCoupon(r, c, code)
          PROVE  rq' \in [Requests -> Req]
      <3>1. stored[c].content \in Contents
        BY <1>1, <2>5, StoredFacts DEF ApplyCoupon
      <3>2. [stored[c].content EXCEPT !.coupons = @ \union {code}] \in Contents
        BY <3>1 DEF Contents
      <3> QED
        BY <1>1, <2>5, <3>2, ProceedType DEF ApplyCoupon
    <2> QED
      BY <2>1, <2>2, <2>3, <2>4, <2>5
  <1> QED
    BY <1>2, <1>3, TypeByParts DEF TypeOK, storeVars, breakerVars, BreakerTypeOK, Req, Ids, Carts

-----------------------------------------------------------------------------
(* The inductive invariant behind the refinement.  It speaks of the store  *)
(* s, the deleted carts g, the minted ids k and a request q.               *)

\* c was written at least once.
Begun(s, g, c) == s[c].version > 0 \/ c \in g

\* A request read version v of c.  Unless c was deleted since, the version can
\* only have grown; Unchanged says that it has not.
Current(s, g, c, v) == c \notin g => s[c].version >= v
Unchanged(s, g, c, v) == c \notin g /\ s[c].version = v

ReqInv(s, g, k, q) ==
    /\ q.pc = "create" =>
          /\ q.cart \in k /\ q.cart \in CartIds /\ ~Begun(s, g, q.cart)
          /\ \E owned \in BOOLEAN : q.new = [Empty EXCEPT !.owned = owned]
    /\ q.pc \in {"cas", "adopt", "union"} =>
          /\ q.cart \in CartIds /\ Begun(s, g, q.cart)
          /\ q.version > 0 /\ Current(s, g, q.cart, q.version)
          /\ Unchanged(s, g, q.cart, q.version) => L!Operation(s[q.cart].content, q.new)
    /\ q.pc \in {"loadUser", "loadCart"} /\ q.version > 0 =>
          /\ q.other \in CartIds /\ Begun(s, g, q.other) /\ Current(s, g, q.other, q.version)
          /\ Unchanged(s, g, q.other, q.version) => s[q.other].content = q.new
    /\ q.pc \in {"union", "del"} => q.other \in CartIds /\ Begun(s, g, q.other)

CartInv ==
    /\ \A r \in Requests : ReqInv(stored, gone, created, rq[r])
    /\ \A c \in CartIds : Begun(stored, gone, c) => c \in created
    /\ \A p, r \in Requests :
          rq[p].pc = "create" /\ rq[r].pc = "create" /\ rq[p].cart = rq[r].cart => p = r

\* What a step does to the carts: versions grow and a deleted cart is remembered.
Moved ==
    \A c \in CartIds :
        /\ Begun(stored, gone, c) => Begun(stored', gone', c)
        /\ c \notin gone' =>
              c \notin gone /\ (stored'[c] = stored[c] \/ stored'[c].version > stored[c].version)

\* Only the request that minted an id writes it first.
FirstWrite(r) ==
    \A c \in CartIds :
        Begun(stored', gone', c) /\ ~Begun(stored, gone, c) =>
            rq[r].pc = "create" /\ rq[r].cart = c /\ rq'[r].pc # "create"

Kept(r) ==
    /\ \A p \in Requests \ {r} : rq'[p] = rq[p]
    /\ created \subseteq created'
    /\ rq'[r].pc = "create" => rq'[r].cart \notin created
    /\ Moved /\ FirstWrite(r)
    /\ ReqInv(stored', gone', created', rq'[r])

\* A request that waits keeps its invariant while the carts move.
LEMMA WaitingKeeps ==
    ASSUME TypeOK, TypeOK', CartInv, NEW p \in Requests, rq'[p] = rq[p], Moved,
           created \subseteq created',
           rq[p].pc = "create" => ~Begun(stored', gone', rq[p].cart)
    PROVE  ReqInv(stored', gone', created', rq'[p])
  <1> DEFINE q == rq[p]
  <1>1. rq'[p] = q /\ ReqInv(stored, gone, created, q) /\ q \in Req
    BY ReqFacts DEF CartInv
  <1>2. \A c \in CartIds : stored[c].version \in Nat
    BY StoredFacts
  <1>3. \A c \in CartIds : stored'[c].version \in Nat
    BY StoredFacts DEF TypeOK, NoCart
  <1>4. \A c \in CartIds, v \in Nat :
          /\ Begun(stored, gone, c) => Begun(stored', gone', c)
          /\ Current(stored, gone, c, v) => Current(stored', gone', c, v)
          /\ Current(stored, gone, c, v) /\ Unchanged(stored', gone', c, v) =>
                Unchanged(stored, gone, c, v) /\ stored'[c] = stored[c]
    BY <1>2, <1>3 DEF Moved, Current, Unchanged
  <1>5. q.version \in Nat
    BY <1>1 DEF Req
  <1>6. q.pc = "create" => ~Begun(stored', gone', q.cart) /\ q.cart \in created'
    BY <1>1 DEF ReqInv
  <1> HIDE DEF q
  <1> QED
    BY <1>1, <1>4, <1>5, <1>6 DEF ReqInv

LEMMA KeptGives ==
    ASSUME TypeOK, TypeOK', CartInv, NEW r \in Requests, Kept(r)
    PROVE  CartInv'
  <1>1. \A p \in Requests : ReqInv(stored', gone', created', rq'[p])
    <2>1. ASSUME NEW p \in Requests \ {r}, rq[p].pc = "create"
          PROVE  ~Begun(stored', gone', rq[p].cart)
      BY <2>1 DEF Kept, FirstWrite, CartInv, ReqInv
    <2> QED
      BY <2>1, WaitingKeeps DEF Kept
  <1>2. ASSUME NEW c \in CartIds, Begun(stored', gone', c)
        PROVE  c \in created'
    BY <1>2 DEF Kept, FirstWrite, CartInv, ReqInv
  <1>3. ASSUME NEW p \in Requests, NEW q \in Requests, rq'[p].pc = "create", rq'[q].pc = "create",
               rq'[p].cart = rq'[q].cart
        PROVE  p = q
    <2>1. \A x \in Requests \ {r} : rq'[x].pc = "create" => rq[x].pc = "create" /\ rq'[x].cart = rq[x].cart
                                                     /\ rq[x].cart \in created
      BY DEF Kept, CartInv, ReqInv
    <2> QED
      BY <1>3, <2>1 DEF Kept, CartInv
  <1> QED
    BY <1>1, <1>2, <1>3 DEF CartInv

LEMMA GotoFacts ==
    ASSUME TypeOK, NEW r \in Requests, NEW next, Goto(r, next)
    PROVE  rq'[r] = next /\ \A p \in Requests \ {r} : rq'[p] = rq[p]
  BY DEF TypeOK, Goto

LEMMA StoreStays ==
    ASSUME NEW r \in Requests, UNCHANGED <<stored, gone>>
    PROVE  Moved /\ FirstWrite(r)
  BY DEF Moved, FirstWrite

\* A request that only has to answer, or to set the index, holds no cart.
LEMMA Harmless ==
    ASSUME NEW q, q.pc \in {"idle", "price", "pricing", "index"}, NEW s, NEW g, NEW k
    PROVE  ReqInv(s, g, k, q)
  BY DEF ReqInv

\* Steps that leave the carts alone and end, answer or set the index.
LEMMA SimpleKept ==
    ASSUME TypeOK, NEW r \in Requests, NEW next, Goto(r, next),
           next.pc \in {"idle", "price", "pricing", "index"},
           UNCHANGED <<stored, gone, created>>
    PROVE  Kept(r)
  BY GotoFacts, StoreStays, Harmless DEF Kept

LEMMA IdlePc ==
    /\ Idle.pc = "idle"
    /\ \A p, c : [Idle EXCEPT !.pc = p, !.cart = c].pc = p
    /\ \A p : [Idle EXCEPT !.pc = p].pc = p
  BY DEF Idle

\* A step is sound if it keeps the invariant and is a step of LinearCart.
Linear == L!Next \/ UNCHANGED <<stored, gone>>
Sound(r) == Kept(r) /\ TypeOK' /\ Linear

LEMMA StepTypes ==
    ASSUME TypeOK, NEW r \in Requests, NEW next \in Req, Goto(r, next),
           stored' \in [CartIds -> {NoCart} \union Carts], userIndex' \in Ids,
           created' \in SUBSET CartIds, gone' \in SUBSET created',
           arrived' \in 0 .. MaxRequests,
           UNCHANGED breakerVars \/ BreakerStep(r)
    PROVE  TypeOK'
  <1>1. rq' \in [Requests -> Req]
    BY GotoType
  <1>2. BreakerTypeOK'
    BY BreakerTypes DEF TypeOK
  <1> QED
    BY <1>1, <1>2 DEF TypeOK, Carts, Ids, Req

\* An id is minted, by create() or by a merge() that finds no cart.
LEMMA MintSound ==
    ASSUME TypeOK, CartInv, NEW r \in Requests, NEW owned \in BOOLEAN, NEW c \in CartIds \ created,
           created' = created \union {c},
           Goto(r, [Idle EXCEPT !.pc = "create", !.cart = c, !.new.owned = owned]),
           arrived' \in 0 .. MaxRequests,
           UNCHANGED <<stored, userIndex, gone, breakerVars>>
    PROVE  Sound(r)
  <1> DEFINE q == [Idle EXCEPT !.pc = "create", !.cart = c, !.new.owned = owned]
  <1>2. q.pc = "create" /\ q.cart = c /\ q.new = [Empty EXCEPT !.owned = owned]
    BY DEF Idle
  <1>3. q \in Req /\ Goto(r, q)
    BY IdleWith DEF Ids, Phases
  <1> HIDE DEF q
  <1>4. rq'[r] = q /\ (\A p \in Requests \ {r} : rq'[p] = rq[p])
    BY <1>3, GotoFacts
  <1>6. ReqInv(stored', gone', created', q)
    BY <1>2 DEF ReqInv, CartInv
  <1>7. Kept(r)
    BY <1>2, <1>4, <1>6, StoreStays DEF Kept
  <1>8. /\ stored' \in [CartIds -> {NoCart} \union Carts] /\ userIndex' \in Ids
        /\ created' \in SUBSET CartIds /\ gone' \in SUBSET created'
    BY TypeByParts
  <1>9. TypeOK'
    BY <1>3, <1>8, StepTypes
  <1> QED
    BY <1>7, <1>9 DEF Sound, Linear

LEMMA CreateCartSound ==
    ASSUME TypeOK, CartInv, NEW r \in Requests, NEW owned \in BOOLEAN, CreateCart(r, owned)
    PROVE  Sound(r)
  <1>1. arrived' \in 0 .. MaxRequests
    <2>1. arrived < MaxRequests /\ arrived' = arrived + 1
      BY DEF CreateCart, Arrive
    <2> QED
      BY <2>1, CartAssumption DEF TypeOK
  <1> QED
    BY <1>1, MintSound DEF CreateCart

\* The three changes of a cart: what they go on to write is an operation on
\* what they read.
LEMMA ProceedKept ==
    ASSUME TypeOK, NEW r \in Requests, NEW c \in CartIds, stored[c].version > 0,
           NEW content, L!Operation(stored[c].content, content),
           Proceed(r, c, content), UNCHANGED storeVars
    PROVE  Kept(r)
  <1> DEFINE q == [Idle EXCEPT !.pc = "cas", !.cart = c, !.new = content, !.version = stored[c].version]
  <1>1. q.pc = "cas" /\ q.cart = c /\ q.new = content /\ q.version = stored[c].version
    BY DEF Idle
  <1>2. Goto(r, q)
    BY DEF Proceed
  <1> HIDE DEF q
  <1>3. rq'[r] = q /\ (\A p \in Requests \ {r} : rq'[p] = rq[p])
    BY <1>2, GotoFacts
  <1>4. UNCHANGED <<stored, gone, created>> /\ stored[c].version \in Nat
    BY StoredFacts DEF storeVars
  <1>5. ReqInv(stored', gone', created', q)
    BY <1>1, <1>4 DEF ReqInv, Begun, Current, Unchanged
  <1> QED
    BY <1>1, <1>3, <1>4, <1>5, StoreStays DEF Kept

LEMMA ArrivalKept ==
    ASSUME TypeOK, CartInv, NEW r \in Requests, NEW c \in created,
           \/ Get(r, c) \/ Merge(r, c)
           \/ \E sku \in Skus, qty \in 0 .. MaxQty : AddLine(r, c, sku, qty) \/ UpdateLine(r, c, sku, qty)
           \/ \E code \in Coupons : ApplyCoupon(r, c, code)
    PROVE  Kept(r)
  <1>1. c \in CartIds
    BY DEF TypeOK
  <1>2. CASE Get(r, c)
    BY <1>2, SimpleKept, IdlePc DEF Get, storeVars
  <1>3. CASE Merge(r, c)
    <2> DEFINE q == [Idle EXCEPT !.pc = "loadUser", !.other = c,
                     !.version = stored[c].version, !.new = Snapshot(c).content]
    <2>1. /\ q.pc = "loadUser" /\ q.other = c /\ q.version = stored[c].version
          /\ q.new = Snapshot(c).content
      BY DEF Idle
    <2>2. Goto(r, q) /\ UNCHANGED <<stored, gone, created>>
      BY <1>3 DEF Merge, storeVars
    <2> HIDE DEF q
    <2>3. rq'[r] = q /\ (\A p \in Requests \ {r} : rq'[p] = rq[p])
      BY <2>2, GotoFacts
    <2>4. stored[c].version \in Nat /\ (stored[c].version > 0 => Snapshot(c).content = stored[c].content)
      BY <1>1, StoredFacts DEF Snapshot
    <2>5. ReqInv(stored', gone', created', q)
      BY <1>1, <2>1, <2>2, <2>4 DEF ReqInv, Begun, Current, Unchanged
    <2> QED
      BY <2>1, <2>2, <2>3, <2>5, StoreStays DEF Kept
  <1>4. ASSUME NEW sku \in Skus, NEW qty \in 0 .. MaxQty, AddLine(r, c, sku, qty)
        PROVE  Kept(r)
    <2>1. PICK lines \in Added(stored[c].content.lines, sku, qty) :
             Proceed(r, c, [stored[c].content EXCEPT !.lines = lines])
      BY <1>4 DEF AddLine
    <2>2. stored[c].version > 0 /\ stored[c].content \in Contents /\ UNCHANGED storeVars
      BY <1>1, <1>4, StoredFacts DEF AddLine
    <2>3. L!Operation(stored[c].content, [stored[c].content EXCEPT !.lines = lines])
      BY <2>2, AddedType DEF L!Operation
    <2> QED
      BY <1>1, <2>1, <2>2, <2>3, ProceedKept
  <1>5. ASSUME NEW sku \in Skus, NEW qty \in 0 .. MaxQty, UpdateLine(r, c, sku, qty)
        PROVE  Kept(r)
    <2>1. stored[c].version > 0 /\ stored[c].content \in Contents /\ UNCHANGED storeVars
      BY <1>1, <1>5, StoredFacts DEF UpdateLine
    <2>2. Min({qty, MaxQty}) \in 0 .. MaxQty
      BY <2>1, UpdatedType
    <2> DEFINE q == Min({qty, MaxQty})
               new == [stored[c].content EXCEPT !.lines[sku] = q]
    <2>3. Proceed(r, c, new)
      BY <1>5 DEF UpdateLine
    <2>4. q \in 0 .. MaxQty
      BY <2>2
    <2> HIDE DEF q
    <2>5. L!SetLine(stored[c].content, new)
      BY <2>4 DEF L!SetLine
    <2> HIDE DEF new
    <2>6. L!Operation(stored[c].content, new)
      BY <2>5 DEF L!Operation
    <2> QED
      BY <1>1, <2>1, <2>3, <2>6, ProceedKept
  <1>6. ASSUME NEW code \in Coupons, ApplyCoupon(r, c, code)
        PROVE  Kept(r)
    <2>1. stored[c].version > 0 /\ UNCHANGED storeVars
      BY <1>6 DEF ApplyCoupon
    <2>2. L!Operation(stored[c].content, [stored[c].content EXCEPT !.coupons = @ \union {code}])
      BY DEF L!Operation, L!AddCoupon
    <2> QED
      BY <1>1, <1>6, <2>1, <2>2, ProceedKept DEF ApplyCoupon
  <1> QED
    BY <1>2, <1>3, <1>4, <1>5, <1>6

\* The compare-and-set, and the first write of create(): a step of LinearCart.
LEMMA WriteIsLinear ==
    ASSUME TypeOK, NEW c \in CartIds, NEW new \in Contents, stored' = Written(c, new),
           UNCHANGED gone,
           \/ c \in gone
           \/ stored[c].version > 0 /\ L!Operation(stored[c].content, new)
           \/ stored[c].version = 0 /\ \E owned \in BOOLEAN : new = [Empty EXCEPT !.owned = owned]
    PROVE  /\ L!Next /\ Moved
           /\ Begun(stored', gone', c)
           /\ \A d \in CartIds \ {c} : stored'[d] = stored[d]
  <1>1. /\ stored'[c] = [version |-> stored[c].version + 1, content |-> new]
        /\ \A d \in CartIds \ {c} : stored'[d] = stored[d]
        /\ stored' = [stored EXCEPT ![c] = stored'[c]]
    BY DEF Written, TypeOK
  <1>2. stored'[c].version = stored[c].version + 1 /\ stored'[c].content = new
        /\ stored[c].version \in Nat
    BY <1>1, StoredFacts
  <1>3. Moved /\ Begun(stored', gone', c)
    BY <1>1, <1>2 DEF Moved, Begun
  <1>4. CASE c \in gone
    <2>1. L!Revive(c)
      BY <1>1, <1>4 DEF L!Revive
    <2> QED
      BY <2>1, <1>1, <1>3 DEF L!Next
  <1>5. CASE c \notin gone /\ stored[c].version > 0 /\ L!Operation(stored[c].content, new)
    <2>1. L!Write(c)
      BY <1>1, <1>2, <1>5 DEF L!Write
    <2> QED
      BY <2>1, <1>1, <1>3 DEF L!Next
  <1>6. ASSUME c \notin gone, stored[c].version = 0, NEW owned \in BOOLEAN,
               new = [Empty EXCEPT !.owned = owned]
        PROVE  L!Next
    <2>1. new = [owned |-> owned, lines |-> [s \in Skus |-> 0], coupons |-> {}]
      BY <1>6 DEF Empty, NoLines
    <2>2. stored'[c] = [version |-> 1, content |->
                          [owned |-> owned, lines |-> [s \in Skus |-> 0], coupons |-> {}]]
      <3>1. stored[c].version + 1 = 1
        BY <1>6
      <3> QED
        BY <1>1, <2>1, <3>1, Zenon
    <2>3. stored' = [stored EXCEPT ![c] = [version |-> 1, content |->
                          [owned |-> owned, lines |-> [s \in Skus |-> 0], coupons |-> {}]]]
      BY <1>1, <2>2
    <2>4. L!Create(c)
      BY <1>6, <2>3 DEF L!Create
    <2> QED
      BY <2>4 DEF L!Next
  <1> QED
    BY <1>1, <1>3, <1>4, <1>5, <1>6

LEMMA ArrivalSound ==
    ASSUME TypeOK, CartInv, NEW r \in Requests, NEW c \in created,
           \/ Get(r, c) \/ Merge(r, c)
           \/ \E sku \in Skus, qty \in 0 .. MaxQty : AddLine(r, c, sku, qty) \/ UpdateLine(r, c, sku, qty)
           \/ \E code \in Coupons : ApplyCoupon(r, c, code)
    PROVE  Sound(r)
  <1>1. UNCHANGED <<stored, gone>>
    BY DEF Get, Merge, AddLine, UpdateLine, ApplyCoupon, storeVars
  <1> QED
    BY <1>1, ArrivalKept, ArrivalTypes DEF Sound, Linear

LEMMA WriteSound ==
    ASSUME TypeOK, NEW r \in Requests, NEW c \in CartIds, NEW new \in Contents,
           stored' = Written(c, new),
           UNCHANGED <<userIndex, created, gone, arrived, breakerVars>>,
           \/ c \in gone
           \/ stored[c].version > 0 /\ L!Operation(stored[c].content, new)
           \/ stored[c].version = 0 /\ \E owned \in BOOLEAN : new = [Empty EXCEPT !.owned = owned],
           Begun(stored, gone, c) \/ (rq[r].pc = "create" /\ rq[r].cart = c),
           NEW next \in Req, Goto(r, next), next.pc # "create",
           Moved => ReqInv(stored', gone', created', next)
    PROVE  Sound(r)
  <1>1. L!Next /\ Moved /\ (\A d \in CartIds \ {c} : stored'[d] = stored[d])
    BY WriteIsLinear
  <1>2. rq'[r] = next /\ (\A p \in Requests \ {r} : rq'[p] = rq[p])
    BY GotoFacts
  <1>3. FirstWrite(r)
    BY <1>1, <1>2 DEF FirstWrite, Begun
  <1>4. Kept(r)
    BY <1>1, <1>2, <1>3 DEF Kept
  <1>5. stored' \in [CartIds -> {NoCart} \union Carts]
    BY WrittenType
  <1>6. /\ userIndex' \in Ids /\ created' \in SUBSET CartIds /\ gone' \in SUBSET created'
        /\ arrived' \in 0 .. MaxRequests
    BY TypeByParts
  <1>7. TypeOK'
    BY <1>5, <1>6, StepTypes
  <1> QED
    BY <1>1, <1>4, <1>7 DEF Sound, Linear

\* A step that leaves the carts alone and ends, answers or sets the index.
LEMMA SimpleSound ==
    ASSUME TypeOK, NEW r \in Requests, NEW next \in Req, Goto(r, next),
           next.pc \in {"idle", "price", "pricing", "index"},
           userIndex' \in Ids,
           UNCHANGED <<stored, gone, created, arrived>>,
           UNCHANGED breakerVars \/ BreakerStep(r)
    PROVE  Sound(r)
  <1>1. Kept(r)
    BY SimpleKept
  <1>2. /\ stored' \in [CartIds -> {NoCart} \union Carts]
        /\ created' \in SUBSET CartIds /\ gone' \in SUBSET created'
        /\ arrived' \in 0 .. MaxRequests
    BY TypeByParts
  <1>3. TypeOK'
    BY <1>2, StepTypes
  <1> QED
    BY <1>1, <1>3 DEF Sound, Linear

LEMMA CreateWriteSound ==
    ASSUME TypeOK, CartInv, NEW r \in Requests, CreateWrite(r)
    PROVE  Sound(r)
  <1> DEFINE c == rq[r].cart
             p == IF rq[r].new.owned THEN "index" ELSE "price"
             next == [rq[r] EXCEPT !.pc = p]
  <1>1. ReqInv(stored, gone, created, rq[r]) /\ rq[r].pc = "create"
    BY DEF CartInv, CreateWrite
  <1>2. c \in CartIds /\ ~Begun(stored, gone, c)
        /\ \E owned \in BOOLEAN : rq[r].new = [Empty EXCEPT !.owned = owned]
    BY <1>1 DEF ReqInv
  <1>3. stored[c].version = 0
    BY <1>2, StoredFacts DEF Begun
  <1>4. next \in Req /\ next.pc \in {"index", "price"} /\ rq[r].new \in Contents
    <2>1. p \in Phases /\ p \in {"index", "price"}
      BY DEF Phases
    <2> HIDE DEF p
    <2> QED
      BY <2>1, ReqFacts, ReqWith DEF Req
  <1>5. /\ stored' = Written(c, rq[r].new) /\ Goto(r, next)
        /\ UNCHANGED <<userIndex, created, gone, arrived, breakerVars>>
    BY DEF CreateWrite
  <1> HIDE DEF next, p
  <1>6. ReqInv(stored', gone', created', next)
    BY <1>4, Harmless
  <1> QED
    BY <1>1, <1>2, <1>3, <1>4, <1>5, <1>6, WriteSound

LEMMA SetIndexSound ==
    ASSUME TypeOK, CartInv, NEW r \in Requests, SetIndex(r)
    PROVE  Sound(r)
  <1> DEFINE next == [rq[r] EXCEPT !.pc = "price"]
  <1>1. next \in Req /\ next.pc = "price" /\ rq[r].cart \in Ids
    <2>1. PICK p \in Phases : p = "price"
      BY DEF Phases
    <2>2. rq[r] \in Req
      BY ReqFacts
    <2>3. [rq[r] EXCEPT !.pc = p] \in Req /\ [rq[r] EXCEPT !.pc = p].pc = p
      BY <2>2, ReqWith DEF Req
    <2>4. rq[r].cart \in Ids
      BY <2>2 DEF Req
    <2> QED
      BY <2>1, <2>3, <2>4
  <1>2. Goto(r, next) /\ userIndex' = rq[r].cart
        /\ UNCHANGED <<stored, gone, created, arrived, breakerVars>>
    BY DEF SetIndex
  <1> HIDE DEF next
  <1> QED
    BY <1>1, <1>2, SimpleSound

\* A version that matches: the content written is an operation on the stored one,
\* unless the cart was deleted once.
LEMMA MatchIsCurrent ==
    ASSUME TypeOK, CartInv, NEW r \in Requests, rq[r].pc \in {"cas", "adopt", "union"},
           VersionMatches(rq[r].cart, rq[r].version)
    PROVE  /\ rq[r].cart \in CartIds /\ Begun(stored, gone, rq[r].cart)
           /\ \/ rq[r].cart \in gone
              \/ /\ stored[rq[r].cart].version > 0
                 /\ L!Operation(stored[rq[r].cart].content, rq[r].new)
  <1> DEFINE q == rq[r]
  <1>1. ReqInv(stored, gone, created, q)
    BY DEF CartInv
  <1>2. /\ q.cart \in CartIds /\ Begun(stored, gone, q.cart) /\ q.version > 0
        /\ Unchanged(stored, gone, q.cart, q.version) => L!Operation(stored[q.cart].content, q.new)
    BY <1>1 DEF ReqInv
  <1>3. stored[q.cart].version \in {0, q.version}
    BY DEF VersionMatches
  <1> HIDE DEF q
  <1>4. ASSUME q.cart \notin gone
        PROVE  stored[q.cart].version > 0 /\ L!Operation(stored[q.cart].content, q.new)
    BY <1>2, <1>3, <1>4 DEF Begun, Unchanged
  <1> QED
    BY <1>2, <1>4 DEF q

LEMMA CasSound ==
    ASSUME TypeOK, CartInv, NEW r \in Requests, Cas(r)
    PROVE  Sound(r)
  <1>1. rq[r].pc = "cas" /\ UNCHANGED <<userIndex, created, gone, arrived, breakerVars>>
    BY DEF Cas
  <1>2. CASE VersionMatches(rq[r].cart, rq[r].version)
    <2> DEFINE next == [Idle EXCEPT !.pc = "price", !.cart = rq[r].cart]
    <2>1. stored' = Written(rq[r].cart, rq[r].new) /\ Goto(r, next)
      BY <1>2 DEF Cas
    <2>2. next \in Req /\ next.pc = "price" /\ rq[r].new \in Contents
      BY ReqFacts, IdleWith, IdlePc DEF Phases
    <2> HIDE DEF next
    <2>3. ReqInv(stored', gone', created', next)
      BY <2>2, Harmless
    <2> QED
      BY <1>1, <1>2, <2>1, <2>2, <2>3, MatchIsCurrent, WriteSound
  <1>3. CASE ~VersionMatches(rq[r].cart, rq[r].version)
    <2>1. Goto(r, Idle) /\ UNCHANGED stored
      BY <1>3 DEF Cas, Finish
    <2>2. userIndex' \in Ids
      BY <1>1 DEF TypeOK, Ids
    <2> QED
      BY <1>1, <2>1, <2>2, EmptyType, IdlePc, SimpleSound
  <1> QED
    BY <1>2, <1>3

LEMMA MergeReadIndexSound ==
    ASSUME TypeOK, CartInv, NEW r \in Requests, MergeReadIndex(r)
    PROVE  Sound(r)
  <1> DEFINE q == rq[r]
             next == [q EXCEPT !.pc = "loadCart", !.cart = userIndex]
  <1>1. /\ q.pc = "loadUser" /\ Goto(r, next)
        /\ UNCHANGED <<stored, userIndex, created, gone, arrived, breakerVars>>
    BY DEF MergeReadIndex, storeVars
  <1>2. /\ q \in Req /\ userIndex \in Ids /\ userIndex' \in Ids /\ arrived' \in 0 .. MaxRequests
        /\ stored' \in [CartIds -> {NoCart} \union Carts]
        /\ created' \in SUBSET CartIds /\ gone' \in SUBSET created'
    BY <1>1, ReqFacts, TypeByParts
  <1>3. /\ next.pc = "loadCart" /\ next.other = q.other /\ next.version = q.version
        /\ next.new = q.new
    BY <1>2 DEF Req
  <1>4. next \in Req
    BY <1>2 DEF Req, Phases
  <1> HIDE DEF next
  <1>5. rq'[r] = next /\ (\A p \in Requests \ {r} : rq'[p] = rq[p])
    BY <1>1, GotoFacts
  <1>6. ReqInv(stored', gone', created', next)
    BY <1>1, <1>3 DEF CartInv, ReqInv
  <1>7. Kept(r)
    BY <1>1, <1>3, <1>5, <1>6, StoreStays DEF Kept
  <1>8. TypeOK'
    BY <1>1, <1>2, <1>4, StepTypes
  <1> QED
    BY <1>1, <1>7, <1>8 DEF Sound, Linear

LEMMA MergeLoadUserSound ==
    ASSUME TypeOK, CartInv, NEW r \in Requests, MergeLoadUser(r)
    PROVE  Sound(r)
  <1> DEFINE q == rq[r]
             existing == IF q.cart = "none" THEN NoCart ELSE stored[q.cart]
  <1>1. q.pc = "loadCart" /\ UNCHANGED <<stored, userIndex, gone, arrived, breakerVars>>
    BY DEF MergeLoadUser
  <1>2. /\ q \in Req /\ q.other \in Ids /\ q.new \in Contents /\ q.version \in Nat
        /\ q.cart \in Ids /\ userIndex' \in Ids /\ arrived' \in 0 .. MaxRequests
        /\ stored' \in [CartIds -> {NoCart} \union Carts]
        /\ created \in SUBSET CartIds /\ gone' \in SUBSET created
    BY <1>1, ReqFacts, TypeByParts
  <1>3. existing.version > 0 =>
          q.cart \in CartIds /\ existing = stored[q.cart] /\ existing.content \in Contents
    BY <1>2, StoredFacts DEF Ids, NoCart
  <1>4. ReqInv(stored, gone, created, q)
    BY DEF CartInv
  <1>5. \/ q.version = 0 /\ existing.version = 0 /\
             \E c \in CartIds \ created :
                /\ created' = created \union {c}
                /\ Goto(r, [Idle EXCEPT !.pc = "create", !.cart = c, !.new.owned = TRUE])
        \/ /\ q.version > 0 /\ UNCHANGED created
           /\ Goto(r, [q EXCEPT !.pc = "adopt", !.cart = q.other, !.new.owned = TRUE])
        \/ UNCHANGED created /\ Goto(r, [Idle EXCEPT !.pc = "price", !.cart = q.cart])
        \/ /\ q.version > 0 /\ existing.version > 0 /\ UNCHANGED created
           /\ \E new \in Union(existing.content, q.new) :
                Goto(r, [q EXCEPT !.pc = "union", !.new = new,
                         !.version = existing.version])
    BY DEF MergeLoadUser
  <1> HIDE DEF q, existing
  <1>6. ASSUME NEW c \in CartIds \ created, created' = created \union {c},
               Goto(r, [Idle EXCEPT !.pc = "create", !.cart = c, !.new.owned = TRUE])
        PROVE  Sound(r)
    BY <1>1, <1>2, <1>6, MintSound
  <1>7. ASSUME q.version > 0, UNCHANGED created,
               Goto(r, [q EXCEPT !.pc = "adopt", !.cart = q.other, !.new.owned = TRUE])
        PROVE  Sound(r)
    <2> DEFINE next == [q EXCEPT !.pc = "adopt", !.cart = q.other, !.new.owned = TRUE]
    <2>1. /\ next.pc = "adopt" /\ next.cart = q.other /\ next.version = q.version
          /\ next.new = [q.new EXCEPT !.owned = TRUE]
      BY <1>2 DEF Req
    <2>2. next \in Req
      <3>1. [q.new EXCEPT !.owned = TRUE] \in Contents
        BY <1>2 DEF Contents
      <3> QED
        BY <1>2, <3>1 DEF Req, Phases
    <2>3. Goto(r, next)
      BY <1>7
    <2> HIDE DEF next
    <2>4. rq'[r] = next /\ (\A p \in Requests \ {r} : rq'[p] = rq[p])
      BY <2>3, GotoFacts
    <2>5. /\ q.other \in CartIds /\ Begun(stored, gone, q.other)
          /\ Current(stored, gone, q.other, q.version)
          /\ Unchanged(stored, gone, q.other, q.version) =>
                L!Operation(stored[q.other].content, next.new)
      BY <1>1, <1>4, <1>7, <2>1 DEF ReqInv, L!Operation, L!Adopt
    <2>6. ReqInv(stored', gone', created', next)
      BY <1>1, <1>7, <2>1, <2>5 DEF ReqInv
    <2>7. Kept(r)
      BY <1>1, <1>7, <2>1, <2>4, <2>6, StoreStays DEF Kept
    <2>8. TypeOK'
      BY <1>1, <1>2, <1>7, <2>2, <2>3, StepTypes
    <2> QED
      BY <1>1, <2>7, <2>8 DEF Sound, Linear
  <1>8. ASSUME UNCHANGED created, Goto(r, [Idle EXCEPT !.pc = "price", !.cart = q.cart])
        PROVE  Sound(r)
    <2> DEFINE next == [Idle EXCEPT !.pc = "price", !.cart = q.cart]
    <2>1. next \in Req /\ next.pc = "price" /\ Goto(r, next)
      BY <1>2, <1>8, IdleWith, IdlePc DEF Phases
    <2> HIDE DEF next
    <2> QED
      BY <1>1, <1>2, <1>8, <2>1, SimpleSound
  <1>9. ASSUME q.version > 0, existing.version > 0, UNCHANGED created,
               NEW new \in Union(existing.content, q.new),
               Goto(r, [q EXCEPT !.pc = "union", !.new = new,
                        !.version = existing.version])
        PROVE  Sound(r)
    <2> DEFINE next == [q EXCEPT !.pc = "union", !.new = new,
                        !.version = existing.version]
    <2>1. /\ next.pc = "union" /\ next.cart = q.cart /\ next.version = existing.version
          /\ next.new = new /\ next.other = q.other
      BY <1>2 DEF Req
    <2>2. q.cart \in CartIds /\ existing = stored[q.cart] /\ existing.content \in Contents
          /\ existing.version \in Nat
      BY <1>3, <1>9, StoredFacts
    <2>3. /\ new \in Contents /\ new.owned = existing.content.owned
          /\ existing.content.coupons \subseteq new.coupons
          /\ \A s \in Skus : new.lines[s] >= existing.content.lines[s]
      BY <1>2, <2>2, <1>9, UnionType
    <2>4. L!Operation(existing.content, new)
      BY <2>3 DEF L!Operation, L!Unite
    <2>5. next \in Req
      BY <1>2, <2>2, <2>3 DEF Req, Phases
    <2>6. Goto(r, next)
      BY <1>9
    <2> HIDE DEF next
    <2>7. rq'[r] = next /\ (\A p \in Requests \ {r} : rq'[p] = rq[p])
      BY <2>6, GotoFacts
    <2>8. q.other \in CartIds /\ Begun(stored, gone, q.other)
      BY <1>1, <1>4, <1>9 DEF ReqInv
    <2>9. Begun(stored, gone, q.cart) /\ Current(stored, gone, q.cart, existing.version)
      BY <1>9, <2>2 DEF Begun, Current
    <2>10. ReqInv(stored', gone', created', next)
      BY <1>1, <1>9, <2>1, <2>2, <2>4, <2>8, <2>9 DEF ReqInv
    <2>11. Kept(r)
      BY <1>1, <1>9, <2>1, <2>7, <2>10, StoreStays DEF Kept
    <2>12. TypeOK'
      BY <1>1, <1>2, <1>9, <2>5, <2>6, StepTypes
    <2> QED
      BY <1>1, <2>11, <2>12 DEF Sound, Linear
  <1> QED
    BY <1>5, <1>6, <1>7, <1>8, <1>9

LEMMA MergeWriteSound ==
    ASSUME TypeOK, CartInv, NEW r \in Requests, MergeWrite(r)
    PROVE  Sound(r)
  <1> DEFINE q == rq[r]
             p == IF q.pc = "adopt" THEN "index" ELSE "del"
             next == [q EXCEPT !.pc = p]
  <1>1. q.pc \in {"adopt", "union"} /\ UNCHANGED <<userIndex, created, gone, arrived, breakerVars>>
    BY DEF MergeWrite
  <1>2. q \in Req /\ q.new \in Contents /\ ReqInv(stored, gone, created, q)
    BY ReqFacts DEF CartInv
  <1>3. p \in Phases /\ p \in {"index", "del"} /\ (p = "del" => q.pc = "union")
    BY <1>1 DEF Phases
  <1>4. next \in Req /\ next.pc = p /\ next.other = q.other
    <2> HIDE DEF p
    <2> QED
      BY <1>2, <1>3, ReqWith DEF Req
  <1>5. Goto(r, next)
    BY DEF MergeWrite
  <1> HIDE DEF next, p
  <1>6. Moved => ReqInv(stored', gone', created', next)
    <2>1. CASE p = "index"
      BY <1>4, <2>1, Harmless
    <2>2. CASE p = "del"
      <3>1. q.other \in CartIds /\ Begun(stored, gone, q.other)
        BY <1>2, <1>3, <2>2 DEF ReqInv
      <3> QED
        BY <1>4, <2>2, <3>1 DEF ReqInv, Moved
    <2> QED
      BY <1>3, <2>1, <2>2
  <1>7. CASE VersionMatches(q.cart, q.version)
    <2>1. stored' = Written(q.cart, q.new)
      BY <1>7 DEF MergeWrite
    <2>2. /\ q.cart \in CartIds /\ Begun(stored, gone, q.cart)
          /\ \/ q.cart \in gone
             \/ stored[q.cart].version > 0 /\ L!Operation(stored[q.cart].content, q.new)
      BY <1>1, <1>7, MatchIsCurrent
    <2>3. next.pc # "create"
      BY <1>3, <1>4
    <2> HIDE DEF q
    <2> QED
      BY <1>1, <1>2, <1>4, <1>5, <1>6, <2>1, <2>2, <2>3, WriteSound
  <1>8. CASE ~VersionMatches(q.cart, q.version)
    <2>1. UNCHANGED stored
      BY <1>8 DEF MergeWrite
    <2>2. Moved /\ FirstWrite(r)
      BY <1>1, <2>1, StoreStays
    <2>3. rq'[r] = next /\ (\A x \in Requests \ {r} : rq'[x] = rq[x])
      BY <1>5, GotoFacts
    <2>4. Kept(r)
      BY <1>1, <1>3, <1>4, <1>6, <2>2, <2>3 DEF Kept
    <2>5. TypeOK'
      <3>1. /\ stored' \in [CartIds -> {NoCart} \union Carts] /\ userIndex' \in Ids
            /\ created' \in SUBSET CartIds /\ gone' \in SUBSET created'
            /\ arrived' \in 0 .. MaxRequests
        BY <1>1, <2>1, TypeByParts
      <3> QED
        BY <1>1, <1>4, <1>5, <3>1, StepTypes
    <2> QED
      BY <1>1, <2>1, <2>4, <2>5 DEF Sound, Linear
  <1> QED
    BY <1>7, <1>8

\* Deleting a cart that has begun: nothing left to do if it was gone already.
LEMMA DeleteIsLinear ==
    ASSUME TypeOK, CartInv, NEW c \in CartIds, Begun(stored, gone, c),
           stored' = [stored EXCEPT ![c] = NoCart], gone' = gone \union {c}
    PROVE  /\ Linear /\ Moved
           /\ \A d \in CartIds : Begun(stored', gone', d) => Begun(stored, gone, d)
           /\ stored' \in [CartIds -> {NoCart} \union Carts] /\ gone' \in SUBSET created
  <1>1. stored'[c] = NoCart /\ \A d \in CartIds \ {c} : stored'[d] = stored[d]
    BY DEF TypeOK
  <1>2. Moved
    BY <1>1 DEF Moved, Begun
  <1>3. \A d \in CartIds : Begun(stored', gone', d) => Begun(stored, gone, d)
    BY <1>1 DEF Begun
  <1>4. stored' \in [CartIds -> {NoCart} \union Carts] /\ gone' \in SUBSET created
    BY TypeByParts DEF CartInv
  <1>5. Linear
    <2>1. CASE stored[c].version > 0
      <3>1. L!Delete(c)
        BY <2>1 DEF L!Delete, NoCart
      <3> QED
        BY <3>1 DEF Linear, L!Next
    <2>2. CASE ~(stored[c].version > 0)
      <3>1. c \in gone /\ stored[c] = NoCart
        BY <2>2, StoredFacts DEF Begun
      <3>2. stored' = stored
        BY <3>1 DEF TypeOK
      <3> QED
        BY <3>1, <3>2 DEF Linear
    <2> QED
      BY <2>1, <2>2
  <1> QED
    BY <1>2, <1>3, <1>4, <1>5

LEMMA MergeDeleteSound ==
    ASSUME TypeOK, CartInv, NEW r \in Requests, MergeDelete(r)
    PROVE  Sound(r)
  <1> DEFINE c == rq[r].other
             next == [Idle EXCEPT !.pc = "price", !.cart = rq[r].cart]
  <1>1. /\ rq[r].pc = "del" /\ Goto(r, next) /\ UNCHANGED <<userIndex, created, arrived, breakerVars>>
        /\ stored' = [stored EXCEPT ![c] = NoCart] /\ gone' = gone \union {c}
    BY DEF MergeDelete
  <1>2. c \in CartIds /\ Begun(stored, gone, c)
    BY <1>1 DEF CartInv, ReqInv
  <1>3. next \in Req /\ next.pc = "price"
    BY ReqFacts, IdleWith, IdlePc DEF Phases
  <1> HIDE DEF next, c
  <1>4. /\ Linear /\ Moved
        /\ \A d \in CartIds : Begun(stored', gone', d) => Begun(stored, gone, d)
        /\ stored' \in [CartIds -> {NoCart} \union Carts] /\ gone' \in SUBSET created
    BY <1>1, <1>2, DeleteIsLinear
  <1>5. rq'[r] = next /\ (\A p \in Requests \ {r} : rq'[p] = rq[p])
    BY <1>1, GotoFacts
  <1>6. Kept(r)
    <2>1. ReqInv(stored', gone', created', next)
      BY <1>3, Harmless
    <2> QED
      BY <1>1, <1>3, <1>4, <1>5, <2>1 DEF Kept, FirstWrite
  <1>7. TypeOK'
    <2>1. userIndex' \in Ids /\ created' \in SUBSET CartIds /\ arrived' \in 0 .. MaxRequests
          /\ gone' \in SUBSET created'
      BY <1>1, <1>4, TypeByParts
    <2> QED
      BY <1>1, <1>3, <1>4, <2>1, StepTypes
  <1> QED
    BY <1>4, <1>6, <1>7 DEF Sound

LEMMA AnswerSound ==
    ASSUME TypeOK, NEW r \in Requests, Price(r) \/ (\E ok \in BOOLEAN : Priced(r, ok)) \/ Fail(r)
    PROVE  Sound(r)
  <1>1. UNCHANGED <<stored, gone, created, arrived>> /\ userIndex' \in Ids
    BY DEF Price, Priced, Fail, storeVars, TypeOK, Ids
  <1>2. UNCHANGED breakerVars \/ BreakerStep(r)
    BY DEF Price, Priced, Fail, BreakerStep
  <1>3. PICK next \in {Idle, [Idle EXCEPT !.pc = "pricing"]} : Goto(r, next)
    BY DEF Price, Priced, Fail, Degrade, Finish
  <1>4. next \in Req /\ next.pc \in {"idle", "pricing"}
    BY <1>3, EmptyType, IdleWith, IdlePc DEF Ids, Phases
  <1> QED
    BY <1>1, <1>2, <1>3, <1>4, SimpleSound

\* Every step of a request.
LEMMA ServeSound ==
    ASSUME TypeOK, CartInv, NEW r \in Requests, Serve(r)
    PROVE  Sound(r)
  <1>1. ASSUME NEW c \in created,
               \/ Get(r, c)
               \/ \E sku \in Skus, qty \in 0 .. MaxQty :
                    (qty > 0 /\ AddLine(r, c, sku, qty)) \/ UpdateLine(r, c, sku, qty)
               \/ \E code \in Coupons : ApplyCoupon(r, c, code)
               \/ Merge(r, c)
        PROVE  Sound(r)
    BY <1>1, ArrivalSound
  <1> QED
    BY <1>1, CreateCartSound, CreateWriteSound, SetIndexSound, CasSound, MergeReadIndexSound,
       MergeLoadUserSound, MergeWriteSound, MergeDeleteSound, AnswerSound DEF Serve

LEMMA InvStep ==
    ASSUME TypeOK, CartInv, [Next]_vars
    PROVE  TypeOK' /\ CartInv' /\ Linear
  <1>1. ASSUME NEW r \in Requests, Serve(r)
        PROVE  TypeOK' /\ CartInv' /\ Linear
    BY <1>1, ServeSound, KeptGives DEF Sound
  <1>2. ASSUME NEW c \in CartIds, Expire(c)
        PROVE  TypeOK' /\ CartInv' /\ Linear
    <2>1. Begun(stored, gone, c) /\ stored' = [stored EXCEPT ![c] = NoCart] /\ gone' = gone \union {c}
          /\ UNCHANGED <<userIndex, created, rq, arrived, breakerVars>>
      BY <1>2 DEF Expire, Begun
    <2>2. /\ Linear /\ Moved
          /\ \A d \in CartIds : Begun(stored', gone', d) => Begun(stored, gone, d)
          /\ stored' \in [CartIds -> {NoCart} \union Carts] /\ gone' \in SUBSET created
      BY <2>1, DeleteIsLinear
    <2>3. TypeOK'
      BY <2>1, <2>2 DEF TypeOK, BreakerTypeOK, breakerVars, Carts
    <2>4. \A p \in Requests : ReqInv(stored', gone', created', rq'[p])
      <3>1. \A p \in Requests : rq[p].pc = "create" => ~Begun(stored', gone', rq[p].cart)
        BY <2>2 DEF CartInv, ReqInv
      <3> QED
        BY <2>1, <2>2, <2>3, <3>1, WaitingKeeps
    <2>5. CartInv'
      BY <2>1, <2>2, <2>4 DEF CartInv
    <2> QED
      BY <2>2, <2>3, <2>5
  <1>3. CASE Restart
    <2>1. rq' = [r \in Requests |-> Idle] /\ UNCHANGED <<stored, userIndex, created, gone, arrived>>
      BY <1>3 DEF Restart, storeVars
    <2>2. \A r \in Requests : rq'[r] = Idle
      BY <2>1
    <2>3. rq' \in [Requests -> Req]
      BY <2>1, EmptyType
    <2>4. BreakerTypeOK'
      BY <1>3, BreakerAssumption DEF Restart, BreakerTypeOK, NoCall
    <2>5. TypeOK'
      BY <2>1, <2>3, <2>4 DEF TypeOK, Req, Ids
    <2>6. \A r \in Requests : ReqInv(stored', gone', created', rq'[r])
      BY <2>2, IdlePc, Harmless
    <2>7. CartInv'
      BY <2>1, <2>2, <2>6, IdlePc DEF CartInv
    <2> QED
      BY <2>1, <2>5, <2>7 DEF Linear
  <1>4. CASE ExpireIndex \/ PassTime \/ UNCHANGED vars
    <2>1. UNCHANGED <<stored, gone, created, rq, arrived>>
      BY <1>4 DEF ExpireIndex, PassTime, vars, storeVars
    <2>2. userIndex' \in Ids
      BY <1>4 DEF ExpireIndex, PassTime, vars, storeVars, TypeOK, Ids
    <2>3. BreakerTypeOK'
      <3>1. CASE UNCHANGED breakerVars
        BY <3>1 DEF breakerVars, BreakerTypeOK, TypeOK
      <3>2. CASE Tick
        <4>1. CASE Requests = {}
          BY <3>2, <4>1, BreakerAssumption DEF Tick, ProbeDue, BreakerTypeOK, TypeOK
        <4>2. CASE Requests # {}
          BY <3>2, <4>2, BreakerTypes DEF TypeOK
        <4> QED
          BY <4>1, <4>2
      <3> QED
        BY <1>4, <3>1, <3>2 DEF ExpireIndex, PassTime, vars
    <2>4. TypeOK'
      BY <2>1, <2>2, <2>3 DEF TypeOK, Ids
    <2>5. CartInv'
      BY <2>1 DEF CartInv
    <2> QED
      BY <2>1, <2>4, <2>5 DEF Linear
  <1> QED
    BY <1>1, <1>2, <1>3, <1>4 DEF Next

LEMMA InvInit ==
    ASSUME Init
    PROVE  TypeOK /\ CartInv /\ L!Init
  <1>1. \A r \in Requests : rq[r] = Idle
    BY DEF Init
  <1>2. \A r \in Requests : ReqInv(stored, gone, created, rq[r])
    BY <1>1, IdlePc, Harmless
  <1>3. TypeOK
    <2>1. BreakerTypeOK
      BY BreakerAssumption DEF Init, BreakerInit, BreakerTypeOK, NoCall
    <2>2. rq \in [Requests -> Req] /\ stored \in [CartIds -> {NoCart} \union Carts]
      BY EmptyType DEF Init
    <2> QED
      BY <2>1, <2>2, CartAssumption DEF Init, TypeOK, Req, Ids, Carts
  <1>4. \A c \in CartIds : ~Begun(stored, gone, c)
    BY DEF Init, Begun, NoCart
  <1>5. CartInv
    BY <1>1, <1>2, <1>4, IdlePc DEF CartInv
  <1>6. L!Init
    BY DEF Init, L!Init, NoCart
  <1> QED
    BY <1>3, <1>5, <1>6

\* Every variable of cart-service and of its breaker keeps its type; that only
\* minted carts are deleted is what needs the invariant.
THEOREM TypeCorrect == Spec => []TypeOK
  <1>1. Init => TypeOK /\ CartInv
    BY InvInit
  <1>2. TypeOK /\ CartInv /\ [Next]_vars => (TypeOK /\ CartInv)'
    BY InvStep
  <1> QED
    BY <1>1, <1>2, PTL DEF Spec

\* cart-service implements LinearCart: each cart changes one operation at a time,
\* whatever the number of devices, because the Lua script compares the version a
\* request computed its content from (cart.ts, CAS).
THEOREM CartsChangeOneOperationAtATime == Spec => CartsAreLinear
  <1>1. Init => TypeOK /\ CartInv /\ L!Init
    BY InvInit
  <1>2. TypeOK /\ CartInv /\ [Next]_vars => (TypeOK /\ CartInv)' /\ [L!Next]_(L!linearVars)
    BY InvStep DEF Linear, L!linearVars
  <1>3. Spec => [](TypeOK /\ CartInv) /\ L!Init
    BY <1>1, <1>2, PTL DEF Spec
  <1> QED
    BY <1>1, <1>2, <1>3, PTL DEF Spec, CartsAreLinear, L!Spec
-----------------------------------------------------------------------------
(* The breaker's probe.  A call is under way exactly while its request     *)
(* waits for the prices, and a call that outlived the opening of the       *)
(* breaker is older than the opening.                                      *)

CallsMatch(cs, q) == \A r \in Requests : cs[r].live <=> q[r].pc = "pricing"
CallsAreOlder ==
    state = "open" => \A r \in Requests : calls[r].live => calls[r].age >= openedFor
ProbeInv == CallsMatch(calls, rq) /\ CallsAreOlder /\ HalfOpenHasItsProbe

LEMMA CallFacts ==
    ASSUME BreakerTypeOK, NEW r \in Requests
    PROVE  calls[r].age \in Nat /\ calls[r].age <= Deadline /\ openedFor \in Nat
           /\ openedFor <= ProbeAfter
  BY BreakerAssumption DEF BreakerTypeOK

\* When the breaker probes, every call it admitted before has ended.
LEMMA ProbeIsAlone ==
    ASSUME BreakerTypeOK, CallsAreOlder, state = "open", ProbeDue, NEW r \in Requests
    PROVE  ~calls[r].live
  BY CallFacts, BreakerAssumption DEF ProbeDue, CallsAreOlder

LEMMA StartKeepsProbe ==
    ASSUME BreakerTypeOK, CallsAreOlder, HalfOpenHasItsProbe, NEW r \in Requests, StartCall(r)
    PROVE  CallsAreOlder' /\ HalfOpenHasItsProbe'
  <1>1. calls'[r].live /\ calls'[r].probe = (state = "open") /\ calls'[r].age = 0
        /\ \A q \in Requests \ {r} : calls'[q] = calls[q]
    BY DEF StartCall, BreakerTypeOK
  <1>2. CASE state = "closed"
    BY <1>2 DEF StartCall, CallsAreOlder, HalfOpenHasItsProbe
  <1>3. CASE state = "open" /\ ProbeDue
    <2>1. state' = "half-open"
      BY <1>3 DEF StartCall
    <2>2. \A q \in Requests \ {r} : ~calls'[q].live
      BY <1>1, <1>3, ProbeIsAlone
    <2> QED
      BY <1>1, <1>3, <2>1, <2>2 DEF CallsAreOlder, HalfOpenHasItsProbe, Live
  <1> QED
    BY <1>2, <1>3 DEF StartCall, Allow

LEMMA RecordKeepsProbe ==
    ASSUME BreakerTypeOK, BreakerTypeOK', CallsAreOlder, HalfOpenHasItsProbe,
           NEW r \in Requests, NEW ok \in BOOLEAN, Record(r, ok)
    PROVE  CallsAreOlder' /\ HalfOpenHasItsProbe'
  <1>1. ~calls'[r].live /\ \A q \in Requests \ {r} : calls'[q] = calls[q]
    BY DEF Record, BreakerTypeOK, NoCall
  <1>2. state' # "half-open"
    BY DEF Record, BreakerTypeOK
  <1>3. openedFor' = 0 \/ (UNCHANGED <<state, openedFor>>)
    BY DEF Record
  <1>4. \A q \in Requests : calls'[q].age \in Nat
    BY BreakerAssumption DEF BreakerTypeOK
  <1> QED
    BY <1>1, <1>2, <1>3, <1>4 DEF CallsAreOlder, HalfOpenHasItsProbe

LEMMA TickKeepsProbe ==
    ASSUME BreakerTypeOK, CallsAreOlder, HalfOpenHasItsProbe, Tick
    PROVE  CallsAreOlder' /\ HalfOpenHasItsProbe'
  <1>1. ASSUME NEW r \in Requests
        PROVE  /\ calls'[r].live = calls[r].live /\ calls'[r].probe = calls[r].probe
               /\ calls[r].live => calls'[r].age = calls[r].age + 1
    <2>1. calls'[r] = IF Live(r) THEN [calls[r] EXCEPT !.age = @ + 1] ELSE calls[r]
      BY DEF Tick
    <2>2. calls[r] \in [age : 0 .. Deadline, probe : BOOLEAN, live : BOOLEAN]
      BY DEF BreakerTypeOK
    <2> QED
      BY <2>1, <2>2 DEF Live
  <1>2. openedFor' \in {openedFor, openedFor + 1} /\ UNCHANGED state
    BY DEF Tick
  <1>3. \A r \in Requests : calls[r].age \in Nat /\ openedFor \in Nat
    BY CallFacts
  <1>4. CallsAreOlder'
    BY <1>1, <1>2, <1>3 DEF CallsAreOlder
  <1>5. HalfOpenHasItsProbe'
    BY <1>1, <1>2 DEF HalfOpenHasItsProbe, Live
  <1> QED
    BY <1>4, <1>5

\* A step of a request that neither starts nor ends a call.
LEMMA OtherKeepsProbe ==
    ASSUME TypeOK, ProbeInv, UNCHANGED breakerVars,
           \A p \in Requests : rq'[p].pc = "pricing" <=> rq[p].pc = "pricing"
    PROVE  ProbeInv'
  BY DEF ProbeInv, CallsMatch, CallsAreOlder, HalfOpenHasItsProbe, Live, breakerVars

NoCallBy(r) ==
    /\ rq'[r].pc # "pricing"
    /\ \A p \in Requests \ {r} : rq'[p] = rq[p]

LEMMA NoCallSteps ==
    ASSUME TypeOK, NEW r \in Requests, Serve(r), rq[r].pc \notin {"price", "pricing"}
    PROVE  UNCHANGED breakerVars /\ \A p \in Requests : rq'[p].pc = "pricing" <=> rq[p].pc = "pricing"
  <1>1. UNCHANGED breakerVars
    BY DEF Serve, CreateCart, Get, AddLine, UpdateLine, ApplyCoupon, Merge, CreateWrite, SetIndex, Cas,
           MergeReadIndex, MergeLoadUser, MergeWrite, MergeDelete, Price, Priced, Fail
  <1>2. rq[r] \in Req
    BY ReqFacts
  <1>3. ASSUME NEW next, Goto(r, next), next.pc # "pricing"
        PROVE  NoCallBy(r)
    BY <1>3, GotoFacts DEF NoCallBy
  <1>4. ASSUME NEW c, NEW content, Proceed(r, c, content)
        PROVE  NoCallBy(r)
    <2> DEFINE next == [Idle EXCEPT !.pc = "cas", !.cart = c, !.new = content, !.version = stored[c].version]
    <2>1. Goto(r, next) /\ next.pc = "cas"
      BY <1>4 DEF Proceed, Idle
    <2> HIDE DEF next
    <2> QED
      BY <1>3, <2>1
  <1>5. ASSUME NEW c, NEW owned,
               Goto(r, [Idle EXCEPT !.pc = "create", !.cart = c, !.new.owned = owned])
        PROVE  NoCallBy(r)
    <2> DEFINE next == [Idle EXCEPT !.pc = "create", !.cart = c, !.new.owned = owned]
    <2>1. Goto(r, next) /\ next.pc = "create"
      BY <1>5 DEF Idle
    <2> HIDE DEF next
    <2> QED
      BY <1>3, <2>1
  <1>6. ASSUME NEW c, Goto(r, [Idle EXCEPT !.pc = "price", !.cart = c])
        PROVE  NoCallBy(r)
    <2> DEFINE next == [Idle EXCEPT !.pc = "price", !.cart = c]
    <2>1. Goto(r, next) /\ next.pc = "price"
      BY <1>6, IdlePc
    <2> HIDE DEF next
    <2> QED
      BY <1>3, <2>1
  <1>7. ASSUME NEW p \in {"price", "index", "del"}, Goto(r, [rq[r] EXCEPT !.pc = p])
        PROVE  NoCallBy(r)
    <2> DEFINE next == [rq[r] EXCEPT !.pc = p]
    <2>1. Goto(r, next) /\ next.pc # "pricing"
      BY <1>2, <1>7 DEF Req
    <2> HIDE DEF next
    <2> QED
      BY <1>3, <2>1
  <1>8. ASSUME Goto(r, Idle)
        PROVE  NoCallBy(r)
    BY <1>3, <1>8, IdlePc
  <1>9. ASSUME NEW c \in created, Merge(r, c)
        PROVE  NoCallBy(r)
    <2> DEFINE next == [Idle EXCEPT !.pc = "loadUser", !.other = c,
                        !.version = stored[c].version, !.new = Snapshot(c).content]
    <2>1. Goto(r, next) /\ next.pc = "loadUser"
      BY <1>9 DEF Merge, Idle
    <2> HIDE DEF next
    <2> QED
      BY <1>3, <2>1
  <1>10. ASSUME MergeLoadUser(r)
         PROVE  NoCallBy(r)
    <2> DEFINE q == rq[r]
               adopt == [q EXCEPT !.pc = "adopt", !.cart = q.other, !.new.owned = TRUE]
               unite(new, v) == [q EXCEPT !.pc = "union", !.new = new, !.version = v]
    <2>1. \/ \E c \in CartIds : Goto(r, [Idle EXCEPT !.pc = "create", !.cart = c, !.new.owned = TRUE])
          \/ Goto(r, adopt)
          \/ Goto(r, [Idle EXCEPT !.pc = "price", !.cart = q.cart])
          \/ \E new, v : Goto(r, unite(new, v))
      <3> DEFINE existing == IF q.cart = "none" THEN NoCart ELSE stored[q.cart]
      <3>1. ASSUME NEW new \in Union(existing.content, q.new),
                   Goto(r, [q EXCEPT !.pc = "union", !.new = new,
                            !.version = existing.version])
            PROVE  Goto(r, unite(new, existing.version))
        BY <3>1
      <3> QED
        BY <1>10, <3>1, Zenon DEF MergeLoadUser
    <2>2. adopt.pc = "adopt" /\ \A new, v : unite(new, v).pc = "union"
      BY <1>2 DEF Req
    <2> HIDE DEF q, adopt, unite
    <2> QED
      BY <1>3, <1>5, <1>6, <2>1, <2>2
  <1>11. ASSUME MergeReadIndex(r)
         PROVE  NoCallBy(r)
    <2> DEFINE next == [rq[r] EXCEPT !.pc = "loadCart", !.cart = userIndex]
    <2>1. Goto(r, next) /\ next.pc # "pricing"
      BY <1>2, <1>11 DEF Req, MergeReadIndex
    <2> HIDE DEF next
    <2> QED
      BY <1>3, <2>1
  <1>12. NoCallBy(r)
    <2>1. CASE \E owned \in BOOLEAN : CreateCart(r, owned)
      BY <1>5, <2>1 DEF CreateCart
    <2>2. ASSUME NEW c \in created,
                 \/ Get(r, c)
                 \/ \E sku \in Skus, qty \in 0 .. MaxQty :
                      AddLine(r, c, sku, qty) \/ UpdateLine(r, c, sku, qty)
                 \/ \E code \in Coupons : ApplyCoupon(r, c, code)
          PROVE  NoCallBy(r)
      BY <1>4, <1>6, <2>2 DEF Get, AddLine, UpdateLine, ApplyCoupon
    <2>3. CASE CreateWrite(r)
      <3>1. (IF rq[r].new.owned THEN "index" ELSE "price") \in {"price", "index", "del"}
        OBVIOUS
      <3> QED
        BY <1>7, <2>3, <3>1 DEF CreateWrite
    <2>4. CASE MergeWrite(r)
      <3>1. (IF rq[r].pc = "adopt" THEN "index" ELSE "del") \in {"price", "index", "del"}
        OBVIOUS
      <3> QED
        BY <1>7, <2>4, <3>1 DEF MergeWrite
    <2>5. CASE SetIndex(r) \/ Cas(r) \/ MergeDelete(r) \/ Fail(r)
      BY <1>6, <1>7, <1>8, <2>5 DEF SetIndex, Cas, MergeDelete, Fail, Finish
    <2> QED
      BY <1>9, <1>10, <1>11, <2>1, <2>2, <2>3, <2>4, <2>5 DEF Serve, Price, Priced
  <1> QED
    BY <1>1, <1>12 DEF NoCallBy

LEMMA ProbeStep ==
    ASSUME TypeOK, TypeOK', ProbeInv, [Next]_vars
    PROVE  ProbeInv'
  <1>t. BreakerTypeOK /\ BreakerTypeOK'
    BY DEF TypeOK
  <1>1. ASSUME NEW r \in Requests, Serve(r), rq[r].pc \notin {"price", "pricing"}
        PROVE  ProbeInv'
    BY <1>1, NoCallSteps, OtherKeepsProbe
  <1>2. ASSUME NEW r \in Requests, Price(r)
        PROVE  ProbeInv'
    <2>1. CASE StartCall(r) /\ Goto(r, [Idle EXCEPT !.pc = "pricing"])
      <3>1. rq'[r].pc = "pricing" /\ (\A p \in Requests \ {r} : rq'[p] = rq[p])
        <4>1. PICK v : v = [Idle EXCEPT !.pc = "pricing"]
          OBVIOUS
        <4>2. v.pc = "pricing"
          BY <4>1, IdlePc
        <4> QED
          BY <2>1, <4>1, <4>2, GotoFacts
      <3>2. calls'[r].live /\ (\A p \in Requests \ {r} : calls'[p] = calls[p])
        BY <2>1 DEF StartCall, TypeOK, BreakerTypeOK
      <3>3. CallsMatch(calls', rq')
        BY <3>1, <3>2 DEF ProbeInv, CallsMatch
      <3> QED
        BY <1>t, <2>1, <3>3, StartKeepsProbe DEF ProbeInv, CallsMatch
    <2>2. CASE UNCHANGED breakerVars /\ Goto(r, Idle)
      <3>1. \A p \in Requests : rq'[p].pc = "pricing" <=> rq[p].pc = "pricing"
        BY <1>2, <2>2, GotoFacts, IdlePc DEF Price
      <3> QED
        BY <2>2, <3>1, OtherKeepsProbe
    <2> QED
      BY <1>2, <2>1, <2>2 DEF Price, Degrade, Finish
  <1>3. ASSUME NEW r \in Requests, NEW ok \in BOOLEAN, Priced(r, ok)
        PROVE  ProbeInv'
    <2>1. Record(r, ok) /\ Goto(r, Idle)
      BY <1>3 DEF Priced, Degrade, Finish
    <2>2. rq'[r].pc = "idle" /\ (\A p \in Requests \ {r} : rq'[p] = rq[p])
      BY <2>1, GotoFacts, IdlePc
    <2>3. ~calls'[r].live /\ (\A p \in Requests \ {r} : calls'[p] = calls[p])
      BY <2>1 DEF Record, TypeOK, BreakerTypeOK, NoCall
    <2>4. CallsMatch(calls', rq')
      BY <2>2, <2>3 DEF ProbeInv, CallsMatch
    <2> QED
      BY <1>t, <2>1, <2>4, RecordKeepsProbe DEF ProbeInv, CallsMatch
  <1>4. ASSUME NEW r \in Requests, Serve(r)
        PROVE  ProbeInv'
    <2>1. CASE rq[r].pc = "price"
      <3>1. Price(r)
        BY <1>4, <2>1 DEF Serve, CreateCart, Get, AddLine, UpdateLine, ApplyCoupon, Merge, CreateWrite,
               SetIndex, Cas, MergeReadIndex, MergeLoadUser, MergeWrite, MergeDelete, Price, Priced,
               Fail, Arrive
      <3> QED
        BY <1>2, <3>1
    <2>2. CASE rq[r].pc = "pricing"
      <3>1. \E ok \in BOOLEAN : Priced(r, ok)
        BY <1>4, <2>2 DEF Serve, CreateCart, Get, AddLine, UpdateLine, ApplyCoupon, Merge, CreateWrite,
               SetIndex, Cas, MergeReadIndex, MergeLoadUser, MergeWrite, MergeDelete, Price, Priced,
               Fail, Arrive
      <3> QED
        BY <1>3, <3>1
    <2> QED
      BY <1>1, <1>4, <2>1, <2>2
  <1>5. CASE Restart
    <2>1. \A r \in Requests : rq'[r].pc = "idle" /\ ~calls'[r].live
      BY <1>5, IdlePc DEF Restart, NoCall
    <2>2. state' = "closed"
      BY <1>5 DEF Restart
    <2> QED
      BY <2>1, <2>2 DEF ProbeInv, CallsMatch, CallsAreOlder, HalfOpenHasItsProbe
  <1>6. CASE PassTime
    <2>1. Tick /\ UNCHANGED rq
      BY <1>6 DEF PassTime
    <2>2. CallsMatch(calls', rq')
      <3>1. ASSUME NEW r \in Requests
            PROVE  calls'[r].live = calls[r].live
        <4>1. calls'[r] = IF Live(r) THEN [calls[r] EXCEPT !.age = @ + 1] ELSE calls[r]
          BY <2>1 DEF Tick
        <4>2. calls[r] \in [age : 0 .. Deadline, probe : BOOLEAN, live : BOOLEAN]
          BY <1>t DEF BreakerTypeOK
        <4> QED
          BY <4>1, <4>2 DEF Live
      <3> QED
        BY <2>1, <3>1 DEF ProbeInv, CallsMatch
    <2> QED
      BY <1>t, <2>1, <2>2, TickKeepsProbe DEF ProbeInv, CallsMatch
  <1>7. CASE ExpireIndex \/ (\E c \in CartIds : Expire(c)) \/ UNCHANGED vars
    <2>1. UNCHANGED <<rq, breakerVars>>
      BY <1>7 DEF ExpireIndex, Expire, vars
    <2> QED
      BY <2>1, OtherKeepsProbe
  <1> QED
    BY <1>4, <1>5, <1>6, <1>7 DEF Next

\* "Half-open admits exactly one probe" (circuit-breaker.ts): because a call lives
\* no longer than its deadline and the breaker stays open longer than that, a
\* half-open breaker always has its probe under way and nothing else.
THEOREM HalfOpenIsSound == Spec => []HalfOpenHasItsProbe
  <1>1. Init => TypeOK /\ CartInv /\ ProbeInv
    <2> SUFFICES ASSUME Init PROVE TypeOK /\ CartInv /\ ProbeInv
      OBVIOUS
    <2>1. \A r \in Requests : rq[r].pc = "idle" /\ ~calls[r].live
      BY IdlePc DEF Init, BreakerInit, NoCall
    <2>2. state = "closed"
      BY DEF Init, BreakerInit
    <2> QED
      BY <2>1, <2>2, InvInit DEF ProbeInv, CallsMatch, CallsAreOlder, HalfOpenHasItsProbe
  <1>2. TypeOK /\ CartInv /\ ProbeInv /\ [Next]_vars => (TypeOK /\ CartInv /\ ProbeInv)'
    BY InvStep, ProbeStep
  <1>3. ProbeInv => HalfOpenHasItsProbe
    BY DEF ProbeInv
  <1> QED
    BY <1>1, <1>2, <1>3, PTL DEF Spec
=============================================================================
