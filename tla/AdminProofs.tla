---------------------------- MODULE AdminProofs ----------------------------
(***************************************************************************)
(* Proofs about the admin app: what merchandising does to a product, its   *)
(* price history and the topic.                                            *)
(***************************************************************************)
EXTENDS Admin, FiniteSetTheorems, TLAPS

LEMMA StepOfCatalog == [AdminNext]_adminVars => [AdminCatalogNext]_catalogVars
  BY DEF AdminNext, adminVars, OfCatalog, OfOrders

-----------------------------------------------------------------------------
(* The inductive invariant of the rows.  An edit that holds the lock of a  *)
(* row has seen the row as it still is: its version, or its price.         *)

Lists == Prices \union {0}
Change == [old : Prices, new : Prices]
StatusFields == {"pc", "op", "status", "version", "seen"}
PriceFields == {"pc", "op", "price", "list", "old"}

IsEdit(x) ==
    \/ /\ x = [i \in StatusFields |-> x[i]] /\ x.op = "status"
       /\ x.pc \in {"route", "call", "written", "enqueued"}
       /\ x.status \in Statuses /\ x.version \in Nat
    \/ /\ x = [i \in PriceFields |-> x[i]] /\ x.op = "price"
       /\ x.pc \in {"route", "call", "read", "written", "enqueued"}
       /\ x.price \in Prices /\ x.list \in Lists
    \/ /\ x = [i \in {"pc", "op"} |-> x[i]] /\ x.op = "archive"
       /\ x.pc \in {"route", "call", "written", "enqueued"}

\* Version v came with status s: the product cannot be at that version with
\* another status.
SeenAt(v, s) == v <= product.version /\ (v = product.version => s = product.status)

EditInv(x) ==
    \/ x.pc \in {"none", "answered"}
    \/ /\ IsEdit(x)
       /\ x.op = "status" => /\ SeenAt(x.version, x.seen)
                             /\ x.pc \in {"written", "enqueued"} => x.version = product.version
       /\ x.op = "price" /\ x.pc \in {"read", "written", "enqueued"} => x.old = variant.price

IsShown(x) ==
    /\ x = [i \in {"status", "version", "price", "list"} |-> x[i]]
    /\ x.version \in Nat /\ x.list \in Lists
    /\ SeenAt(x.version, x.status)

RowTypes ==
    /\ product = [i \in {"status", "version"} |-> product[i]]
    /\ product.status \in Statuses /\ product.version \in Nat
    /\ variant = [i \in {"price", "list"} |-> variant[i]]
    /\ variant.price \in Prices /\ variant.list \in Lists

LockInv ==
    \A m, n \in Numbers : Locks(m) /\ Locks(n) /\ (OnProduct(m) <=> OnProduct(n)) => m = n

CatalogInv ==
    /\ RowTypes
    /\ edits = [n \in Numbers |-> edits[n]] /\ \A n \in Numbers : EditInv(edits[n])
    /\ \E k \in 0 .. MaxEdits : Used = 1 .. k
    /\ pages = [o \in Operators |-> pages[o]] /\ \A o \in Operators : IsShown(pages[o])
    /\ LockInv
    /\ changes \in Seq(Change) /\ PriceChangesChain

LEMMA CatalogStart == AdminCatalogInit => CatalogInv
  <1> SUFFICES ASSUME AdminCatalogInit
               PROVE  CatalogInv
    OBVIOUS
  <1>1. product = [status |-> "ACTIVE", version |-> 0]
    BY DEF AdminCatalogInit
  <1>2. PICK a \in Prices, b \in Lists : variant = [price |-> a, list |-> b]
    BY DEF AdminCatalogInit, Lists
  <1>3. RowTypes
    BY <1>1, <1>2, AdminCatalogAssumption DEF RowTypes
  <1>4. \A n \in Numbers : edits[n].pc = "none"
    BY DEF AdminCatalogInit, NoEdit
  <1>5. edits = [n \in Numbers |-> edits[n]] /\ \A n \in Numbers : EditInv(edits[n])
    BY <1>4 DEF AdminCatalogInit, EditInv
  <1>6. \E k \in 0 .. MaxEdits : Used = 1 .. k
    <2>1. Used = 1 .. 0 /\ 0 \in 0 .. MaxEdits
      BY <1>4, AdminCatalogAssumption DEF Used
    <2> QED
      BY <2>1
  <1>7. /\ pages = [o \in Operators |-> pages[o]] /\ \A o \in Operators : IsShown(pages[o])
    <2>1. pages = [o \in Operators |-> Current]
      BY DEF AdminCatalogInit
    <2>2. IsShown(Current)
      BY <1>1, <1>2, <1>3 DEF IsShown, Current, RowTypes, SeenAt
    <2> QED
      BY <2>1, <2>2
  <1>8. LockInv
    BY <1>4 DEF LockInv, Locks
  <1>9. changes \in Seq(Change) /\ PriceChangesChain
    BY DEF AdminCatalogInit, PriceChangesChain
  <1> QED
    BY <1>3, <1>5, <1>6, <1>7, <1>8, <1>9 DEF CatalogInv

\* An edit goes on, with the rows as they were.
LEMMA WorkStep ==
    ASSUME CatalogInv, NEW n \in Numbers, NEW y, edits' = [edits EXCEPT ![n] = y],
           edits[n].pc # "none", y.pc # "none", EditInv(y), y.pc # "answered" => y.op = edits[n].op,
           \/ y.pc \notin {"read", "written", "enqueued"}
           \/ Locks(n) \/ ~Locked(n),
           UNCHANGED <<product, variant, pages, changes>>
    PROVE  CatalogInv'
  <1>1. /\ edits' = [m \in Numbers |-> edits'[m]] /\ edits'[n] = y
        /\ \A m \in Numbers \ {n} : edits'[m] = edits[m]
    BY DEF CatalogInv
  <1>2. Used' = Used
    BY <1>1 DEF Used
  <1>3. \A m \in Numbers : EditInv(edits[m])'
    BY <1>1 DEF CatalogInv, EditInv, SeenAt
  <1>4. LockInv'
    <2> SUFFICES ASSUME NEW a \in Numbers, NEW b \in Numbers, Locks(a)', Locks(b)',
                        OnProduct(a)' <=> OnProduct(b)', a # b
                 PROVE  FALSE
      BY DEF LockInv
    <2>1. CASE a # n /\ b # n
      BY <1>1, <2>1 DEF CatalogInv, LockInv, Locks, OnProduct
    <2>2. ASSUME NEW m \in Numbers, m # n, Locks(m)', Locks(n)', OnProduct(m)' <=> OnProduct(n)'
          PROVE  FALSE
      <3>1. y.pc \in {"read", "written", "enqueued"} /\ Locks(m) /\ (OnProduct(m) <=> OnProduct(n))
        BY <1>1, <2>2 DEF Locks, OnProduct
      <3>2. m \in Used
        BY <3>1 DEF Used, Locks
      <3>3. CASE Locks(n)
        BY <2>2, <3>1, <3>3 DEF CatalogInv, LockInv
      <3>4. CASE ~Locked(n)
        BY <2>2, <3>1, <3>2, <3>4 DEF Locked, OnProduct
      <3> QED
        BY <3>1, <3>3, <3>4
    <2> QED
      BY <2>1, <2>2
  <1> QED
    BY <1>1, <1>2, <1>3, <1>4 DEF CatalogInv, RowTypes, IsShown, SeenAt, PriceChangesChain

\* A new request gets a number of its own.
LEMMA NumberFacts ==
    ASSUME CatalogInv, NextNumber \in Numbers
    PROVE  /\ edits[NextNumber].pc = "none" /\ NextNumber \in 0 .. MaxEdits
           /\ Used \union {NextNumber} = 1 .. NextNumber
  <1>1. PICK k \in 0 .. MaxEdits : Used = 1 .. k
    BY DEF CatalogInv
  <1>2. Cardinality(1 .. k) = k
    BY FS_Interval
  <1>3. NextNumber = k + 1 /\ k \in Nat
    BY <1>1, <1>2 DEF NextNumber
  <1> QED
    BY <1>1, <1>3, AdminCatalogAssumption DEF Numbers, Used

LEMMA RequestStep ==
    ASSUME CatalogInv, NextNumber \in Numbers, NEW y, Request(NextNumber, y), EditInv(y), y.pc = "route",
           UNCHANGED <<product, variant, pages, changes>>
    PROVE  CatalogInv'
  <1>1. PICK n \in Numbers : n = NextNumber
    OBVIOUS
  <1>2. edits[n].pc = "none" /\ n \in 0 .. MaxEdits /\ Used \union {n} = 1 .. n
    BY <1>1, NumberFacts
  <1>3. /\ edits' = [m \in Numbers |-> edits'[m]] /\ edits'[n] = y
        /\ \A m \in Numbers \ {n} : edits'[m] = edits[m]
    BY <1>1 DEF CatalogInv, Request
  <1>4. Used' = Used \union {n}
    BY <1>2, <1>3 DEF Used
  <1>5. \E k \in 0 .. MaxEdits : Used' = 1 .. k
    BY <1>2, <1>4
  <1>6. \A m \in Numbers : EditInv(edits[m])'
    BY <1>3 DEF CatalogInv, EditInv, SeenAt
  <1>7. LockInv'
    BY <1>3 DEF CatalogInv, LockInv, Locks, OnProduct
  <1> QED
    BY <1>3, <1>5, <1>6, <1>7 DEF CatalogInv, RowTypes, IsShown, SeenAt, PriceChangesChain

LEMMA PageSteps ==
    ASSUME CatalogInv, NEW o \in Operators, ChangeStatus(o) \/ SavePrice(o) \/ RenderCatalog(o)
    PROVE  CatalogInv'
  <1>1. IsShown(pages[o]) /\ RowTypes
    BY DEF CatalogInv
  <1>2. CASE ChangeStatus(o)
    <2>1. PICK s \in Statuses :
            Request(NextNumber, [pc |-> "route", op |-> "status", status |-> s,
                                 version |-> pages[o].version, seen |-> pages[o].status])
      BY <1>2 DEF ChangeStatus, SentVersion
    <2>2. PICK y : y = [pc |-> "route", op |-> "status", status |-> s,
                        version |-> pages[o].version, seen |-> pages[o].status]
      OBVIOUS
    <2>3. /\ y = [i \in StatusFields |-> y[i]] /\ y.pc = "route" /\ y.op = "status" /\ y.status = s
          /\ y.version = pages[o].version /\ y.seen = pages[o].status
      BY <2>2 DEF StatusFields
    <2>4. EditInv(y)
      BY <1>1, <2>3 DEF EditInv, IsEdit, IsShown
    <2> QED
      BY <1>2, <2>1, <2>2, <2>3, <2>4, RequestStep DEF ChangeStatus
  <1>3. CASE SavePrice(o)
    <2>1. PICK p \in Prices : Request(NextNumber, [pc |-> "route", op |-> "price", price |-> p,
                                                   list |-> pages[o].list, old |-> 0])
      BY <1>3 DEF SavePrice
    <2>2. PICK y : y = [pc |-> "route", op |-> "price", price |-> p, list |-> pages[o].list, old |-> 0]
      OBVIOUS
    <2>3. /\ y = [i \in PriceFields |-> y[i]] /\ y.pc = "route" /\ y.op = "price" /\ y.price = p
          /\ y.list = pages[o].list
      BY <2>2 DEF PriceFields
    <2>4. EditInv(y)
      BY <1>1, <2>3 DEF EditInv, IsEdit, IsShown
    <2> QED
      BY <1>3, <2>1, <2>2, <2>3, <2>4, RequestStep DEF SavePrice
  <1>4. CASE RenderCatalog(o)
    <2>1. IsShown(Current)
      BY <1>1 DEF IsShown, Current, RowTypes, SeenAt
    <2>2. /\ pages' = [pages EXCEPT ![o] = Current]
          /\ UNCHANGED <<product, variant, edits, changes>>
      BY <1>4 DEF RenderCatalog
    <2>3. pages' = [q \in Operators |-> pages'[q]] /\ \A q \in Operators : IsShown(pages'[q])
      BY <2>1, <2>2 DEF CatalogInv
    <2>4. \A q \in Operators : IsShown(pages[q])'
      BY <2>2, <2>3 DEF IsShown, SeenAt
    <2>5. \A m \in Numbers : EditInv(edits[m])'
      BY <2>2 DEF CatalogInv, EditInv, SeenAt
    <2> QED
      BY <2>2, <2>3, <2>4, <2>5
         DEF CatalogInv, RowTypes, PriceChangesChain, LockInv, Locks, OnProduct, Used
  <1> QED
    BY <1>2, <1>3, <1>4

LEMMA ArchiveRequest ==
    ASSUME CatalogInv, SendArchive
    PROVE  CatalogInv'
  <1>1. PICK y : y = [pc |-> "route", op |-> "archive"]
    OBVIOUS
  <1>2. y = [i \in {"pc", "op"} |-> y[i]] /\ y.pc = "route" /\ y.op = "archive"
    BY <1>1
  <1>3. EditInv(y)
    BY <1>2 DEF EditInv, IsEdit
  <1> QED
    BY <1>1, <1>2, <1>3, RequestStep DEF SendArchive

\* An edit whose program counter is all that changes keeps its shape.
LEMMA MovedOn ==
    ASSUME NEW x, NEW c, IsEdit(x),
           c \in {"call", "written", "enqueued"} \/ (c = "read" /\ x.op = "price")
    PROVE  LET y == [x EXCEPT !.pc = c]
           IN  /\ IsEdit(y) /\ y.pc = c /\ y.op = x.op
               /\ x.op = "status" => y.version = x.version /\ y.seen = x.seen /\ y.status = x.status
               /\ x.op = "price" => y.old = x.old /\ y.price = x.price /\ y.list = x.list
  <1> DEFINE y == [x EXCEPT !.pc = c]
  <1>1. CASE x.op = "status"
    <2>1. /\ y = [i \in StatusFields |-> y[i]] /\ y.pc = c /\ y.op = x.op
          /\ y.version = x.version /\ y.seen = x.seen /\ y.status = x.status
      BY <1>1 DEF IsEdit, StatusFields
    <2> QED
      BY <1>1, <2>1 DEF IsEdit
  <1>2. CASE x.op = "price"
    <2>1. /\ y = [i \in PriceFields |-> y[i]] /\ y.pc = c /\ y.op = x.op
          /\ y.old = x.old /\ y.price = x.price /\ y.list = x.list
      BY <1>2 DEF IsEdit, PriceFields
    <2> QED
      BY <1>2, <2>1 DEF IsEdit
  <1>3. CASE x.op = "archive"
    <2>1. y = [i \in {"pc", "op"} |-> y[i]] /\ y.pc = c /\ y.op = x.op
      BY <1>3 DEF IsEdit
    <2> QED
      BY <1>3, <2>1 DEF IsEdit
  <1> QED
    BY <1>1, <1>2, <1>3 DEF IsEdit

LEMMA AnswerStep ==
    ASSUME CatalogInv, NEW n \in Numbers, NEW status, Answer(n, status), edits[n].pc # "none",
           UNCHANGED <<product, variant, pages, changes>>
    PROVE  CatalogInv'
  <1>1. PICK ok : ok = (RouteStatus(status) = 200)
    OBVIOUS
  <1>2. PICK y : y = [pc |-> "answered", ok |-> ok]
    OBVIOUS
  <1>3. edits' = [edits EXCEPT ![n] = y] /\ y.pc = "answered"
    BY <1>1, <1>2 DEF Answer
  <1>4. EditInv(y)
    BY <1>3 DEF EditInv
  <1> QED
    BY <1>3, <1>4, WorkStep

LEMMA MoveStep ==
    ASSUME CatalogInv, NEW n \in Numbers, edits[n].pc \notin {"none", "answered"},
           NEW c \in {"call", "written", "enqueued"}, edits' = [edits EXCEPT ![n].pc = c],
           c = "call" \/ Locks(n) \/ ~Locked(n),
           c # "call" /\ edits[n].op = "status" => edits[n].version = product.version,
           c # "call" /\ edits[n].op = "price" => edits[n].pc \in {"read", "written"},
           edits[n].pc = "call" \/ edits[n].pc = "route" \/ c # "call",
           UNCHANGED <<product, variant, pages, changes>>
    PROVE  CatalogInv'
  <1>1. PICK x : x = edits[n]
    OBVIOUS
  <1>2. EditInv(x) /\ IsEdit(x)
    BY <1>1 DEF CatalogInv, EditInv
  <1>3. PICK y : y = [x EXCEPT !.pc = c]
    OBVIOUS
  <1>4. edits' = [edits EXCEPT ![n] = y]
    BY <1>1, <1>3
  <1>5. /\ IsEdit(y) /\ y.pc = c /\ y.op = x.op
        /\ x.op = "status" => y.version = x.version /\ y.seen = x.seen
        /\ x.op = "price" => y.old = x.old
    BY <1>2, <1>3, MovedOn
  <1>6. EditInv(y)
    BY <1>1, <1>2, <1>5 DEF EditInv
  <1> QED
    BY <1>1, <1>4, <1>5, <1>6, WorkStep

LEMMA EditSteps ==
    ASSUME CatalogInv, NEW n \in Numbers,
           \/ Guard(n) \/ UpdateProduct(n) \/ ArchiveProduct(n) \/ ReadPrice(n) \/ WritePrice(n)
           \/ Enqueue(n) \/ EditFails(n)
    PROVE  CatalogInv'
  <1>1. UNCHANGED <<product, variant, pages, changes>>
    BY DEF Guard, UpdateProduct, ArchiveProduct, ReadPrice, WritePrice, Enqueue, EditFails
  <1>2. EditInv(edits[n])
    BY DEF CatalogInv
  <1>3. CASE \E status : Answer(n, status) /\ edits[n].pc # "none"
    BY <1>1, <1>3, AnswerStep
  <1>4. CASE Guard(n)
    <2>1. CASE edits' = [edits EXCEPT ![n].pc = "call"]
      BY <1>1, <1>4, <2>1, MoveStep DEF Guard
    <2> QED
      BY <1>3, <1>4, <2>1 DEF Guard
  <1>5. CASE UpdateProduct(n)
    <2>1. CASE edits' = [edits EXCEPT ![n].pc = "written"] /\ edits[n].version = product.version
      BY <1>1, <1>5, <2>1, MoveStep DEF UpdateProduct
    <2> QED
      BY <1>3, <1>5, <2>1 DEF UpdateProduct
  <1>6. CASE ArchiveProduct(n)
    <2>1. CASE edits' = [edits EXCEPT ![n].pc = "written"]
      BY <1>1, <1>6, <2>1, MoveStep DEF ArchiveProduct
    <2> QED
      BY <1>3, <1>6, <2>1 DEF ArchiveProduct
  <1>7. CASE ReadPrice(n)
    <2>1. PICK x : x = edits[n]
      OBVIOUS
    <2>2. IsEdit(x) /\ x.op = "price" /\ x.pc = "call"
      BY <1>2, <1>7, <2>1 DEF ReadPrice, EditInv
    <2>3. PICK y : y = [x EXCEPT !.pc = "read", !.old = variant.price]
      OBVIOUS
    <2>4. edits' = [edits EXCEPT ![n] = y]
      BY <1>7, <2>1, <2>3 DEF ReadPrice, CatalogInv
    <2>5. /\ y = [i \in PriceFields |-> y[i]] /\ y.pc = "read" /\ y.op = "price"
          /\ y.old = variant.price /\ y.price = x.price /\ y.list = x.list
      BY <2>2, <2>3 DEF IsEdit, PriceFields
    <2>6. EditInv(y)
      BY <2>2, <2>5 DEF IsEdit, EditInv
    <2>7. ~Locked(n)
      BY <1>7 DEF ReadPrice, ForUpdate
    <2> QED
      BY <1>1, <2>1, <2>2, <2>4, <2>5, <2>6, <2>7, WorkStep
  <1>8. CASE WritePrice(n)
    <2>1. edits[n].op = "price" /\ Locks(n)
      BY <1>2, <1>8 DEF WritePrice, EditInv, IsEdit, Locks
    <2> QED
      BY <1>1, <1>8, <2>1, MoveStep DEF WritePrice
  <1>9. CASE Enqueue(n)
    <2>1. edits[n].pc = "written" /\ Locks(n) /\ edits' = [edits EXCEPT ![n].pc = "enqueued"]
      BY <1>9 DEF Enqueue, Locks
    <2>2. edits[n].op = "status" => edits[n].version = product.version
      BY <1>2, <2>1 DEF EditInv
    <2> QED
      BY <1>1, <2>1, <2>2, MoveStep
  <1>10. CASE EditFails(n)
    BY <1>3, <1>10 DEF EditFails
  <1> QED
    BY <1>4, <1>5, <1>6, <1>7, <1>8, <1>9, <1>10

LEMMA CommitStep ==
    ASSUME CatalogInv, NEW n \in Numbers, CommitEdit(n)
    PROVE  CatalogInv'
  <1>1. /\ edits[n].pc = "enqueued" /\ product' = ProductOf(n) /\ variant' = VariantOf(n)
        /\ UNCHANGED pages
    BY DEF CommitEdit
  <1>2. PICK y : edits' = [edits EXCEPT ![n] = y] /\ y.pc = "answered"
    <2>1. PICK ok : ok = (RouteStatus(200) = 200)
      OBVIOUS
    <2>2. edits' = [edits EXCEPT ![n] = [pc |-> "answered", ok |-> ok]]
      BY <2>1 DEF CommitEdit, Answer
    <2>3. PICK y : y = [pc |-> "answered", ok |-> ok]
      OBVIOUS
    <2>4. edits' = [edits EXCEPT ![n] = y] /\ y.pc = "answered"
      BY <2>2, <2>3
    <2> QED
      BY <2>4
  <1>3. /\ edits' = [m \in Numbers |-> edits'[m]] /\ edits'[n] = y
        /\ \A m \in Numbers \ {n} : edits'[m] = edits[m]
    BY <1>2 DEF CatalogInv
  <1>4. EditInv(edits[n]) /\ IsEdit(edits[n]) /\ RowTypes /\ Locks(n)
    BY <1>1 DEF CatalogInv, EditInv, Locks
  <1>5. Used' = Used
    BY <1>1, <1>2, <1>3 DEF Used
  <1>6. LockInv'
    BY <1>2, <1>3 DEF CatalogInv, LockInv, Locks, OnProduct
  <1>7. \A m \in Numbers \ {n} : Locks(m) => (OnProduct(m) <=> ~OnProduct(n))
    BY <1>4 DEF CatalogInv, LockInv
  <1>8. CASE edits[n].op = "price"
    <2>1. /\ product' = product /\ variant' = [price |-> edits[n].price, list |-> edits[n].list]
          /\ changes' = Append(changes, [old |-> edits[n].old, new |-> edits[n].price])
      BY <1>1, <1>8 DEF ProductOf, VariantOf, CommitEdit
    <2>2. /\ edits[n].old = variant.price /\ edits[n].price \in Prices /\ edits[n].list \in Lists
      BY <1>1, <1>4, <1>8 DEF EditInv, IsEdit
    <2>3. RowTypes' /\ variant'.price = edits[n].price
      BY <1>4, <2>1, <2>2 DEF RowTypes
    <2>4. ASSUME NEW m \in Numbers PROVE EditInv(edits[m])'
      <3>1. CASE m = n
        BY <1>2, <1>3, <3>1 DEF EditInv
      <3>2. CASE m # n
        <4>1. ~(edits[m].op = "price" /\ edits[m].pc \in {"read", "written", "enqueued"})
          BY <1>7, <1>8, <3>2 DEF Locks, OnProduct
        <4>2. EditInv(edits[m]) /\ edits'[m] = edits[m]
          BY <1>3, <3>2 DEF CatalogInv
        <4> QED
          BY <2>1, <4>1, <4>2 DEF EditInv, SeenAt
      <3> QED
        BY <3>1, <3>2
    <2>5. \A o \in Operators : IsShown(pages[o])'
      BY <1>1, <2>1 DEF CatalogInv, IsShown, SeenAt
    <2>6. PICK d : d = [old |-> edits[n].old, new |-> edits[n].price]
      OBVIOUS
    <2>7. d \in Change /\ d.old = variant.price /\ d.new = variant'.price
      BY <1>4, <2>2, <2>3, <2>6 DEF Change, RowTypes
    <2>8. changes \in Seq(Change) /\ PriceChangesChain /\ changes' = Append(changes, d)
      BY <2>1, <2>6 DEF CatalogInv
    <2>9. /\ changes' \in Seq(Change) /\ Len(changes') = Len(changes) + 1 /\ Len(changes) \in Nat
          /\ changes'[Len(changes) + 1] = d
          /\ \A i \in 1 .. Len(changes) : changes'[i] = changes[i]
      BY <2>7, <2>8
    <2>10. PriceChangesChain'
      <3>1. changes # <<>> => changes[Len(changes)].new = variant.price
        BY <2>8 DEF PriceChangesChain, Last
      <3>2. ASSUME NEW i \in 1 .. Len(changes') - 1 PROVE changes'[i].new = changes'[i + 1].old
        <4>1. i \in 1 .. Len(changes)
          BY <2>9, <3>2
        <4>2. CASE i = Len(changes)
          BY <2>7, <2>8, <2>9, <3>1, <4>1, <4>2
        <4>3. CASE i # Len(changes)
          <5>1. i \in 1 .. Len(changes) - 1 /\ i + 1 \in 1 .. Len(changes)
            BY <2>9, <4>1, <4>3
          <5> QED
            BY <2>8, <2>9, <4>1, <5>1 DEF PriceChangesChain
        <4> QED
          BY <4>2, <4>3
      <3>3. changes'[Len(changes')].new = variant'.price
        BY <2>7, <2>9
      <3> QED
        BY <3>2, <3>3 DEF PriceChangesChain, Last
    <2> QED
      BY <1>1, <1>3, <1>5, <1>6, <2>3, <2>4, <2>5, <2>9, <2>10 DEF CatalogInv
  <1>9. CASE edits[n].op # "price"
    <2>1. /\ variant' = variant /\ changes' = changes
          /\ \E s \in Statuses : product' = [status |-> s, version |-> product.version + 1]
      <3>1. variant' = variant /\ changes' = changes
        BY <1>1, <1>9 DEF VariantOf, CommitEdit
      <3>2. CASE edits[n].op = "status"
        BY <1>1, <1>4, <3>1, <3>2 DEF ProductOf, IsEdit
      <3>3. CASE edits[n].op = "archive"
        BY <1>1, <3>1, <3>3, AdminCatalogAssumption DEF ProductOf
      <3> QED
        BY <1>4, <1>9, <3>2, <3>3 DEF IsEdit
    <2>2. PICK s \in Statuses : product' = [status |-> s, version |-> product.version + 1]
      BY <2>1
    <2>3. RowTypes' /\ product'.version = product.version + 1 /\ product.version \in Nat
      BY <1>4, <2>1, <2>2 DEF RowTypes
    <2>4. OnProduct(n)
      BY <1>4, <1>9 DEF OnProduct, IsEdit
    <2>5. ASSUME NEW m \in Numbers PROVE EditInv(edits[m])'
      <3>1. CASE m = n
        BY <1>2, <1>3, <3>1 DEF EditInv
      <3>2. CASE m # n
        <4>1. ~(edits[m].op = "status" /\ edits[m].pc \in {"written", "enqueued"})
          BY <1>7, <2>4, <3>2 DEF Locks, OnProduct
        <4>2. EditInv(edits[m]) /\ edits'[m] = edits[m]
          BY <1>3, <3>2 DEF CatalogInv
        <4>3. IsEdit(edits[m]) /\ edits[m].op = "status" => edits[m].version \in Nat
          BY DEF IsEdit
        <4> QED
          BY <2>1, <2>3, <4>1, <4>2, <4>3 DEF EditInv, SeenAt
      <3> QED
        BY <3>1, <3>2
    <2>6. \A o \in Operators : IsShown(pages[o])'
      BY <1>1, <2>3 DEF CatalogInv, IsShown, SeenAt
    <2> QED
      BY <1>1, <1>3, <1>5, <1>6, <2>1, <2>3, <2>5, <2>6 DEF CatalogInv, PriceChangesChain
  <1> QED
    BY <1>8, <1>9

LEMMA CatalogStep ==
    ASSUME CatalogInv, [AdminCatalogNext]_catalogVars
    PROVE  CatalogInv'
  <1>1. CASE \E n \in Used : EditGoesOn(n) \/ EditFails(n)
    BY <1>1, EditSteps, CommitStep DEF EditGoesOn, Used
  <1>2. ASSUME UNCHANGED <<product, variant, edits, pages, changes>> PROVE CatalogInv'
    BY <1>2 DEF CatalogInv, RowTypes, EditInv, IsShown, SeenAt, PriceChangesChain, LockInv, Locks, OnProduct, Used
  <1>3. CASE \E o \in Operators, c \in Controls : ControlAnswered(o, c) \/ ControlGivesUp(o, c)
    BY <1>2, <1>3 DEF ControlAnswered, ControlGivesUp
  <1>4. CASE \E r \in Relays : ReadBatch(r) \/ SendRow(r)
    BY <1>2, <1>4 DEF ReadBatch, SendRow
  <1>5. CASE UNCHANGED catalogVars
    BY <1>2, <1>5 DEF catalogVars
  <1> QED
    BY <1>1, <1>3, <1>4, <1>5, PageSteps, ArchiveRequest DEF AdminCatalogNext, CatalogGoesOn

\* The announced price changes form a chain that ends at the price, for any number
\* of operators and edits.
THEOREM PriceHistoryIsAChain == AdminSpec => []PriceChangesChain
  <1>1. AdminInit => CatalogInv
    BY CatalogStart DEF AdminInit
  <1>2. CatalogInv /\ [AdminNext]_adminVars => CatalogInv'
    BY CatalogStep, StepOfCatalog
  <1>3. CatalogInv => PriceChangesChain
    BY DEF CatalogInv
  <1> QED
    BY <1>1, <1>2, <1>3, PTL DEF AdminSpec

\* A change of status that commits replaces the status that was on display when it
\* was chosen.
THEOREM StatusIsReplacedAsSeen == AdminSpec => StatusChangesWhatWasSeen
  <1>1. AdminInit => CatalogInv
    BY CatalogStart DEF AdminInit
  <1>2. CatalogInv /\ [AdminNext]_adminVars => CatalogInv'
    BY CatalogStep, StepOfCatalog
  <1>3. ASSUME CatalogInv
        PROVE  \A n \in Numbers : Commits(n) /\ edits[n].op = "status" => product.status = edits[n].seen
    BY <1>3 DEF CatalogInv, Commits, EditInv, SeenAt
  <1>4. CatalogInv => [\A n \in Numbers : Commits(n) /\ edits[n].op = "status"
                                          => product.status = edits[n].seen]_catalogVars
    BY <1>3
  <1> QED
    BY <1>1, <1>2, <1>4, PTL DEF AdminSpec, StatusChangesWhatWasSeen

-----------------------------------------------------------------------------
(* The topic.  As long as no two transactions enqueued at the same time,   *)
(* rows are committed in the order of their ids, and the last committed    *)
(* one tells what the product is.                                          *)

Kinds == {"none", "price_changed", "upserted", "deleted", "tombstone"}
Row == [kind : Kinds, edit : Numbers, published : BOOLEAN, attempts : Nat,
        status : Statuses, price : Prices, list : Lists]

\* What a consumer that keeps the message x only knows of a product and a variant.
Tells(x, p, v) ==
    \/ x.kind = "tombstone" /\ p.status = "ARCHIVED"
    \/ x.kind = "upserted" /\ x.status = p.status /\ x.price = v.price /\ x.list = v.list

\* The last row is one of the transaction of n and tells what n makes of the product.
Announces(n) ==
    /\ Len(outbox) > 0 /\ outbox[Len(outbox)].edit = n
    /\ Tells(outbox[Len(outbox)], ProductOf(n), VariantOf(n))

\* No committed row comes after row i.
LastCommitted(i) == Committed(i) /\ \A j \in DOMAIN outbox : Committed(j) => j <= i

InOrder ==
    /\ \A m, n \in Numbers : edits[m].pc = "enqueued" /\ edits[n].pc = "enqueued" => m = n
    /\ \A n \in Numbers : edits[n].pc = "enqueued" => Announces(n)
    /\ \A i \in DOMAIN outbox : LastCommitted(i) => Tells(outbox[i], product, variant)

TopicInv ==
    /\ outbox \in Seq(Row)
    /\ \A i \in DOMAIN outbox : outbox[i].kind # "none" =>
         edits[outbox[i].edit].pc \in {"enqueued", "answered"}
    /\ relays = [r \in Relays |-> relays[r]]
    /\ \A r \in Relays : \A i \in relays[r] : i \in DOMAIN outbox /\ Committed(i)
    /\ topic \in Nat /\ (topic > 0 => topic \in DOMAIN outbox /\ Committed(topic))
    /\ ~reordered => \A i \in DOMAIN outbox : outbox[i].published => i <= topic
    /\ ~crossed => InOrder

LEMMA TopicStart == AdminCatalogInit => TopicInv
  <1> SUFFICES ASSUME AdminCatalogInit
               PROVE  TopicInv
    OBVIOUS
  <1>1. outbox = <<>> /\ topic = 0 /\ relays = [r \in Relays |-> {}]
    BY DEF AdminCatalogInit
  <1>2. \A n \in Numbers : edits[n].pc = "none"
    BY DEF AdminCatalogInit, NoEdit
  <1>3. outbox \in Seq(Row) /\ DOMAIN outbox = {}
    BY <1>1
  <1>4. InOrder
    BY <1>2, <1>3 DEF InOrder
  <1> QED
    BY <1>1, <1>3, <1>4 DEF TopicInv

LEMMA TopicIsLast == TopicInv => TopicIsCurrent
  <1> SUFFICES ASSUME TopicInv, Unpublished = {}, topic > 0, ~crossed, ~reordered
               PROVE  Tells(outbox[topic], product, variant)
    BY DEF TopicIsCurrent, AllPublished, LastMessageIsCurrent, Tells
  <1>1. topic \in DOMAIN outbox /\ Committed(topic)
    BY DEF TopicInv
  <1>2. \A j \in DOMAIN outbox : Committed(j) => j <= topic
    BY DEF TopicInv, Unpublished
  <1> QED
    BY <1>1, <1>2 DEF TopicInv, InOrder, LastCommitted

LEMMA RowFacts ==
    ASSUME TopicInv
    PROVE  /\ Len(outbox) \in Nat /\ DOMAIN outbox = 1 .. Len(outbox)
           /\ \A i \in DOMAIN outbox : outbox[i] \in Row /\ outbox[i].edit \in Numbers
  <1>1. outbox \in Seq(Row)
    BY DEF TopicInv
  <1>2. /\ Len(outbox) \in Nat /\ DOMAIN outbox = 1 .. Len(outbox)
        /\ \A i \in DOMAIN outbox : outbox[i] \in Row
    BY <1>1
  <1> QED
    BY <1>2 DEF Row

\* What is committed and announced stays so when an edit goes on that neither was
\* nor is in the outbox.
LEMMA OutsideStep ==
    ASSUME TopicInv, NEW n \in Numbers, NEW y, edits = [m \in Numbers |-> edits[m]],
           edits' = [edits EXCEPT ![n] = y], edits[n].pc \notin {"enqueued", "answered"},
           y.pc # "enqueued", UNCHANGED <<product, variant, outbox, relays, topic, crossed, reordered>>
    PROVE  TopicInv'
  <1>1. edits'[n] = y /\ \A m \in Numbers \ {n} : edits'[m] = edits[m]
    OBVIOUS
  <1>2. \A i \in DOMAIN outbox : outbox[i].edit \in Numbers
    BY RowFacts
  <1>3. \A i \in DOMAIN outbox : outbox[i].kind # "none" => outbox[i].edit # n
    BY DEF TopicInv
  <1>4. \A i \in DOMAIN outbox : Committed(i)' <=> Committed(i)
    BY <1>1, <1>2, <1>3 DEF Committed
  <1>5. \A m \in Numbers : edits'[m].pc = "enqueued" => edits[m].pc = "enqueued" /\ edits'[m] = edits[m]
    BY <1>1
  <1>6. \A m \in Numbers : edits'[m].pc = "enqueued" /\ Announces(m) => Announces(m)'
    BY <1>5 DEF Announces, ProductOf, VariantOf, Tells
  <1>7. \A i \in DOMAIN outbox : LastCommitted(i)' <=> LastCommitted(i)
    BY <1>4 DEF LastCommitted
  <1>8. InOrder => InOrder'
    BY <1>5, <1>6, <1>7 DEF InOrder, Tells
  <1>9. \A i \in DOMAIN outbox : outbox[i].kind # "none" =>
          edits'[outbox[i].edit].pc \in {"enqueued", "answered"}
    BY <1>1, <1>2, <1>3 DEF TopicInv
  <1> QED
    BY <1>4, <1>8, <1>9 DEF TopicInv

LEMMA MessageFacts ==
    ASSUME RowTypes, NEW n \in Numbers, IsEdit(edits[n]), NEW kind \in Kinds
    PROVE  /\ Message(n, kind) \in Row /\ Message(n, kind).kind = kind /\ Message(n, kind).edit = n
           /\ ~Message(n, kind).published
           /\ Message(n, kind).status = ProductOf(n).status
           /\ Message(n, kind).price = VariantOf(n).price /\ Message(n, kind).list = VariantOf(n).list
  <1>1. ProductOf(n).status \in Statuses
    BY AdminCatalogAssumption DEF ProductOf, IsEdit, RowTypes
  <1>2. VariantOf(n).price \in Prices /\ VariantOf(n).list \in Lists
    BY DEF VariantOf, IsEdit, RowTypes
  <1> QED
    BY <1>1, <1>2 DEF Message, Row

\* The rows of an edit, the last of which tells what it makes of the product.
LEMMA EventFacts ==
    ASSUME RowTypes, NEW n \in Numbers, IsEdit(edits[n]), Enqueue(n)
    PROVE  \E t \in Seq(Row) :
             /\ outbox' = outbox \o t /\ Len(t) > 0
             /\ \A i \in 1 .. Len(t) : t[i].edit = n /\ ~t[i].published /\ t[i].kind # "none"
             /\ Tells(t[Len(t)], ProductOf(n), VariantOf(n))
  <1>1. CASE edits[n].op = "price"
    <2>1. PICK a, b : a = Message(n, "price_changed") /\ b = Message(n, "upserted")
      OBVIOUS
    <2>2. outbox' = outbox \o <<a, b>>
      BY <1>1, <2>1 DEF Enqueue, PriceEvents
    <2>3. /\ a \in Row /\ a.edit = n /\ ~a.published /\ a.kind # "none"
      BY <2>1, MessageFacts DEF Kinds
    <2>4. /\ b \in Row /\ b.edit = n /\ ~b.published /\ b.kind # "none"
          /\ Tells(b, ProductOf(n), VariantOf(n))
      BY <2>1, MessageFacts DEF Kinds, Tells
    <2>5. PICK t : t = <<a, b>>
      OBVIOUS
    <2>6. t \in Seq(Row) /\ Len(t) = 2 /\ t[1] = a /\ t[2] = b
      BY <2>3, <2>4, <2>5
    <2>7. outbox' = outbox \o t
      BY <2>2, <2>5
    <2>8. \A i \in 1 .. Len(t) : t[i].edit = n /\ ~t[i].published /\ t[i].kind # "none"
      <3>1. \A i \in 1 .. Len(t) : t[i] = a \/ t[i] = b
        BY <2>6
      <3> QED
        BY <2>3, <2>4, <3>1
    <2>9. Len(t) > 0 /\ Tells(t[Len(t)], ProductOf(n), VariantOf(n))
      BY <2>4, <2>6
    <2> QED
      BY <2>6, <2>7, <2>8, <2>9
  <1>2. CASE edits[n].op = "archive"
    <2>1. PICK a, b : a = Message(n, "deleted") /\ b = Message(n, "tombstone")
      OBVIOUS
    <2>2. outbox' = outbox \o <<a, b>>
      BY <1>2, <2>1 DEF Enqueue
    <2>3. /\ a \in Row /\ a.edit = n /\ ~a.published /\ a.kind # "none"
      BY <2>1, MessageFacts DEF Kinds
    <2>4. ProductOf(n).status = "ARCHIVED"
      BY <1>2 DEF ProductOf
    <2>5. /\ b \in Row /\ b.edit = n /\ ~b.published /\ b.kind # "none"
          /\ Tells(b, ProductOf(n), VariantOf(n))
      BY <2>1, <2>4, MessageFacts DEF Kinds, Tells
    <2>6. PICK t : t = <<a, b>>
      OBVIOUS
    <2>7. t \in Seq(Row) /\ Len(t) = 2 /\ t[1] = a /\ t[2] = b
      BY <2>3, <2>5, <2>6
    <2>8. outbox' = outbox \o t
      BY <2>2, <2>6
    <2>9. \A i \in 1 .. Len(t) : t[i].edit = n /\ ~t[i].published /\ t[i].kind # "none"
      <3>1. \A i \in 1 .. Len(t) : t[i] = a \/ t[i] = b
        BY <2>7
      <3> QED
        BY <2>3, <2>5, <3>1
    <2>10. Len(t) > 0 /\ Tells(t[Len(t)], ProductOf(n), VariantOf(n))
      BY <2>5, <2>7
    <2> QED
      BY <2>7, <2>8, <2>9, <2>10
  <1>3. CASE edits[n].op = "status"
    <2>1. PICK b : b = Message(n, "upserted")
      OBVIOUS
    <2>2. outbox' = outbox \o <<b>>
      BY <1>3, <2>1 DEF Enqueue
    <2>3. /\ b \in Row /\ b.edit = n /\ ~b.published /\ b.kind # "none"
          /\ Tells(b, ProductOf(n), VariantOf(n))
      BY <2>1, MessageFacts DEF Kinds, Tells
    <2>4. PICK t : t = <<b>>
      OBVIOUS
    <2>5. t \in Seq(Row) /\ Len(t) = 1 /\ t[1] = b
      BY <2>3, <2>4
    <2>6. outbox' = outbox \o t
      BY <2>2, <2>4
    <2>7. \A i \in 1 .. Len(t) : t[i].edit = n /\ ~t[i].published /\ t[i].kind # "none"
      <3>1. \A i \in 1 .. Len(t) : t[i] = b
        BY <2>5
      <3> QED
        BY <2>3, <3>1
    <2>8. Len(t) > 0 /\ Tells(t[Len(t)], ProductOf(n), VariantOf(n))
      BY <2>3, <2>5
    <2> QED
      BY <2>5, <2>6, <2>7, <2>8
  <1> QED
    BY <1>1, <1>2, <1>3 DEF IsEdit

LEMMA EnqueueTopic ==
    ASSUME CatalogInv, TopicInv, NEW n \in Numbers, Enqueue(n)
    PROVE  TopicInv'
  <1>1. /\ edits[n].pc = "written" /\ edits' = [edits EXCEPT ![n].pc = "enqueued"]
        /\ UNCHANGED <<product, variant, relays, topic, reordered>>
    BY DEF Enqueue
  <1>2. IsEdit(edits[n]) /\ RowTypes
    BY <1>1 DEF CatalogInv, EditInv
  <1>3. PICK t \in Seq(Row) :
             /\ outbox' = outbox \o t /\ Len(t) > 0
             /\ \A i \in 1 .. Len(t) : t[i].edit = n /\ ~t[i].published /\ t[i].kind # "none"
             /\ Tells(t[Len(t)], ProductOf(n), VariantOf(n))
    BY <1>2, EventFacts
  <1>4. PICK y : y = [edits[n] EXCEPT !.pc = "enqueued"]
    OBVIOUS
  <1>5. /\ y.pc = "enqueued" /\ y.op = edits[n].op
        /\ y.op = "status" => y.status = edits[n].status
        /\ y.op = "price" => y.price = edits[n].price /\ y.list = edits[n].list
    BY <1>2, <1>4, MovedOn
  <1>6. /\ edits'[n] = y /\ \A m \in Numbers \ {n} : edits'[m] = edits[m]
    BY <1>1, <1>4 DEF CatalogInv
  <1>7. outbox \in Seq(Row) /\ Len(outbox) \in Nat /\ DOMAIN outbox = 1 .. Len(outbox)
    BY RowFacts DEF TopicInv
  <1>8. /\ outbox' \in Seq(Row) /\ Len(outbox') = Len(outbox) + Len(t) /\ Len(t) \in Nat
        /\ DOMAIN outbox' = 1 .. Len(outbox')
    BY <1>3, <1>7
  <1>9. \A i \in DOMAIN outbox : i \in DOMAIN outbox' /\ outbox'[i] = outbox[i]
    BY <1>3, <1>7, <1>8
  <1>10. ASSUME NEW i \in DOMAIN outbox', i \notin DOMAIN outbox
         PROVE  outbox'[i].edit = n /\ ~outbox'[i].published /\ outbox'[i].kind # "none"
    <2>1. i - Len(outbox) \in 1 .. Len(t) /\ outbox'[i] = t[i - Len(outbox)]
      BY <1>3, <1>7, <1>8, <1>10
    <2> QED
      BY <1>3, <2>1
  <1>11. outbox'[Len(outbox')] = t[Len(t)] /\ outbox'[Len(outbox')].edit = n
    <2>1. outbox'[Len(outbox')] = t[Len(t)]
      BY <1>3, <1>7, <1>8
    <2> QED
      BY <1>3, <1>8, <2>1
  <1>12. /\ ProductOf(n)' = ProductOf(n) /\ VariantOf(n)' = VariantOf(n)
    BY <1>1, <1>5, <1>6 DEF ProductOf, VariantOf
  <1>13. Announces(n)'
    BY <1>3, <1>7, <1>8, <1>11, <1>12 DEF Announces, Tells
  <1>14. \A i \in DOMAIN outbox : outbox[i].kind # "none" => outbox[i].edit # n
    BY <1>1 DEF TopicInv
  <1>15. \A i \in DOMAIN outbox : Committed(i)' <=> Committed(i)
    BY <1>5, <1>6, <1>9, <1>14, RowFacts DEF Committed
  <1>16. \A i \in DOMAIN outbox' : Committed(i)' => i \in DOMAIN outbox
    BY <1>5, <1>6, <1>10 DEF Committed
  <1>17. \A i \in DOMAIN outbox' : outbox'[i].kind # "none" =>
           edits'[outbox'[i].edit].pc \in {"enqueued", "answered"}
    <2> SUFFICES ASSUME NEW i \in DOMAIN outbox', outbox'[i].kind # "none"
                 PROVE  edits'[outbox'[i].edit].pc \in {"enqueued", "answered"}
      OBVIOUS
    <2>1. CASE i \in DOMAIN outbox
      <3>1. outbox'[i] = outbox[i] /\ outbox[i].edit \in Numbers \ {n}
        BY <1>9, <1>14, <2>1, RowFacts
      <3> QED
        BY <1>6, <2>1, <3>1 DEF TopicInv
    <2>2. CASE i \notin DOMAIN outbox
      BY <1>5, <1>6, <1>10, <2>2
    <2> QED
      BY <2>1, <2>2
  <1>18. ~crossed' => InOrder'
    <2> SUFFICES ASSUME ~crossed'
                 PROVE  InOrder'
      OBVIOUS
    <2>1. InOrder /\ \A m \in Numbers : edits[m].pc # "enqueued"
      BY DEF Enqueue, TopicInv, Used
    <2>2. \A m \in Numbers : edits'[m].pc = "enqueued" => m = n
      BY <1>6, <2>1
    <2>3. ASSUME NEW i \in DOMAIN outbox', LastCommitted(i)' PROVE Tells(outbox'[i], product', variant')
      <3>1. i \in DOMAIN outbox /\ outbox'[i] = outbox[i]
        BY <1>9, <1>16, <2>3 DEF LastCommitted
      <3>2. LastCommitted(i)
        BY <1>9, <1>15, <2>3, <3>1 DEF LastCommitted
      <3> QED
        BY <1>1, <2>1, <3>1, <3>2 DEF InOrder
    <2> QED
      BY <1>13, <2>2, <2>3 DEF InOrder
  <1>19. ~reordered' => \A i \in DOMAIN outbox' : outbox'[i].published => i <= topic'
    BY <1>1, <1>9, <1>10 DEF TopicInv
  <1> QED
    BY <1>1, <1>8, <1>9, <1>15, <1>17, <1>18, <1>19 DEF TopicInv

LEMMA CommitTopic ==
    ASSUME CatalogInv, TopicInv, NEW n \in Numbers, CommitEdit(n)
    PROVE  TopicInv'
  <1>1. /\ edits[n].pc = "enqueued" /\ product' = ProductOf(n) /\ variant' = VariantOf(n)
        /\ UNCHANGED <<outbox, relays, topic, crossed, reordered>>
    BY DEF CommitEdit
  <1>2. edits'[n].pc = "answered" /\ \A m \in Numbers \ {n} : edits'[m] = edits[m]
    <2>1. PICK ok : ok = (RouteStatus(200) = 200)
      OBVIOUS
    <2>2. edits' = [edits EXCEPT ![n] = [pc |-> "answered", ok |-> ok]]
      BY <2>1 DEF CommitEdit, Answer
    <2> QED
      BY <2>2 DEF CatalogInv
  <1>3. \A i \in DOMAIN outbox : Committed(i) => Committed(i)'
    BY <1>1, <1>2, RowFacts DEF Committed
  <1>4. \A i \in DOMAIN outbox : outbox[i].kind # "none" =>
          edits'[outbox[i].edit].pc \in {"enqueued", "answered"}
    BY <1>2, RowFacts DEF TopicInv
  <1>5. ~crossed' => InOrder'
    <2> SUFFICES ASSUME ~crossed
                 PROVE  InOrder'
      BY <1>1
    <2>1. InOrder /\ Announces(n)
      BY <1>1 DEF TopicInv, InOrder
    <2>2. \A m \in Numbers : edits'[m].pc # "enqueued"
      BY <1>1, <1>2, <2>1 DEF InOrder
    <2>3. Len(outbox) \in DOMAIN outbox /\ \A i \in DOMAIN outbox : i <= Len(outbox)
      BY <2>1, RowFacts DEF Announces
    <2>4. Committed(Len(outbox))'
      BY <1>1, <1>2, <2>1 DEF Announces, Tells, Committed
    <2>5. \A i \in DOMAIN outbox : LastCommitted(i)' => i = Len(outbox)
      BY <1>1, <2>3, <2>4, RowFacts DEF LastCommitted
    <2>6. Tells(outbox[Len(outbox)], product', variant')
      BY <1>1, <2>1 DEF Announces
    <2> QED
      BY <1>1, <2>2, <2>5, <2>6 DEF InOrder
  <1> QED
    BY <1>1, <1>3, <1>4, <1>5 DEF TopicInv

LEMMA FailTopic ==
    ASSUME CatalogInv, TopicInv, NEW n \in Numbers, EditFails(n)
    PROVE  TopicInv'
  <1>1. /\ edits[n].pc \in {"call", "read", "written", "enqueued"}
        /\ outbox' = [i \in DOMAIN outbox |->
                        IF outbox[i].edit = n THEN [outbox[i] EXCEPT !.kind = "none"] ELSE outbox[i]]
        /\ UNCHANGED <<product, variant, relays, topic, crossed, reordered>>
    BY DEF EditFails
  <1>2. edits'[n].pc = "answered" /\ \A m \in Numbers \ {n} : edits'[m] = edits[m]
    <2>1. PICK status : Answer(n, status)
      BY DEF EditFails
    <2>2. PICK ok : ok = (RouteStatus(status) = 200)
      OBVIOUS
    <2>3. edits' = [edits EXCEPT ![n] = [pc |-> "answered", ok |-> ok]]
      BY <2>1, <2>2 DEF Answer
    <2> QED
      BY <2>3 DEF CatalogInv
  <1>3. /\ outbox \in Seq(Row) /\ Len(outbox) \in Nat /\ DOMAIN outbox = 1 .. Len(outbox)
        /\ \A i \in DOMAIN outbox : outbox[i] \in Row /\ outbox[i].edit \in Numbers
    BY RowFacts DEF TopicInv
  <1>4. ASSUME NEW i \in DOMAIN outbox
        PROVE  /\ outbox[i].edit = n => outbox'[i] \in Row /\ outbox'[i].kind = "none"
               /\ outbox[i].edit # n => outbox'[i] = outbox[i]
               /\ outbox'[i].published => outbox[i].published
               /\ outbox'[i].edit = outbox[i].edit
    <2>1. CASE outbox[i].edit # n
      BY <1>1, <2>1
    <2>2. CASE outbox[i].edit = n
      <3>1. outbox'[i] = [outbox[i] EXCEPT !.kind = "none"] /\ outbox[i] \in Row
        BY <1>1, <1>3, <2>2
      <3>2. outbox'[i] \in Row /\ outbox'[i].kind = "none"
        BY <3>1 DEF Row, Kinds
      <3>3. outbox'[i].published => outbox[i].published
        BY <3>1 DEF Row
      <3>4. outbox'[i].edit = outbox[i].edit
        BY <3>1 DEF Row
      <3> QED
        BY <2>2, <3>2, <3>3, <3>4
    <2> QED
      BY <2>1, <2>2
  <1>5. outbox' \in Seq(Row) /\ DOMAIN outbox' = DOMAIN outbox /\ Len(outbox') = Len(outbox)
    <2>1. DOMAIN outbox' = 1 .. Len(outbox) /\ \A i \in 1 .. Len(outbox) : outbox'[i] \in Row
      BY <1>1, <1>3, <1>4
    <2>2. outbox' = [i \in 1 .. Len(outbox) |-> outbox'[i]]
      BY <1>1, <1>3
    <2>3. outbox' \in [1 .. Len(outbox) -> Row]
      BY <2>1, <2>2
    <2> QED
      BY <1>3, <2>1, <2>3
  <1>6. \A i \in DOMAIN outbox : Committed(i)' <=> Committed(i)
    <2> SUFFICES ASSUME NEW i \in DOMAIN outbox
                 PROVE  Committed(i)' <=> Committed(i)
      OBVIOUS
    <2>1. CASE outbox[i].edit = n
      BY <1>1, <1>4, <2>1 DEF Committed
    <2>2. CASE outbox[i].edit # n
      BY <1>2, <1>3, <1>4, <2>2 DEF Committed
    <2> QED
      BY <2>1, <2>2
  <1>7. \A i \in DOMAIN outbox : LastCommitted(i)' <=> LastCommitted(i)
    BY <1>5, <1>6 DEF LastCommitted
  <1>8. \A i \in DOMAIN outbox : outbox'[i].kind # "none" =>
          edits'[outbox'[i].edit].pc \in {"enqueued", "answered"}
    BY <1>2, <1>3, <1>4 DEF TopicInv
  <1>9. ~crossed' => InOrder'
    <2> SUFFICES ASSUME ~crossed
                 PROVE  InOrder'
      BY <1>1
    <2>1. InOrder
      BY DEF TopicInv
    <2>2. \A m \in Numbers : edits'[m].pc = "enqueued" => m # n /\ edits'[m] = edits[m]
      BY <1>2
    <2>3. ASSUME NEW m \in Numbers, edits'[m].pc = "enqueued" PROVE Announces(m)'
      <3>1. Announces(m) /\ m # n /\ edits'[m] = edits[m]
        BY <2>1, <2>2, <2>3 DEF InOrder
      <3>2. Len(outbox) \in DOMAIN outbox
        BY <1>3, <3>1 DEF Announces
      <3>3. outbox'[Len(outbox')] = outbox[Len(outbox)]
        BY <1>4, <1>5, <3>1, <3>2 DEF Announces
      <3>4. ProductOf(m)' = ProductOf(m) /\ VariantOf(m)' = VariantOf(m)
        BY <1>1, <3>1 DEF ProductOf, VariantOf
      <3> QED
        BY <1>5, <3>1, <3>3, <3>4 DEF Announces, Tells
    <2>4. ASSUME NEW i \in DOMAIN outbox, LastCommitted(i)' PROVE Tells(outbox'[i], product', variant')
      <3>1. LastCommitted(i) /\ outbox'[i].kind # "none"
        BY <1>7, <2>4 DEF LastCommitted, Committed
      <3>2. outbox'[i] = outbox[i]
        BY <1>4, <3>1
      <3> QED
        BY <1>1, <2>1, <3>1, <3>2 DEF InOrder
    <2> QED
      BY <1>5, <2>1, <2>2, <2>3, <2>4 DEF InOrder
  <1>10. ~reordered' => \A i \in DOMAIN outbox' : outbox'[i].published => i <= topic'
    BY <1>1, <1>4, <1>5 DEF TopicInv
  <1> QED
    BY <1>1, <1>5, <1>6, <1>8, <1>9, <1>10 DEF TopicInv

LEMMA ReadBatchTopic ==
    ASSUME TopicInv, NEW r \in Relays, ReadBatch(r)
    PROVE  TopicInv'
  <1>1. /\ relays' = [relays EXCEPT ![r] = Batch]
        /\ UNCHANGED <<product, variant, edits, outbox, topic, crossed, reordered>>
    BY DEF ReadBatch
  <1>2. \A i \in DOMAIN outbox : Committed(i)' <=> Committed(i)
    BY <1>1 DEF Committed
  <1>3. /\ relays' = [q \in Relays |-> relays'[q]]
        /\ \A q \in Relays : \A i \in relays'[q] : i \in DOMAIN outbox /\ Committed(i)
    BY <1>1 DEF TopicInv, Batch, Unpublished
  <1>4. InOrder => InOrder'
    BY <1>1, <1>2 DEF InOrder, Announces, LastCommitted, Tells, ProductOf, VariantOf
  <1> QED
    BY <1>1, <1>2, <1>3, <1>4 DEF TopicInv

LEMMA SendTopic ==
    ASSUME TopicInv, NEW r \in Relays, SendRow(r)
    PROVE  TopicInv'
  <1>1. PICK i \in relays[r] :
          /\ relays' = [relays EXCEPT ![r] = @ \ {i}]
          /\ UNCHANGED <<product, variant, edits, crossed>>
          /\ \/ topic' = i /\ outbox' = [outbox EXCEPT ![i].published = TRUE]
             \/ topic' \in {topic, i} /\ outbox' = [outbox EXCEPT ![i].attempts = @ + 1]
          /\ reordered' = (reordered \/ topic' < topic)
    BY DEF SendRow
  <1>2. i \in DOMAIN outbox /\ Committed(i)
    BY DEF TopicInv
  <1>3. /\ relays' = [q \in Relays |-> relays'[q]]
        /\ \A q \in Relays : \A j \in relays'[q] : j \in DOMAIN outbox /\ Committed(j)
    BY <1>1 DEF TopicInv
  <1>4. /\ outbox \in Seq(Row) /\ Len(outbox) \in Nat /\ DOMAIN outbox = 1 .. Len(outbox)
        /\ \A j \in DOMAIN outbox : outbox[j] \in Row
    BY RowFacts DEF TopicInv
  <1>5. ASSUME NEW x \in Row, outbox' = [outbox EXCEPT ![i] = x], topic' \in {topic, i},
               x.kind = outbox[i].kind, x.edit = outbox[i].edit, x.status = outbox[i].status,
               x.price = outbox[i].price, x.list = outbox[i].list,
               x.published => outbox[i].published \/ topic' = i
        PROVE  TopicInv'
    <2>5. /\ outbox' \in Seq(Row) /\ Len(outbox') = Len(outbox) /\ DOMAIN outbox' = DOMAIN outbox
          /\ outbox'[i] = x /\ \A j \in DOMAIN outbox \ {i} : outbox'[j] = outbox[j]
      BY <1>2, <1>4, <1>5
    <2>6. \A j \in DOMAIN outbox :
            /\ outbox'[j].kind = outbox[j].kind /\ outbox'[j].edit = outbox[j].edit
            /\ outbox'[j].status = outbox[j].status /\ outbox'[j].price = outbox[j].price
            /\ outbox'[j].list = outbox[j].list
      BY <1>5, <2>5
    <2>7. \A j \in DOMAIN outbox : Committed(j)' <=> Committed(j)
      BY <1>1, <2>6 DEF Committed
    <2>8. \A j \in DOMAIN outbox : LastCommitted(j)' <=> LastCommitted(j)
      BY <2>5, <2>7 DEF LastCommitted
    <2>9. \A m \in Numbers : Announces(m) => Announces(m)'
      <3> SUFFICES ASSUME NEW m \in Numbers, Announces(m)
                   PROVE  Announces(m)'
        OBVIOUS
      <3>1. Len(outbox) \in DOMAIN outbox
        BY <1>4 DEF Announces
      <3>2. ProductOf(m)' = ProductOf(m) /\ VariantOf(m)' = VariantOf(m)
        BY <1>1 DEF ProductOf, VariantOf
      <3> QED
        BY <2>5, <2>6, <3>1, <3>2 DEF Announces, Tells
    <2>10. InOrder => InOrder'
      BY <1>1, <2>5, <2>6, <2>8, <2>9 DEF InOrder, Tells
    <2>11. ~reordered' => \A j \in DOMAIN outbox' : outbox'[j].published => j <= topic'
      <3> SUFFICES ASSUME ~reordered', NEW j \in DOMAIN outbox, outbox'[j].published
                   PROVE  j <= topic'
        BY <2>5
      <3>1. ~reordered /\ ~(topic' < topic)
        BY <1>1
      <3>2. topic \in Nat /\ topic' \in Nat /\ j \in Nat
        <4>1. topic \in Nat
          BY DEF TopicInv
        <4>2. i \in Nat /\ j \in Nat
          BY <1>2, <1>4
        <4> QED
          BY <1>5, <4>1, <4>2
      <3>3. CASE outbox[j].published
        <4>1. j <= topic
          BY <3>1, <3>3 DEF TopicInv
        <4> QED
          BY <3>1, <3>2, <4>1
      <3>4. CASE j = i /\ topic' = i
        BY <3>2, <3>4
      <3> QED
        BY <1>5, <2>5, <3>3, <3>4
    <2>12. topic' \in Nat /\ (topic' > 0 => topic' \in DOMAIN outbox' /\ Committed(topic)')
      <3>1. CASE topic' = i
        <4>1. Committed(i)'
          BY <1>2, <2>7
        <4> QED
          BY <1>2, <1>4, <2>5, <3>1, <4>1 DEF Committed
      <3>2. CASE topic' = topic
        <4>1. topic > 0 => topic \in DOMAIN outbox /\ Committed(topic)'
          BY <2>7, <3>2 DEF TopicInv, Committed
        <4> QED
          BY <2>5, <3>2, <4>1 DEF TopicInv
      <3> QED
        BY <1>5, <3>1, <3>2
    <2>13. \A j \in DOMAIN outbox' : outbox'[j].kind # "none" =>
             edits'[outbox'[j].edit].pc \in {"enqueued", "answered"}
      BY <1>1, <2>5, <2>6 DEF TopicInv
    <2> QED
      BY <1>1, <1>3, <2>5, <2>7, <2>10, <2>11, <2>12, <2>13 DEF TopicInv
  <1>6. CASE topic' = i /\ outbox' = [outbox EXCEPT ![i].published = TRUE]
    <2>1. PICK x : x = [outbox[i] EXCEPT !.published = TRUE]
      OBVIOUS
    <2>2. /\ x \in Row /\ x.kind = outbox[i].kind /\ x.edit = outbox[i].edit
          /\ x.status = outbox[i].status /\ x.price = outbox[i].price /\ x.list = outbox[i].list
      BY <1>2, <1>4, <2>1 DEF Row
    <2>3. outbox' = [outbox EXCEPT ![i] = x]
      BY <1>6, <2>1
    <2> QED
      BY <1>5, <1>6, <2>2, <2>3
  <1>7. CASE topic' \in {topic, i} /\ outbox' = [outbox EXCEPT ![i].attempts = @ + 1]
    <2>1. PICK x : x = [outbox[i] EXCEPT !.attempts = @ + 1]
      OBVIOUS
    <2>2. /\ x \in Row /\ x.kind = outbox[i].kind /\ x.edit = outbox[i].edit
          /\ x.status = outbox[i].status /\ x.price = outbox[i].price /\ x.list = outbox[i].list
          /\ x.published = outbox[i].published
      <3>1. PICK k \in Nat : k = outbox[i].attempts + 1
        BY <1>2, <1>4 DEF Row
      <3>2. x = [outbox[i] EXCEPT !.attempts = k] /\ outbox[i] \in Row
        BY <1>2, <1>4, <2>1, <3>1
      <3> QED
        BY <3>2 DEF Row
    <2>3. outbox' = [outbox EXCEPT ![i] = x]
      BY <1>7, <2>1
    <2> QED
      BY <1>5, <1>7, <2>2, <2>3
  <1> QED
    BY <1>1, <1>6, <1>7

LEMMA OutsideTopic ==
    ASSUME CatalogInv, TopicInv, NEW n \in Numbers,
           Guard(n) \/ UpdateProduct(n) \/ ArchiveProduct(n) \/ ReadPrice(n) \/ WritePrice(n)
    PROVE  TopicInv'
  <1>1. /\ edits[n].pc \in {"route", "call", "read"}
        /\ UNCHANGED <<product, variant, outbox, relays, topic, crossed, reordered>>
    BY DEF Guard, UpdateProduct, ArchiveProduct, ReadPrice, WritePrice
  <1>2. IsEdit(edits[n]) /\ edits = [m \in Numbers |-> edits[m]]
    BY <1>1 DEF CatalogInv, EditInv
  <1>3. ASSUME NEW status, Answer(n, status) PROVE TopicInv'
    <2>1. PICK ok : ok = (RouteStatus(status) = 200)
      OBVIOUS
    <2>2. PICK y : y = [pc |-> "answered", ok |-> ok]
      OBVIOUS
    <2>3. edits' = [edits EXCEPT ![n] = y] /\ y.pc = "answered"
      BY <1>3, <2>1, <2>2 DEF Answer
    <2> QED
      BY <1>1, <1>2, <2>3, OutsideStep
  <1>4. ASSUME NEW c \in {"call", "written"}, edits' = [edits EXCEPT ![n].pc = c] PROVE TopicInv'
    <2>1. PICK y : y = [edits[n] EXCEPT !.pc = c]
      OBVIOUS
    <2>2. y.pc = c /\ edits' = [edits EXCEPT ![n] = y]
      BY <1>2, <1>4, <2>1, MovedOn
    <2> QED
      BY <1>1, <1>2, <2>2, OutsideStep
  <1>5. CASE ReadPrice(n)
    <2>1. PICK y : y = [edits[n] EXCEPT !.pc = "read", !.old = variant.price]
      OBVIOUS
    <2>2. edits' = [edits EXCEPT ![n] = y]
      BY <1>2, <1>5, <2>1 DEF ReadPrice
    <2>3. edits[n].op = "price"
      BY <1>5 DEF ReadPrice
    <2>4. y.pc = "read"
      BY <1>2, <2>1, <2>3 DEF IsEdit, PriceFields
    <2> QED
      BY <1>1, <1>2, <2>2, <2>4, OutsideStep
  <1> QED
    BY <1>3, <1>4, <1>5 DEF Guard, UpdateProduct, ArchiveProduct, WritePrice

LEMMA RequestTopic ==
    ASSUME CatalogInv, TopicInv, SendArchive \/ \E o \in Operators : ChangeStatus(o) \/ SavePrice(o)
    PROVE  TopicInv'
  <1>1. /\ NextNumber \in Numbers
        /\ UNCHANGED <<product, variant, outbox, relays, topic, crossed, reordered>>
    BY DEF SendArchive, ChangeStatus, SavePrice
  <1>2. PICK y : Request(NextNumber, y) /\ y.pc = "route"
    <2>1. CASE SendArchive
      <3>1. PICK y : y = [pc |-> "route", op |-> "archive"]
        OBVIOUS
      <3>2. Request(NextNumber, y) /\ y.pc = "route"
        BY <2>1, <3>1 DEF SendArchive
      <3> QED
        BY <3>2
    <2>2. ASSUME NEW o \in Operators, ChangeStatus(o) PROVE \E z : Request(NextNumber, z) /\ z.pc = "route"
      <3>1. PICK s \in Statuses :
              Request(NextNumber, [pc |-> "route", op |-> "status", status |-> s,
                                   version |-> SentVersion(o), seen |-> pages[o].status])
        BY <2>2 DEF ChangeStatus
      <3>2. PICK y : y = [pc |-> "route", op |-> "status", status |-> s,
                          version |-> SentVersion(o), seen |-> pages[o].status]
        OBVIOUS
      <3>3. Request(NextNumber, y) /\ y.pc = "route"
        BY <3>1, <3>2
      <3> QED
        BY <3>3
    <2>3. ASSUME NEW o \in Operators, SavePrice(o) PROVE \E z : Request(NextNumber, z) /\ z.pc = "route"
      <3>1. PICK p \in Prices : Request(NextNumber, [pc |-> "route", op |-> "price", price |-> p,
                                                     list |-> pages[o].list, old |-> 0])
        BY <2>3 DEF SavePrice
      <3>2. PICK y : y = [pc |-> "route", op |-> "price", price |-> p, list |-> pages[o].list, old |-> 0]
        OBVIOUS
      <3>3. Request(NextNumber, y) /\ y.pc = "route"
        BY <3>1, <3>2
      <3> QED
        BY <3>3
    <2> QED
      BY <2>1, <2>2, <2>3
  <1>3. PICK n \in Numbers : n = NextNumber
    BY <1>1
  <1>4. edits[n].pc = "none" /\ edits' = [edits EXCEPT ![n] = y] /\ edits = [m \in Numbers |-> edits[m]]
    BY <1>1, <1>2, <1>3, NumberFacts DEF Request, CatalogInv
  <1> QED
    BY <1>1, <1>2, <1>4, OutsideStep

LEMMA TopicStep ==
    ASSUME CatalogInv, TopicInv, [AdminCatalogNext]_catalogVars
    PROVE  TopicInv'
  <1>1. CASE \E n \in Used : EditGoesOn(n) \/ EditFails(n)
    BY <1>1, OutsideTopic, EnqueueTopic, CommitTopic, FailTopic DEF EditGoesOn, Used
  <1>2. ASSUME UNCHANGED <<product, variant, edits, outbox, relays, topic, crossed, reordered>>
        PROVE  TopicInv'
    <2>1. \A i \in DOMAIN outbox : Committed(i)' <=> Committed(i)
      BY <1>2 DEF Committed
    <2>2. InOrder => InOrder'
      BY <1>2, <2>1 DEF InOrder, Announces, LastCommitted, Tells, ProductOf, VariantOf
    <2> QED
      BY <1>2, <2>1, <2>2 DEF TopicInv
  <1>3. CASE \E o \in Operators, c \in Controls : ControlAnswered(o, c) \/ ControlGivesUp(o, c)
    BY <1>2, <1>3 DEF ControlAnswered, ControlGivesUp
  <1>4. CASE \E r \in Relays : ReadBatch(r) \/ SendRow(r)
    BY <1>4, ReadBatchTopic, SendTopic
  <1>5. CASE \E o \in Operators : RenderCatalog(o)
    BY <1>2, <1>5 DEF RenderCatalog
  <1>6. CASE UNCHANGED catalogVars
    BY <1>2, <1>6 DEF catalogVars
  <1> QED
    BY <1>1, <1>3, <1>4, <1>5, <1>6, RequestTopic DEF AdminCatalogNext, CatalogGoesOn

\* Once everything is published, what compaction keeps of the topic is the product
\* as it is, for any number of relays, operators and edits, unless transactions
\* crossed or a message was sent after a newer one.
THEOREM TopicTellsTheProduct == AdminSpec => []TopicIsCurrent
  <1>1. AdminInit => CatalogInv /\ TopicInv
    BY CatalogStart, TopicStart DEF AdminInit
  <1>2. CatalogInv /\ TopicInv /\ [AdminNext]_adminVars => CatalogInv' /\ TopicInv'
    BY CatalogStep, TopicStep, StepOfCatalog
  <1> QED
    BY <1>1, <1>2, TopicIsLast, PTL DEF AdminSpec
=============================================================================
