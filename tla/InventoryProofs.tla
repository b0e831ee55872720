-------------------------- MODULE InventoryProofs ---------------------------
(***************************************************************************)
(* Proofs about module Inventory, for every number of workers, orders,     *)
(* SKUs and commands, whatever a reservation asks for.                     *)
(***************************************************************************)
EXTENDS Inventory, FiniteSetTheorems, TLAPS

(* What every worker is doing has its type.                                *)
LEMMA WorkFacts ==
    ASSUME TypeOK, NEW w \in Workers
    PROVE  /\ work[w] = NoWork \/ (/\ work[w].stage \in {"claimed", "missed", "short"}
                                   /\ work[w].cmd \in Commands)
           /\ NoWork.stage = "idle"
           /\ work[w] # NoWork => work[w].cmd.rsv \in Reservations
                                  /\ work[w].cmd.n \in Nat
  BY InventoryAssumption DEF TypeOK, Work, NoWork

\* A worker that has a stage other than "idle" has a command.
LEMMA Busy ==
    ASSUME TypeOK, NEW w \in Workers, work[w].stage \in {"claimed", "missed", "short"}
    PROVE  /\ work[w] # NoWork
           /\ work[w].cmd \in Commands
           /\ work[w].cmd.rsv \in Reservations
           /\ work[w].cmd.n \in Nat
           /\ work[w] \in [stage : {"claimed", "missed", "short"}, cmd : Commands]
  BY InventoryAssumption DEF TypeOK, Work, NoWork

LEMMA BookType ==
    ASSUME TypeOK, NEW s \in Skus, NEW m \in Movements, NEW q \in Int
    PROVE  Book(s, m, q) \in [Movements -> Int]
  BY DEF TypeOK, Book

LEMMA StockTypes ==
    ASSUME TypeOK, NEW r \in Reservations,
           TryTake(r) \/ CommitLine(r) \/ ReturnLine(r) \/ UNCHANGED stockVars
    PROVE  /\ onHand' \in [Skus -> Int] /\ reserved' \in [Skus -> Int]
           /\ announced' \in [Skus -> Int]
           /\ ledger' \in [Skus -> [Movements -> Int]]
  <1>1. \A s \in Skus : Qty[r][s] \in Nat
    BY InventoryAssumption
  <1>2. \A s \in Skus : /\ Book(s, "RESERVATION", Qty[r][s]) \in [Movements -> Int]
                        /\ Book(s, "COMMIT", -Qty[r][s]) \in [Movements -> Int]
                        /\ Book(s, "RELEASE", -Qty[r][s]) \in [Movements -> Int]
    <2> SUFFICES ASSUME NEW s \in Skus
                 PROVE  \A m \in Movements, q \in {Qty[r][s], -Qty[r][s]} :
                            Book(s, m, q) \in [Movements -> Int]
      BY DEF Movements
    <2>1. Qty[r][s] \in Int /\ -Qty[r][s] \in Int
      BY <1>1
    <2> QED
      BY <2>1, BookType
  <1>3. CASE TryTake(r)
    BY <1>1, <1>2, <1>3 DEF TypeOK, TryTake
  <1>4. CASE CommitLine(r)
    <2>1. \A s \in Skus : /\ onHand[s] - Qty[r][s] \in Int /\ reserved[s] - Qty[r][s] \in Int
                          /\ (IF Qty[r][s] > 0 THEN onHand[s] - Qty[r][s] ELSE announced[s]) \in Int
      BY <1>1 DEF TypeOK
    <2> QED
      BY <1>2, <1>4, <2>1 DEF CommitLine
  <1>5. CASE ReturnLine(r)
    BY <1>1, <1>2, <1>5 DEF TypeOK, ReturnLine
  <1>6. CASE UNCHANGED stockVars
    BY <1>6 DEF TypeOK, stockVars
  <1> QED
    BY <1>3, <1>4, <1>5, <1>6

LEMMA MarkType ==
    ASSUME TypeOK, NEW r \in Reservations, NEW st \in RsvStates, Mark(r, st)
    PROVE  rsv' \in [Reservations -> RsvStates]
  BY DEF TypeOK, Mark

LEMMA EmitType ==
    ASSUME TypeOK, NEW c, c.rsv \in Reservations, c.n \in Nat,
           NEW t \in {"Reserved", "ReserveFailed", "Released", "Committed"}, Emit(t, c)
    PROVE  events' \subseteq InvEvents
  BY DEF TypeOK, Emit, InvEvents

LEMMA DoneType ==
    ASSUME TypeOK, NEW w \in Workers, Done(w)
    PROVE  /\ work' \in [Workers -> Work]
           /\ commands' \subseteq Commands /\ inbox' \subseteq Commands
           /\ dropped' \subseteq Commands /\ faults' \in Nat
  BY DEF TypeOK, Done, Work

LEMMA ParkType ==
    ASSUME TypeOK, NEW w \in Workers, work[w].stage \in {"claimed", "missed", "short"}, Park(w)
    PROVE  TypeOK'
  <1>1. work[w].cmd \in Commands
    BY Busy
  <1> QED
    BY <1>1, DoneType DEF TypeOK, Park, stockVars

LEMMA GotoType ==
    ASSUME TypeOK, NEW w \in Workers, work[w].stage \in {"claimed", "missed", "short"},
           NEW st \in {"claimed", "missed", "short"}, Goto(w, st)
    PROVE  TypeOK'
  <1>1. [work[w] EXCEPT !.stage = st] \in Work
    BY Busy DEF Work
  <1>2. work' = [work EXCEPT ![w] = [work[w] EXCEPT !.stage = st]]
    BY DEF Goto, TypeOK
  <1>3. work' \in [Workers -> Work]
    BY <1>1, <1>2 DEF TypeOK
  <1> QED
    BY <1>3 DEF TypeOK, Goto, stockVars

LEMMA TypeStep == TypeOK /\ [Next]_vars => TypeOK'
  <1> SUFFICES ASSUME TypeOK, [Next]_vars
               PROVE  TypeOK'
    OBVIOUS
  <1> USE DEF stockVars
  <1>1. ASSUME NEW c \in Commands, Send(c)
        PROVE  TypeOK'
    BY <1>1 DEF TypeOK, Send
  <1>2. ASSUME NEW w \in Workers, NEW c \in commands, Claim(w, c) \/ ClaimFails(w, c)
        PROVE  TypeOK'
    <2>1. [stage |-> "claimed", cmd |-> c] \in Work /\ c \in Commands
      BY DEF TypeOK, Work
    <2> QED
      BY <1>2, <2>1, InventoryAssumption DEF TypeOK, Claim, ClaimFails
  <1>3. ASSUME NEW w \in Workers, Apply(w)
        PROVE  TypeOK'
    <2> DEFINE c == work[w].cmd
    <2> USE DEF At, Inserts
    <2>0. work[w].stage \in {"claimed", "missed", "short"}
      BY <1>3 DEF Apply, Miss, Conflict, ReserveKnown, ReserveTake, ReserveShort, PublishFailure,
         ReleaseTombstone, ReleaseHeld, ReleaseAgain, ReleaseRefused, CommitHeld, CommitAgain,
         CommitRefused
    <2>1. c \in Commands /\ c.rsv \in Reservations /\ c.n \in Nat
      BY <2>0, Busy
    <2>2. CASE Miss(w) \/ ReserveShort(w)
      BY <2>0, <2>2, GotoType DEF Miss, ReserveShort
    <2>3. CASE Conflict(w) \/ ReleaseRefused(w) \/ CommitRefused(w)
      BY <2>0, <2>3, ParkType DEF Conflict, ReleaseRefused, CommitRefused
    <2>4. CASE ReserveKnown(w)
      BY <2>4, DoneType DEF ReserveKnown, TypeOK
    <2>5. CASE ReserveTake(w)
      <3>1. rsv' \in [Reservations -> RsvStates] /\ events' \subseteq InvEvents
        BY <2>1, <2>5, MarkType, EmitType DEF ReserveTake, RsvStates
      <3> QED
        BY <2>1, <2>5, <3>1, StockTypes, DoneType DEF ReserveTake, TypeOK
    <2>6. CASE PublishFailure(w)
      <3>1. CASE rsv[c.rsv] = "NONE" /\ OrderTaken(c.rsv)
        BY <2>0, <2>6, <3>1, ParkType DEF PublishFailure
      <3>2. CASE ~(rsv[c.rsv] = "NONE" /\ OrderTaken(c.rsv))
        <4>1. (IF rsv[c.rsv] = "NONE" THEN "FAILED" ELSE rsv[c.rsv]) \in RsvStates
          BY <2>1 DEF TypeOK, RsvStates
        <4>2. rsv' \in [Reservations -> RsvStates] /\ events' \subseteq InvEvents
          BY <2>1, <2>6, <3>2, <4>1, MarkType, EmitType DEF PublishFailure
        <4> QED
          BY <2>6, <3>2, <4>2, DoneType DEF PublishFailure, TypeOK
      <3> QED
        BY <3>1, <3>2
    <2>7. CASE ReleaseTombstone(w)
      <3>1. rsv' \in [Reservations -> RsvStates] /\ events' \subseteq InvEvents
        BY <2>1, <2>7, MarkType, EmitType DEF ReleaseTombstone, RsvStates
      <3> QED
        BY <2>7, <3>1, DoneType DEF ReleaseTombstone, TypeOK
    <2>8. CASE ReleaseHeld(w)
      <3>1. rsv' \in [Reservations -> RsvStates] /\ events' \subseteq InvEvents
        BY <2>1, <2>8, MarkType, EmitType DEF ReleaseHeld, RsvStates
      <3> QED
        BY <2>1, <2>8, <3>1, StockTypes, DoneType DEF ReleaseHeld, TypeOK
    <2>9. CASE ReleaseAgain(w) \/ CommitAgain(w)
      <3>1. events' \subseteq InvEvents
        BY <2>1, <2>9, EmitType DEF ReleaseAgain, CommitAgain
      <3> QED
        BY <2>9, <3>1, DoneType DEF ReleaseAgain, CommitAgain, TypeOK
    <2>10. CASE CommitHeld(w)
      <3>1. rsv' \in [Reservations -> RsvStates] /\ events' \subseteq InvEvents
        BY <2>1, <2>10, MarkType, EmitType DEF CommitHeld, RsvStates
      <3> QED
        BY <2>1, <2>10, <3>1, StockTypes, DoneType DEF CommitHeld, TypeOK
    <2> QED
      BY <1>3, <2>2, <2>3, <2>4, <2>5, <2>6, <2>7, <2>8, <2>9, <2>10 DEF Apply
  <1>4. ASSUME NEW w \in Workers, Fault(w)
        PROVE  TypeOK'
    BY <1>4, WorkFacts DEF Fault, TypeOK, Work
  <1>5. ASSUME NEW r \in Reservations, SweepExpired(r)
        PROVE  TypeOK'
    <2> DEFINE c == [rsv |-> r, n |-> 0]
    <2>1. rsv' \in [Reservations -> RsvStates]
      BY <1>5, MarkType DEF SweepExpired, RsvStates
    <2>2. events' \subseteq InvEvents
      BY <1>5, EmitType DEF SweepExpired
    <2> QED
      BY <1>5, <2>1, <2>2, StockTypes DEF SweepExpired, TypeOK
  <1>6. ASSUME NEW s \in Skus, NEW d \in Deltas, Adjust(s, d)
        PROVE  TypeOK'
    <2>1. d \in Int /\ Book(s, "ADJUST", d) \in [Movements -> Int]
      BY InventoryAssumption, BookType DEF Movements
    <2> QED
      BY <1>6, <2>1 DEF Adjust, TypeOK
  <1>7. CASE UNCHANGED vars
    BY <1>7 DEF vars, TypeOK
  <1> QED
    BY <1>1, <1>2, <1>3, <1>4, <1>5, <1>6, <1>7 DEF Next

LEMMA TypeInit == Init => TypeOK
  BY InventoryAssumption DEF Init, TypeOK, Work, RsvStates, Movements

\* Every variable keeps its type, whichever commands arrive and whatever fails.
THEOREM TypeCorrect == Spec => []TypeOK
  BY TypeInit, TypeStep, PTL DEF Spec
-----------------------------------------------------------------------------
(* Counting the units that open reservations hold.                         *)

Block(r, s) == {r} \X (1 .. Qty[r][s])

LEMMA UpTo == \A n \in Nat : IsFiniteSet(1 .. n) /\ Cardinality(1 .. n) = n
  <1> SUFFICES ASSUME NEW n \in Nat
               PROVE  IsFiniteSet(1 .. n) /\ Cardinality(1 .. n) = n
    OBVIOUS
  <1>1. 1 \in Int /\ n \in Int
    OBVIOUS
  <1>2. IsFiniteSet(1 .. n) /\ Cardinality(1 .. n) = IF 1 > n THEN 0 ELSE n - 1 + 1
    BY ONLY <1>1, FS_Interval
  <1> QED
    BY <1>2

LEMMA BlockSize ==
    ASSUME NEW r \in Reservations, NEW s \in Skus
    PROVE  IsFiniteSet(Block(r, s)) /\ Cardinality(Block(r, s)) = Qty[r][s]
  <1>1. Qty[r][s] \in Nat
    BY InventoryAssumption
  <1>2. IsFiniteSet(1 .. Qty[r][s]) /\ Cardinality(1 .. Qty[r][s]) = Qty[r][s]
    BY <1>1, UpTo
  <1>3. IsFiniteSet({r}) /\ Cardinality({r}) = 1
    BY FS_Singleton
  <1>4. /\ IsFiniteSet({r} \X (1 .. Qty[r][s]))
        /\ Cardinality({r} \X (1 .. Qty[r][s])) = Cardinality({r}) * Cardinality(1 .. Qty[r][s])
    BY ONLY <1>2, <1>3, FS_Product
  <1> QED
    BY <1>1, <1>2, <1>3, <1>4 DEF Block

\* The units held change with the row of r alone: by all of its units when it
\* becomes or stops being RESERVED, by nothing otherwise.
LEMMA HeldByMark ==
    ASSUME TypeOK, NEW r \in Reservations, NEW st, Mark(r, st), NEW s \in Skus
    PROVE  /\ st = "RESERVED" => Held(s)' = Held(s) \cup Block(r, s)
           /\ st # "RESERVED" => Held(s)' = Held(s) \ Block(r, s)
           /\ rsv[r] = "RESERVED" => Block(r, s) \subseteq Held(s)
           /\ rsv[r] # "RESERVED" => Block(r, s) \cap Held(s) = {}
  <1>1. Open' = IF st = "RESERVED" THEN Open \cup {r} ELSE Open \ {r}
    <2>1. \A q \in Reservations : rsv'[q] = IF q = r THEN st ELSE rsv[q]
      BY DEF Mark, TypeOK
    <2>2. CASE st = "RESERVED"
      BY <2>1, <2>2 DEF Open
    <2>3. CASE st # "RESERVED"
      BY <2>1, <2>3 DEF Open
    <2> QED
      BY <2>2, <2>3
  <1>2. r \in Open <=> rsv[r] = "RESERVED"
    BY DEF Open
  <1>3. Held(s)' = UNION {Block(q, s) : q \in Open'} /\ Held(s) = UNION {Block(q, s) : q \in Open}
    BY DEF Held, Block
  <1>4. \A q : q # r => Block(q, s) \cap Block(r, s) = {}
    BY DEF Block
  <1>5. CASE st = "RESERVED"
    BY <1>1, <1>2, <1>3, <1>4, <1>5
  <1>6. CASE st # "RESERVED"
    BY <1>1, <1>2, <1>3, <1>4, <1>6
  <1> QED
    BY <1>5, <1>6

\* The same, counted.
LEMMA HeldCount ==
    ASSUME TypeOK, NEW r \in Reservations, NEW st, Mark(r, st), NEW s \in Skus,
           IsFiniteSet(Held(s))
    PROVE  /\ IsFiniteSet(Held(s)')
           /\ Cardinality(Held(s)) \in Nat /\ Cardinality(Held(s)') \in Nat
           /\ rsv[r] # "RESERVED" /\ st = "RESERVED" =>
                Cardinality(Held(s)') = Cardinality(Held(s)) + Qty[r][s]
           /\ rsv[r] = "RESERVED" /\ st # "RESERVED" =>
                Cardinality(Held(s)') = Cardinality(Held(s)) - Qty[r][s]
           /\ (rsv[r] = "RESERVED" <=> st = "RESERVED") => Held(s)' = Held(s)
  <1> DEFINE H == Held(s)
             B == Block(r, s)
             G == Held(s)'
  <1>1. IsFiniteSet(B) /\ Cardinality(B) = Qty[r][s] /\ Qty[r][s] \in Nat
    BY BlockSize, InventoryAssumption
  <1>2. /\ st = "RESERVED" => G = H \cup B
        /\ st # "RESERVED" => G = H \ B
        /\ rsv[r] = "RESERVED" => B \subseteq H
        /\ rsv[r] # "RESERVED" => B \cap H = {}
    BY HeldByMark
  <1>3. IsFiniteSet(H)
    OBVIOUS
  <1> HIDE DEF H, B, G
  <1>4. /\ IsFiniteSet(H \cup B)
        /\ Cardinality(H \cup B) = Cardinality(H) + Cardinality(B) - Cardinality(H \cap B)
    BY <1>1, <1>3, FS_Union
  <1>5. /\ IsFiniteSet(H \ B)
        /\ Cardinality(H \ B) = Cardinality(H) - Cardinality(H \cap B)
    BY <1>3, FS_Difference
  <1>6. Cardinality({}) = 0 /\ Cardinality(H) \in Nat /\ Cardinality(H \ B) \in Nat
        /\ Cardinality(H \cup B) \in Nat
    BY <1>3, <1>4, <1>5, FS_EmptySet, FS_CardinalityType
  <1>7. rsv[r] # "RESERVED" => H \cap B = {}
    BY <1>2
  <1>8. rsv[r] = "RESERVED" => H \cap B = B
    BY <1>2
  <1>9. (rsv[r] = "RESERVED" <=> st = "RESERVED") => G = H
    BY <1>2
  <1>10. ASSUME rsv[r] # "RESERVED", st = "RESERVED"
         PROVE  G = H \cup B /\ Cardinality(H \cup B) = Cardinality(H) + Qty[r][s]
    <2>1. Cardinality(H \cap B) = 0
      BY <1>6, <1>7, <1>10
    <2> QED
      BY <1>1, <1>2, <1>4, <1>6, <1>10, <2>1
  <1>11. ASSUME rsv[r] = "RESERVED", st # "RESERVED"
         PROVE  G = H \ B /\ Cardinality(H \ B) = Cardinality(H) - Qty[r][s]
    <2>1. Cardinality(H \cap B) = Qty[r][s]
      BY <1>1, <1>8, <1>11
    <2> QED
      BY <1>1, <1>2, <1>5, <1>6, <1>11, <2>1
  <1>12. /\ IsFiniteSet(G) /\ Cardinality(H) \in Nat /\ Cardinality(G) \in Nat
         /\ rsv[r] # "RESERVED" /\ st = "RESERVED" => Cardinality(G) = Cardinality(H) + Qty[r][s]
         /\ rsv[r] = "RESERVED" /\ st # "RESERVED" => Cardinality(G) = Cardinality(H) - Qty[r][s]
    BY <1>2, <1>4, <1>5, <1>6, <1>10, <1>11
  <1> QED
    BY <1>9, <1>12 DEF H, G
-----------------------------------------------------------------------------
(* What a step can do to the table of reservations and to the stock.       *)

RowStep(r) ==
    \/ /\ rsv[r] = "NONE" /\ ~OrderTaken(r) /\ Takeable(r)
       /\ TryTake(r) /\ Mark(r, "RESERVED")
    \/ /\ rsv[r] = "NONE" /\ ~OrderTaken(r)
       /\ \E st \in {"RELEASED", "FAILED"} : Mark(r, st)
       /\ UNCHANGED stockVars
    \/ rsv[r] = "RESERVED" /\ ReturnLine(r) /\ Mark(r, "RELEASED")
    \/ rsv[r] = "RESERVED" /\ CommitLine(r) /\ Mark(r, "COMMITTED")

TableStep ==
    \/ \E r \in Reservations : RowStep(r)
    \/ \E s \in Skus, d \in Deltas : Adjust(s, d)
    \/ UNCHANGED <<stockVars, rsv>>

LEMMA StepIsTableStep == TypeOK /\ [Next]_vars => TableStep
  <1> SUFFICES ASSUME TypeOK, [Next]_vars
               PROVE  TableStep
    OBVIOUS
  <1>1. ASSUME NEW c \in Commands, Send(c)
        PROVE  TableStep
    BY <1>1 DEF Send, TableStep, stockVars
  <1>2. ASSUME NEW w \in Workers, NEW c \in commands, Claim(w, c) \/ ClaimFails(w, c)
        PROVE  TableStep
    BY <1>2 DEF Claim, ClaimFails, TableStep, stockVars
  <1>3. ASSUME NEW w \in Workers, Apply(w)
        PROVE  TableStep
    <2> DEFINE r == work[w].cmd.rsv
    <2>1. work[w].stage \in {"claimed", "missed", "short"}
      BY <1>3 DEF Apply, Miss, Conflict, ReserveKnown, ReserveTake, ReserveShort, PublishFailure,
         ReleaseTombstone, ReleaseHeld, ReleaseAgain, ReleaseRefused, CommitHeld, CommitAgain,
         CommitRefused, At, Inserts
    <2>2. r \in Reservations
      BY <2>1, Busy
    <2>3. SUFFICES ASSUME ~UNCHANGED <<stockVars, rsv>>
                   PROVE  RowStep(r)
      BY <2>2 DEF TableStep
    <2> HIDE DEF r
    <2>4. ReserveTake(w) => RowStep(r)
      BY DEF ReserveTake, Inserts, RowStep, r
    <2>5. PublishFailure(w) => RowStep(r)
      <3> SUFFICES ASSUME PublishFailure(w)
                   PROVE  RowStep(r)
        OBVIOUS
      <3>1. rsv[r] = "NONE"
        BY <2>2, <2>3 DEF PublishFailure, Park, Mark, TypeOK, stockVars, r
      <3>2. ~OrderTaken(r)
        BY <2>3, <3>1 DEF PublishFailure, Park, stockVars, r
      <3> QED
        BY <3>1, <3>2 DEF PublishFailure, RowStep, r
    <2>6. ReleaseTombstone(w) => RowStep(r)
      BY DEF ReleaseTombstone, Inserts, RowStep, r
    <2>7. ReleaseHeld(w) \/ CommitHeld(w) => RowStep(r)
      BY DEF ReleaseHeld, CommitHeld, RowStep, r
    <2>8. Miss(w) \/ Conflict(w) \/ ReserveKnown(w) \/ ReserveShort(w) \/ ReleaseAgain(w)
          \/ ReleaseRefused(w) \/ CommitAgain(w) \/ CommitRefused(w) => FALSE
      BY <2>3 DEF Miss, Conflict, ReserveKnown, ReserveShort, ReleaseAgain, ReleaseRefused,
         CommitAgain, CommitRefused, Goto, Park, stockVars
    <2> QED
      BY <1>3, <2>4, <2>5, <2>6, <2>7, <2>8 DEF Apply
  <1>4. ASSUME NEW w \in Workers, Fault(w)
        PROVE  TableStep
    BY <1>4 DEF Fault, TableStep, stockVars
  <1>5. ASSUME NEW r \in Reservations, SweepExpired(r)
        PROVE  TableStep
    BY <1>5 DEF SweepExpired, RowStep, TableStep
  <1>6. ASSUME NEW s \in Skus, NEW d \in Deltas, Adjust(s, d)
        PROVE  TableStep
    BY <1>6 DEF TableStep
  <1>7. CASE UNCHANGED vars
    BY <1>7 DEF vars, TableStep, stockVars
  <1> QED
    BY <1>1, <1>2, <1>3, <1>4, <1>5, <1>6, <1>7 DEF Next
-----------------------------------------------------------------------------
(* The inductive invariant of the stock: the two stated invariants, and    *)
(* that the units held are finitely many, so that they can be counted.     *)

Books(s, n) ==
    /\ reserved[s] = n /\ reserved[s] <= onHand[s]
    /\ onHand[s] = InitialStock[s] + ledger[s]["ADJUST"] + ledger[s]["COMMIT"]
    /\ reserved[s] = ledger[s]["RESERVATION"] + ledger[s]["RELEASE"] + ledger[s]["COMMIT"]
    /\ announced[s] = onHand[s]

Balanced(s) == IsFiniteSet(Held(s)) /\ Books(s, Cardinality(Held(s)))

StockInv == \A s \in Skus : Balanced(s)

Numbers(s) ==
    /\ onHand[s] \in Int /\ reserved[s] \in Int /\ announced[s] \in Int
    /\ InitialStock[s] \in Nat
    /\ \A r \in Reservations : Qty[r][s] \in Nat
    /\ ledger[s]["ADJUST"] \in Int /\ ledger[s]["COMMIT"] \in Int
    /\ ledger[s]["RESERVATION"] \in Int /\ ledger[s]["RELEASE"] \in Int

LEMMA StockIsNumeric == TypeOK => \A s \in Skus : Numbers(s)
  BY InventoryAssumption DEF TypeOK, Movements, Numbers

\* A booking moves one column of the ledger.
LEMMA Booked ==
    ASSUME TypeOK, NEW s \in Skus, NEW m \in Movements, NEW q \in Int,
           ledger'[s] = Book(s, m, q)
    PROVE  /\ ledger'[s][m] = ledger[s][m] + q
           /\ \A k \in Movements \ {m} : ledger'[s][k] = ledger[s][k]
  BY DEF TypeOK, Book

LEMMA TakeKeepsStock ==
    ASSUME TypeOK, StockInv, NEW r \in Reservations, rsv[r] = "NONE", Takeable(r),
           TryTake(r), Mark(r, "RESERVED")
    PROVE  StockInv'
  <1> SUFFICES ASSUME NEW s \in Skus
               PROVE  Balanced(s)'
    BY DEF StockInv
  <1>1. Numbers(s) /\ IsFiniteSet(Held(s))
    BY StockIsNumeric DEF StockInv, Balanced
  <1>2. PICK k \in Nat : k = Cardinality(Held(s)) /\ Books(s, k)
    BY <1>1, FS_CardinalityType DEF StockInv, Balanced, Books
  <1>3. PICK l \in Nat : l = Cardinality(Held(s)') /\ l = k + Qty[r][s] /\ IsFiniteSet(Held(s)')
    BY <1>1, <1>2, HeldCount
  <1>4. onHand[s] - reserved[s] >= Qty[r][s]
    <2>1. CASE Qty[r][s] > 0
      BY <2>1 DEF Takeable
    <2>2. CASE ~(Qty[r][s] > 0)
      BY <1>1, <1>2, <2>2 DEF Books, Numbers
    <2> QED
      BY <2>1, <2>2
  <1>5. /\ reserved'[s] = reserved[s] + Qty[r][s] /\ onHand'[s] = onHand[s]
        /\ announced'[s] = announced[s] /\ ledger'[s] = Book(s, "RESERVATION", Qty[r][s])
    BY DEF TryTake
  <1>6. Qty[r][s] \in Int
    BY <1>1 DEF Numbers
  <1>7. /\ ledger'[s]["RESERVATION"] = ledger[s]["RESERVATION"] + Qty[r][s]
        /\ \A m \in {"COMMIT", "RELEASE", "ADJUST"} : ledger'[s][m] = ledger[s][m]
    BY <1>5, <1>6, Booked DEF Movements
  <1>8. Books(s, l)'
    BY <1>1, <1>2, <1>3, <1>4, <1>5, <1>7 DEF Books, Numbers
  <1> QED
    BY <1>3, <1>8 DEF Balanced, Books

LEMMA ReturnKeepsStock ==
    ASSUME TypeOK, StockInv, NEW r \in Reservations, rsv[r] = "RESERVED",
           ReturnLine(r), Mark(r, "RELEASED")
    PROVE  StockInv'
  <1> SUFFICES ASSUME NEW s \in Skus
               PROVE  Balanced(s)'
    BY DEF StockInv
  <1>1. Numbers(s) /\ IsFiniteSet(Held(s))
    BY StockIsNumeric DEF StockInv, Balanced
  <1>2. PICK k \in Nat : k = Cardinality(Held(s)) /\ Books(s, k)
    BY <1>1, FS_CardinalityType DEF StockInv, Balanced, Books
  <1>3. PICK l \in Nat : l = Cardinality(Held(s)') /\ l = k - Qty[r][s] /\ IsFiniteSet(Held(s)')
    BY <1>1, <1>2, HeldCount
  <1>4. reserved[s] >= Qty[r][s]
    BY <1>1, <1>2, <1>3 DEF Books, Numbers
  <1>5. /\ reserved'[s] = reserved[s] - Qty[r][s] /\ onHand'[s] = onHand[s]
        /\ announced'[s] = announced[s] /\ ledger'[s] = Book(s, "RELEASE", -Qty[r][s])
    BY <1>4 DEF ReturnLine
  <1>6. -Qty[r][s] \in Int
    BY <1>1 DEF Numbers
  <1>7. /\ ledger'[s]["RELEASE"] = ledger[s]["RELEASE"] + (-Qty[r][s])
        /\ \A m \in {"COMMIT", "RESERVATION", "ADJUST"} : ledger'[s][m] = ledger[s][m]
    BY <1>5, <1>6, Booked DEF Movements
  <1>8. Books(s, l)'
    <2>1. PICK q \in Nat : q = Qty[r][s]
      BY <1>1 DEF Numbers
    <2>2. ledger'[s]["RELEASE"] = ledger[s]["RELEASE"] - q
      BY <1>1, <1>7, <2>1 DEF Numbers
    <2>3. reserved'[s] = l /\ reserved'[s] <= onHand'[s]
      BY <1>1, <1>2, <1>3, <1>5, <2>1 DEF Books, Numbers
    <2>4. onHand'[s] = InitialStock[s] + ledger'[s]["ADJUST"] + ledger'[s]["COMMIT"]
          /\ announced'[s] = onHand'[s]
      BY <1>2, <1>5, <1>7 DEF Books
    <2>5. reserved'[s] = ledger'[s]["RESERVATION"] + ledger'[s]["RELEASE"] + ledger'[s]["COMMIT"]
      BY <1>1, <1>2, <1>5, <1>7, <2>1, <2>2 DEF Books, Numbers
    <2> QED
      BY <2>3, <2>4, <2>5 DEF Books
  <1> QED
    BY <1>3, <1>8 DEF Balanced, Books

LEMMA CommitKeepsStock ==
    ASSUME TypeOK, StockInv, NEW r \in Reservations, rsv[r] = "RESERVED",
           CommitLine(r), Mark(r, "COMMITTED")
    PROVE  StockInv'
  <1> SUFFICES ASSUME NEW s \in Skus
               PROVE  Balanced(s)'
    BY DEF StockInv
  <1>1. Numbers(s) /\ IsFiniteSet(Held(s))
    BY StockIsNumeric DEF StockInv, Balanced
  <1>2. PICK k \in Nat : k = Cardinality(Held(s)) /\ Books(s, k)
    BY <1>1, FS_CardinalityType DEF StockInv, Balanced, Books
  <1>3. PICK l \in Nat : l = Cardinality(Held(s)') /\ l = k - Qty[r][s] /\ IsFiniteSet(Held(s)')
    BY <1>1, <1>2, HeldCount
  <1>4. /\ reserved'[s] = reserved[s] - Qty[r][s] /\ onHand'[s] = onHand[s] - Qty[r][s]
        /\ announced'[s] = IF Qty[r][s] > 0 THEN onHand[s] - Qty[r][s] ELSE announced[s]
        /\ ledger'[s] = Book(s, "COMMIT", -Qty[r][s])
    BY DEF CommitLine
  <1>5. announced'[s] = onHand[s] - Qty[r][s]
    BY <1>1, <1>2, <1>4 DEF Books, Numbers
  <1>6. -Qty[r][s] \in Int
    BY <1>1 DEF Numbers
  <1>7. /\ ledger'[s]["COMMIT"] = ledger[s]["COMMIT"] + (-Qty[r][s])
        /\ \A m \in {"RELEASE", "RESERVATION", "ADJUST"} : ledger'[s][m] = ledger[s][m]
    BY <1>4, <1>6, Booked DEF Movements
  <1>8. Books(s, l)'
    BY <1>1, <1>2, <1>3, <1>4, <1>5, <1>7 DEF Books, Numbers
  <1> QED
    BY <1>3, <1>8 DEF Balanced, Books

LEMMA AdjustKeepsStock ==
    ASSUME TypeOK, StockInv, NEW t \in Skus, NEW d \in Deltas, Adjust(t, d)
    PROVE  StockInv'
  <1> SUFFICES ASSUME NEW s \in Skus
               PROVE  Balanced(s)'
    BY DEF StockInv
  <1>1. Numbers(s) /\ IsFiniteSet(Held(s)) /\ Held(s)' = Held(s) /\ reserved' = reserved
    BY StockIsNumeric DEF StockInv, Balanced, Adjust, Held, Open
  <1>2. PICK k \in Nat : k = Cardinality(Held(s)) /\ Books(s, k)
    BY <1>1, FS_CardinalityType DEF StockInv, Balanced, Books
  <1>3. Books(s, k)'
    <2>1. CASE s # t
      <3>1. onHand'[s] = onHand[s] /\ announced'[s] = announced[s] /\ ledger'[s] = ledger[s]
        BY <2>1 DEF Adjust, TypeOK
      <3> QED
        BY <1>1, <1>2, <3>1 DEF Books
    <2>2. CASE s = t
      <3>1. /\ onHand'[s] = onHand[s] + d /\ announced'[s] = onHand[s] + d
            /\ ledger'[s] = Book(s, "ADJUST", d) /\ onHand[s] + d >= reserved[s]
        BY <2>2 DEF Adjust, TypeOK
      <3>2. d \in Int
        BY InventoryAssumption
      <3>3. /\ ledger'[s]["ADJUST"] = ledger[s]["ADJUST"] + d
            /\ \A m \in {"RELEASE", "RESERVATION", "COMMIT"} : ledger'[s][m] = ledger[s][m]
        BY <3>1, <3>2, Booked DEF Movements
      <3> QED
        BY <1>1, <1>2, <3>1, <3>2, <3>3 DEF Books, Numbers
    <2> QED
      BY <2>1, <2>2
  <1> QED
    BY <1>1, <1>2, <1>3 DEF Balanced, Books

LEMMA StockStep == TypeOK /\ StockInv /\ TableStep => StockInv'
  <1> SUFFICES ASSUME TypeOK, StockInv, TableStep
               PROVE  StockInv'
    OBVIOUS
  <1>1. ASSUME NEW r \in Reservations, RowStep(r)
        PROVE  StockInv'
    <2>1. ASSUME rsv[r] = "NONE", NEW st \in {"RELEASED", "FAILED"}, Mark(r, st), UNCHANGED stockVars
          PROVE  StockInv'
      <3>1. \A s \in Skus : Held(s)' = Held(s)
        BY <2>1, HeldCount DEF StockInv, Balanced
      <3> QED
        BY <2>1, <3>1 DEF StockInv, Balanced, Books, stockVars
    <2> QED
      BY <1>1, <2>1, TakeKeepsStock, ReturnKeepsStock, CommitKeepsStock DEF RowStep
  <1>2. ASSUME NEW s \in Skus, NEW d \in Deltas, Adjust(s, d)
        PROVE  StockInv'
    BY <1>2, AdjustKeepsStock
  <1>3. CASE UNCHANGED <<stockVars, rsv>>
    BY <1>3 DEF StockInv, Balanced, Books, Held, Open, stockVars
  <1> QED
    BY <1>1, <1>2, <1>3 DEF TableStep

LEMMA StockInit == Init => StockInv
  <1> SUFFICES ASSUME Init, NEW s \in Skus
               PROVE  Balanced(s)
    BY DEF StockInv
  <1>1. Held(s) = {}
    BY DEF Init, Held, Open
  <1>2. IsFiniteSet(Held(s)) /\ Cardinality(Held(s)) = 0
    BY <1>1, FS_EmptySet
  <1>3. /\ onHand[s] = InitialStock[s] /\ announced[s] = InitialStock[s] /\ reserved[s] = 0
        /\ \A m \in Movements : ledger[s][m] = 0
        /\ InitialStock[s] \in Nat
    BY InventoryAssumption DEF Init
  <1> QED
    BY <1>2, <1>3 DEF Balanced, Books, Movements

LEMMA StockAlways == Spec => [](TypeOK /\ StockInv)
  <1>1. Init => TypeOK /\ StockInv
    BY TypeInit, StockInit
  <1>2. TypeOK /\ StockInv /\ [Next]_vars => TypeOK' /\ StockInv'
    BY TypeStep, StepIsTableStep, StockStep
  <1> QED
    BY <1>1, <1>2, PTL DEF Spec

\* No oversell: what stock_levels counts as reserved is never more than is on
\* hand, whichever way Reserve, Release, Commit, the TTL sweep and a stocktake
\* interleave.
THEOREM StockIsNeverOversold == Spec => []NoOversell
  <1>1. TypeOK /\ StockInv => NoOversell
    BY DEF StockInv, Balanced, Books, NoOversell
  <1> QED
    BY <1>1, StockAlways, PTL

\* A ledger that explains every counter: what is reserved is exactly what open
\* reservations hold, and the movements add up to what is on hand, so the clamp
\* in ReturnLine never hides one.
THEOREM LedgerIsExact == Spec => []LedgerReconciles
  <1>1. TypeOK /\ StockInv => LedgerReconciles
    BY DEF StockInv, Balanced, Books, LedgerReconciles
  <1> QED
    BY <1>1, StockAlways, PTL

LEMMA OneRowInit == Init => OneReservationPerOrder
  BY DEF Init, OneReservationPerOrder

LEMMA OneRowStep == TypeOK /\ OneReservationPerOrder /\ TableStep => OneReservationPerOrder'
  <1> SUFFICES ASSUME TypeOK, OneReservationPerOrder, TableStep
               PROVE  OneReservationPerOrder'
    OBVIOUS
  <1>1. ASSUME NEW r \in Reservations, RowStep(r)
        PROVE  OneReservationPerOrder'
    <2>1. rsv[r] # "NONE" \/ ~OrderTaken(r)
      BY <1>1 DEF RowStep
    <2>2. \A q \in Reservations \ {r} : rsv'[q] = rsv[q]
      BY <1>1 DEF RowStep, Mark, TypeOK
    <2> QED
      BY <2>1, <2>2 DEF OneReservationPerOrder, OrderTaken
  <1>2. CASE UNCHANGED rsv
    BY <1>2 DEF OneReservationPerOrder
  <1> QED
    BY <1>1, <1>2 DEF TableStep, Adjust

\* At most one reservation per order ever gets a row: the unique index decides,
\* also between two workers that both passed the existence check.
THEOREM OneRowPerOrder == Spec => []OneReservationPerOrder
  <1>1. TypeOK /\ OneReservationPerOrder /\ [Next]_vars => OneReservationPerOrder'
    BY StepIsTableStep, OneRowStep
  <1> QED
    BY <1>1, OneRowInit, TypeInit, TypeStep, PTL DEF Spec

LEMMA FinalRows ==
    ASSUME TypeOK, [Next]_vars, NEW q \in Reservations,
           rsv[q] \in {"COMMITTED", "RELEASED", "FAILED"}
    PROVE  rsv'[q] = rsv[q]
  <1>1. TableStep
    BY StepIsTableStep
  <1>2. ASSUME NEW r \in Reservations, RowStep(r)
        PROVE  rsv'[q] = rsv[q]
    BY <1>2 DEF RowStep, Mark, TypeOK
  <1> QED
    BY <1>1, <1>2 DEF TableStep, Adjust

\* COMMITTED, RELEASED and FAILED rows never change again.
THEOREM SettlementIsFinal == Spec => SettledIsFinal
  <1>1. TypeOK /\ [Next]_vars =>
          [\A r \in Reservations :
             rsv[r] \in {"COMMITTED", "RELEASED", "FAILED"} => rsv'[r] = rsv[r]]_vars
    BY FinalRows
  <1> QED
    BY <1>1, TypeInit, TypeStep, PTL DEF Spec, SettledIsFinal
-----------------------------------------------------------------------------
(* The inductive invariant behind the answers.  An answer is a final state *)
(* of its row.  What makes that true of a late ReserveFailed: a Reserve    *)
(* command is held by one worker at a time, and until it is done its       *)
(* reservation has no row but a tombstone.                                 *)

Pending(c) == c \notin inbox \/ \E w \in Workers : work[w] # NoWork /\ work[w].cmd = c

AnswersInv ==
    \A e \in events :
        /\ e.type = "Committed" => rsv[e.rsv] = "COMMITTED"
        /\ e.type \in {"Released", "ReserveFailed"} => rsv[e.rsv] \in {"RELEASED", "FAILED"}

ClaimsInv ==
    /\ \A w \in Workers : work[w] # NoWork => work[w].cmd \in inbox
    /\ \A v, w \in Workers :
          work[v] # NoWork /\ work[w] # NoWork /\ work[v].cmd = work[w].cmd => v = w
    /\ \A w \in Workers : work[w].stage = "short" => work[w].cmd.step = "RESERVE"

ReservesInv ==
    \A c \in Commands :
        c.step = "RESERVE" /\ Pending(c) => rsv[c.rsv] \in {"NONE", "RELEASED"}

AnswerInv == AnswersInv /\ ClaimsInv /\ ReservesInv

\* What a step can do to the workers and the inbox.
Idles(w) == work[w] # NoWork /\ work' = [work EXCEPT ![w] = NoWork] /\ UNCHANGED inbox

WorkStep ==
    \/ UNCHANGED <<work, inbox>>
    \/ \E w \in Workers, c \in commands :
          /\ work[w] = NoWork /\ c \notin inbox /\ inbox' = inbox \cup {c}
          /\ work' = [work EXCEPT ![w] = [stage |-> "claimed", cmd |-> c]]
    \/ \E w \in Workers : Idles(w)
    \/ \E w \in Workers, st \in {"missed", "short"} :
          /\ work[w].stage \in {"claimed", "missed", "short"}
          /\ st = "short" => work[w].cmd.step = "RESERVE"
          /\ work' = [work EXCEPT ![w].stage = st] /\ UNCHANGED inbox

LEMMA Started == ASSUME TypeOK, NEW w \in Workers, Apply(w)
                 PROVE  work[w].stage \in {"claimed", "missed", "short"}
  BY DEF Apply, Miss, Conflict, ReserveKnown, ReserveTake, ReserveShort, PublishFailure,
     ReleaseTombstone, ReleaseHeld, ReleaseAgain, ReleaseRefused, CommitHeld, CommitAgain,
     CommitRefused, At, Inserts

LEMMA ApplyIsWorkStep ==
    ASSUME TypeOK, NEW w \in Workers, Apply(w)
    PROVE  /\ WorkStep
           /\ Miss(w) \/ ReserveShort(w) \/ Idles(w)
  <1>1. work[w].stage \in {"claimed", "missed", "short"} /\ work[w] # NoWork
    BY Started, Busy
  <1>2. CASE Miss(w)
    BY <1>1, <1>2 DEF Miss, Goto, WorkStep
  <1>3. CASE ReserveShort(w)
    BY <1>1, <1>3 DEF ReserveShort, Inserts, At, Goto, WorkStep
  <1>4. CASE ~Miss(w) /\ ~ReserveShort(w)
    <2>1. Idles(w)
      BY <1>1, <1>4 DEF Apply, Conflict, ReserveKnown, ReserveTake, PublishFailure,
         ReleaseTombstone, ReleaseHeld, ReleaseAgain, ReleaseRefused, CommitHeld, CommitAgain,
         CommitRefused, Park, Done, Idles
    <2> QED
      BY <2>1 DEF WorkStep
  <1> QED
    BY <1>2, <1>3, <1>4

LEMMA StepIsWorkStep == TypeOK /\ [Next]_vars => WorkStep
  <1> SUFFICES ASSUME TypeOK, [Next]_vars
               PROVE  WorkStep
    OBVIOUS
  <1>1. ASSUME NEW c \in Commands, Send(c)
        PROVE  WorkStep
    BY <1>1 DEF Send, WorkStep
  <1>2. ASSUME NEW w \in Workers, NEW c \in commands, Claim(w, c) \/ ClaimFails(w, c)
        PROVE  WorkStep
    BY <1>2 DEF Claim, ClaimFails, WorkStep
  <1>3. ASSUME NEW w \in Workers, Apply(w)
        PROVE  WorkStep
    BY <1>3, ApplyIsWorkStep
  <1>4. ASSUME NEW w \in Workers, Fault(w)
        PROVE  WorkStep
    BY <1>4 DEF Fault, WorkStep, Idles
  <1>5. ASSUME NEW r \in Reservations, SweepExpired(r)
        PROVE  WorkStep
    BY <1>5 DEF SweepExpired, WorkStep
  <1>6. ASSUME NEW s \in Skus, NEW d \in Deltas, Adjust(s, d)
        PROVE  WorkStep
    BY <1>6 DEF Adjust, WorkStep
  <1>7. CASE UNCHANGED vars
    BY <1>7 DEF vars, WorkStep
  <1> QED
    BY <1>1, <1>2, <1>3, <1>4, <1>5, <1>6, <1>7 DEF Next

\* A command has one holder, and once it is done it stays done.
LEMMA ClaimsStep ==
    ASSUME TypeOK, ClaimsInv, WorkStep
    PROVE  ClaimsInv' /\ \A c \in Commands : Pending(c)' => Pending(c)
  <1>1. CASE UNCHANGED <<work, inbox>>
    BY <1>1 DEF ClaimsInv, Pending
  <1>2. ASSUME NEW w \in Workers, NEW c \in commands,
               work[w] = NoWork, c \notin inbox, inbox' = inbox \cup {c},
               work' = [work EXCEPT ![w] = [stage |-> "claimed", cmd |-> c]]
        PROVE  ClaimsInv' /\ \A d \in Commands : Pending(d)' => Pending(d)
    <2>1. /\ \A v \in Workers : work'[v] = IF v = w THEN [stage |-> "claimed", cmd |-> c] ELSE work[v]
          /\ work'[w] # NoWork /\ work'[w].cmd = c /\ work'[w].stage = "claimed"
      BY <1>2 DEF TypeOK, NoWork
    <2>2. \A v \in Workers : work[v] # NoWork => work[v].cmd # c
      BY <1>2 DEF ClaimsInv
    <2> QED
      BY <1>2, <2>1, <2>2 DEF ClaimsInv, Pending
  <1>3. ASSUME NEW w \in Workers, Idles(w)
        PROVE  ClaimsInv' /\ \A d \in Commands : Pending(d)' => Pending(d)
    <2>1. \A v \in Workers : work'[v] = IF v = w THEN NoWork ELSE work[v]
      BY <1>3 DEF TypeOK, Idles
    <2> QED
      BY <1>3, <2>1 DEF ClaimsInv, Pending, Idles, NoWork
  <1>4. ASSUME NEW w \in Workers, NEW st \in {"missed", "short"},
               work[w].stage \in {"claimed", "missed", "short"},
               st = "short" => work[w].cmd.step = "RESERVE",
               work' = [work EXCEPT ![w].stage = st], UNCHANGED inbox
        PROVE  ClaimsInv' /\ \A d \in Commands : Pending(d)' => Pending(d)
    <2>1. work[w] \in [stage : {"claimed", "missed", "short"}, cmd : Commands] /\ work[w] # NoWork
      BY <1>4, Busy
    <2>2. work'[w].cmd = work[w].cmd /\ work'[w].stage = st /\ work'[w] # NoWork
      BY <1>4, <2>1 DEF TypeOK, NoWork
    <2>3. \A v \in Workers \ {w} : work'[v] = work[v]
      BY <1>4 DEF TypeOK
    <2> QED
      BY <1>4, <2>1, <2>2, <2>3 DEF ClaimsInv, Pending
  <1> QED
    BY <1>1, <1>2, <1>3, <1>4 DEF WorkStep

\* A row changes because it was open, or becomes a tombstone, or because the
\* one worker that holds its Reserve command finishes it.
LEMMA RowChange ==
    ASSUME TypeOK, ClaimsInv, [Next]_vars, NEW r \in Reservations, rsv'[r] # rsv[r]
    PROVE  \/ rsv[r] = "RESERVED" \/ rsv'[r] = "RELEASED"
           \/ \E w \in Workers : Idles(w) /\ work[w].cmd.step = "RESERVE" /\ work[w].cmd.rsv = r
  <1>1. CASE UNCHANGED rsv
    BY <1>1
  <1>2. ASSUME NEW w \in Workers, Apply(w)
        PROVE  \/ rsv[r] = "RESERVED" \/ rsv'[r] = "RELEASED"
               \/ Idles(w) /\ work[w].cmd.step = "RESERVE" /\ work[w].cmd.rsv = r
    <2> DEFINE q == work[w].cmd.rsv
    <2>1. q \in Reservations /\ rsv \in [Reservations -> RsvStates]
      BY <1>2, Started, Busy DEF TypeOK
    <2>2. CASE ReserveTake(w) \/ PublishFailure(w)
      <3>1. work[w].cmd.step = "RESERVE"
        BY <2>2 DEF ReserveTake, PublishFailure, Inserts, At, ClaimsInv
      <3>2. q = r
        BY <2>1, <2>2 DEF ReserveTake, PublishFailure, Mark, Park
      <3>3. Idles(w)
        BY <1>2, <2>2, ApplyIsWorkStep DEF ReserveTake, PublishFailure, Miss, ReserveShort,
           Inserts, At, Goto, Park, Done, Idles
      <3> QED
        BY <3>1, <3>2, <3>3
    <2>3. CASE ReleaseTombstone(w) \/ ReleaseHeld(w)
      BY <2>1, <2>3 DEF ReleaseTombstone, ReleaseHeld, Mark
    <2>4. CASE CommitHeld(w)
      BY <2>1, <2>4 DEF CommitHeld, Mark
    <2>5. CASE UNCHANGED rsv
      BY <2>5
    <2> QED
      BY <1>2, <2>2, <2>3, <2>4, <2>5 DEF Apply, Miss, Conflict, ReserveKnown, ReserveShort,
         ReleaseAgain, ReleaseRefused, CommitAgain, CommitRefused, Goto, Park
  <1>3. ASSUME NEW q \in Reservations, SweepExpired(q)
        PROVE  rsv[r] = "RESERVED" \/ rsv'[r] = "RELEASED"
    BY <1>3 DEF SweepExpired, Mark, TypeOK
  <1> QED
    BY <1>1, <1>2, <1>3 DEF Next, Send, Claim, ClaimFails, Fault, Adjust, vars

LEMMA ReservesStep ==
    ASSUME TypeOK, ClaimsInv, ReservesInv, [Next]_vars
    PROVE  ReservesInv'
  <1> SUFFICES ASSUME NEW c \in Commands, c.step = "RESERVE", Pending(c)'
               PROVE  rsv'[c.rsv] \in {"NONE", "RELEASED"}
    BY DEF ReservesInv
  <1>1. c.rsv \in Reservations
    BY InventoryAssumption
  <1>2. Pending(c)
    BY StepIsWorkStep, ClaimsStep
  <1>3. rsv[c.rsv] \in {"NONE", "RELEASED"}
    BY <1>2 DEF ReservesInv
  <1>4. ASSUME NEW w \in Workers, Idles(w), work[w].cmd.step = "RESERVE", work[w].cmd.rsv = c.rsv
        PROVE  FALSE
    <2>1. work[w].cmd = c
      BY <1>4, WorkFacts, ReserveOnceAssumption DEF Idles
    <2>2. c \in inbox'
      BY <1>4, <2>1 DEF ClaimsInv, Idles
    <2>3. \A v \in Workers : work'[v] # NoWork => work'[v].cmd # c
      BY <1>4, <2>1 DEF ClaimsInv, Idles, TypeOK
    <2> QED
      BY <2>2, <2>3 DEF Pending
  <1> QED
    BY <1>1, <1>3, <1>4, RowChange

\* A new answer is true when it is given.
LEMMA NewAnswers ==
    ASSUME TypeOK, ClaimsInv, ReservesInv, [Next]_vars, NEW e \in events', e \notin events
    PROVE  /\ e.type = "Committed" => rsv'[e.rsv] = "COMMITTED"
           /\ e.type \in {"Released", "ReserveFailed"} => rsv'[e.rsv] \in {"RELEASED", "FAILED"}
  <1> DEFINE True == /\ e.type = "Committed" => rsv'[e.rsv] = "COMMITTED"
                     /\ e.type \in {"Released", "ReserveFailed"} =>
                           rsv'[e.rsv] \in {"RELEASED", "FAILED"}
  <1>1. ASSUME NEW w \in Workers, Apply(w)
        PROVE  True
    <2> DEFINE c == work[w].cmd
    <2>1. c.rsv \in Reservations /\ rsv \in [Reservations -> RsvStates]
      BY <1>1, Started, Busy DEF TypeOK
    <2>2. CASE ReserveTake(w)
      BY <2>2 DEF ReserveTake, Emit
    <2>3. CASE PublishFailure(w)
      <3>1. c \in Commands /\ c.step = "RESERVE" /\ Pending(c)
        BY <2>3, Busy DEF PublishFailure, ClaimsInv, Pending
      <3>2. rsv[c.rsv] \in {"NONE", "RELEASED"}
        BY <3>1 DEF ReservesInv
      <3>3. e = [type |-> "ReserveFailed", rsv |-> c.rsv, n |-> c.n]
            /\ Mark(c.rsv, IF rsv[c.rsv] = "NONE" THEN "FAILED" ELSE rsv[c.rsv])
        BY <2>3 DEF PublishFailure, Park, Emit
      <3> QED
        BY <2>1, <3>2, <3>3 DEF Mark
    <2>4. CASE ReleaseTombstone(w) \/ ReleaseHeld(w)
      BY <2>1, <2>4 DEF ReleaseTombstone, ReleaseHeld, Mark, Emit
    <2>5. CASE ReleaseAgain(w)
      BY <2>5 DEF ReleaseAgain, Emit
    <2>6. CASE CommitHeld(w)
      BY <2>1, <2>6 DEF CommitHeld, Mark, Emit
    <2>7. CASE CommitAgain(w)
      BY <2>7 DEF CommitAgain, Emit
    <2> QED
      BY <1>1, <2>2, <2>3, <2>4, <2>5, <2>6, <2>7 DEF Apply, Miss, Conflict, ReserveKnown,
         ReserveShort, ReleaseRefused, CommitRefused, Goto, Park
  <1>2. ASSUME NEW r \in Reservations, SweepExpired(r)
        PROVE  True
    <2>1. e = [type |-> "Released", rsv |-> r, n |-> 0] /\ rsv' = [rsv EXCEPT ![r] = "RELEASED"]
      BY <1>2 DEF SweepExpired, Mark, Emit
    <2> QED
      BY <2>1 DEF TypeOK
  <1> QED
    BY <1>1, <1>2 DEF Next, Send, Claim, ClaimFails, Fault, Adjust, vars

LEMMA AnswersStep ==
    ASSUME TypeOK, AnswerInv, [Next]_vars
    PROVE  AnswersInv'
  <1> SUFFICES ASSUME NEW e \in events'
               PROVE  /\ e.type = "Committed" => rsv'[e.rsv] = "COMMITTED"
                      /\ e.type \in {"Released", "ReserveFailed"} =>
                            rsv'[e.rsv] \in {"RELEASED", "FAILED"}
    BY DEF AnswersInv
  <1>1. CASE e \in events
    <2>1. e.rsv \in Reservations
      BY <1>1 DEF TypeOK, InvEvents
    <2> QED
      BY <1>1, <2>1, FinalRows DEF AnswerInv, AnswersInv
  <1>2. CASE e \notin events
    BY <1>2, NewAnswers DEF AnswerInv
  <1> QED
    BY <1>1, <1>2

\* What the saga is told stays true: a reservation is never reported released
\* and committed, and one answered with a failure holds nothing, although the
\* failure is published in a transaction of its own, after the rollback.
THEOREM AnswersAgree == Spec => []NoContradiction
  <1>1. Init => AnswerInv
    BY InventoryAssumption DEF Init, AnswerInv, AnswersInv, ClaimsInv, ReservesInv, NoWork
  <1>2. TypeOK /\ AnswerInv /\ [Next]_vars => AnswerInv'
    BY AnswersStep, ReservesStep, ClaimsStep, StepIsWorkStep DEF AnswerInv
  <1>3. AnswerInv => NoContradiction
    BY DEF AnswerInv, AnswersInv, NoContradiction
  <1> QED
    BY <1>1, <1>2, <1>3, TypeInit, TypeStep, PTL DEF Spec
=============================================================================
