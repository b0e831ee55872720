----------------------------- MODULE Inventory ------------------------------
(***************************************************************************)
(* inventory-service: the stock engine (internal/stock/stock.go) behind    *)
(* its command consumer (internal/eventbus/eventbus.go).                   *)
(*                                                                         *)
(* A worker claims a command in the inbox in one transaction and applies   *)
(* it in the next.  A transaction that finds the reservation row holds its *)
(* lock to the end and is one step here.  One that finds no row holds      *)
(* nothing: it is two steps, Miss and the insert, and the unique indexes   *)
(* decide who wins.  A failed reservation is rolled back and answered in a *)
(* third transaction.  Commands arrive in any order and any combination.   *)
(***************************************************************************)
EXTENDS Integers, FiniteSets

CONSTANTS
    Workers,        \* consumer goroutines of the replicas
    Reservations,   \* reservation ids
    OrderOf,        \* the order each reservation id was minted for
    Skus,
    Active,         \* SKUs whose status is ACTIVE
    Qty,            \* Qty[r][s]: units of s that r asks for
    InitialStock,   \* on_hand of each SKU at the start
    Deltas,         \* adjustments a stocktake may make
    MaxOnHand,      \* bound: adjustments keep on_hand at most this
    Commands,       \* bound: the commands that may be sent, each with the number of its emission
    MaxFaults       \* bound: crashes and transient database errors

ASSUME InventoryAssumption ==
    /\ Active \subseteq Skus
    /\ Qty \in [Reservations -> [Skus -> Nat]]
    /\ InitialStock \in [Skus -> Nat]
    /\ Deltas \subseteq Int
    /\ Commands \subseteq [step : {"RESERVE", "RELEASE", "COMMIT"}, rsv : Reservations, n : Nat \ {0}]
    /\ MaxFaults \in Nat /\ MaxOnHand \in Nat

\* The saga decides RESERVE when it places the order and never again; its other
\* commands are emitted again on timeouts.
ASSUME ReserveOnceAssumption ==
    \A c, d \in Commands :
        c.step = "RESERVE" /\ d.step = "RESERVE" /\ c.rsv = d.rsv => c = d

VARIABLES
    onHand,     \* stock_levels.on_hand
    reserved,   \* stock_levels.reserved
    rsv,        \* reservations.state, "NONE" when there is no row
    ledger,     \* stock_ledger: the sum of the quantities per SKU and movement
    announced,  \* on_hand in the last stock_changed event of each SKU
    commands,   \* commands sent to the service
    inbox,      \* processed_events
    dropped,    \* offset committed although the inbox claim failed
    work,       \* what each worker is doing
    events,     \* events in the outbox
    dlq,        \* commands parked on the dead letter topic
    faults

stockVars == <<onHand, reserved, ledger, announced>>
vars == <<stockVars, rsv, commands, inbox, dropped, work, events, dlq, faults>>

RsvStates == {"NONE", "RESERVED", "COMMITTED", "RELEASED", "FAILED"}
Movements == {"RESERVATION", "COMMIT", "RELEASE", "ADJUST"}
InvEvents == [type : {"Reserved", "ReserveFailed", "Released", "Committed"},
              rsv : Reservations, n : Nat]
NoWork == [stage |-> "idle"]
Work == {NoWork} \cup [stage : {"claimed", "missed", "short"}, cmd : Commands]

Init ==
    /\ onHand = InitialStock
    /\ reserved = [s \in Skus |-> 0]
    /\ rsv = [r \in Reservations |-> "NONE"]
    /\ ledger = [s \in Skus |-> [m \in Movements |-> 0]]
    /\ announced = InitialStock
    /\ commands = {} /\ inbox = {} /\ dropped = {} /\ events = {} /\ dlq = {}
    /\ work = [w \in Workers |-> NoWork]
    /\ faults = 0
-----------------------------------------------------------------------------
(* The statements of store.go, applied to every line of a reservation.     *)

\* Mutant of Takeable: units other orders hold are counted as available.
TakeableOnHand(r) == \A s \in Skus : Qty[r][s] > 0 => s \in Active /\ onHand[s] >= Qty[r][s]

\* TryTake: the check and the increment are one statement.
Takeable(r) ==
    \A s \in Skus : Qty[r][s] > 0 => s \in Active /\ onHand[s] - reserved[s] >= Qty[r][s]

Book(s, m, q) == [ledger[s] EXCEPT ![m] = @ + q]

TryTake(r) ==
    /\ reserved' = [s \in Skus |-> reserved[s] + Qty[r][s]]
    /\ ledger' = [s \in Skus |-> Book(s, "RESERVATION", Qty[r][s])]
    /\ UNCHANGED <<onHand, announced>>

\* CommitLine: on_hand and reserved go down together; stock_changed follows.
CommitLine(r) ==
    /\ onHand' = [s \in Skus |-> onHand[s] - Qty[r][s]]
    /\ reserved' = [s \in Skus |-> reserved[s] - Qty[r][s]]
    /\ ledger' = [s \in Skus |-> Book(s, "COMMIT", -Qty[r][s])]
    /\ announced' = [s \in Skus |-> IF Qty[r][s] > 0 THEN onHand[s] - Qty[r][s] ELSE announced[s]]

\* Mutant of ReturnLine: no ledger entry.
ReturnLineUnbooked(r) ==
    /\ reserved' = [s \in Skus |->
                      IF reserved[s] >= Qty[r][s] THEN reserved[s] - Qty[r][s] ELSE 0]
    /\ UNCHANGED <<onHand, announced, ledger>>

\* ReturnLine: clamped at zero.
ReturnLine(r) ==
    /\ reserved' = [s \in Skus |->
                      IF reserved[s] >= Qty[r][s] THEN reserved[s] - Qty[r][s] ELSE 0]
    /\ ledger' = [s \in Skus |-> Book(s, "RELEASE", -Qty[r][s])]
    /\ UNCHANGED <<onHand, announced>>

\* Mutant of OrderTaken: no unique index on the order.
NeverTaken(r) == FALSE

\* reservations_order_uniq: another reservation of the same order has a row.
OrderTaken(r) == \E q \in Reservations \ {r} : OrderOf[q] = OrderOf[r] /\ rsv[q] # "NONE"

Mark(r, state) == rsv' = [rsv EXCEPT ![r] = state]

Emit(type, c) == events' = events \cup {[type |-> type, rsv |-> c.rsv, n |-> c.n]}
-----------------------------------------------------------------------------
(* The consumer.                                                           *)

\* A command is put on the topic.
Send(c) ==
    /\ c \notin commands
    /\ commands' = commands \cup {c}
    /\ UNCHANGED <<stockVars, rsv, inbox, dropped, work, events, dlq, faults>>

\* handle(): the inbox claim commits before the command is applied.
Claim(w, c) ==
    /\ work[w] = NoWork
    /\ c \notin inbox \cup dropped
    /\ inbox' = inbox \cup {c}
    /\ work' = [work EXCEPT ![w] = [stage |-> "claimed", cmd |-> c]]
    /\ UNCHANGED <<stockVars, rsv, commands, dropped, events, dlq, faults>>

\* The claim fails: handle returns, and Run commits the offset all the same.
ClaimFails(w, c) ==
    /\ work[w] = NoWork
    /\ c \notin inbox \cup dropped
    /\ faults < MaxFaults
    /\ faults' = faults + 1
    /\ dropped' = dropped \cup {c}
    /\ UNCHANGED <<stockVars, rsv, commands, inbox, work, events, dlq>>

At(w, stage, step) == work[w].stage = stage /\ work[w].cmd.step = step
Done(w) == work' = [work EXCEPT ![w] = NoWork] /\ UNCHANGED <<commands, inbox, dropped, faults>>
Goto(w, stage) ==
    /\ work' = [work EXCEPT ![w].stage = stage]
    /\ UNCHANGED <<stockVars, rsv, commands, inbox, dropped, events, dlq, faults>>

\* Any error of apply parks the command at once.
Park(w) ==
    /\ dlq' = dlq \cup {work[w].cmd}
    /\ Done(w)
    /\ UNCHANGED <<stockVars, rsv, events>>

\* A transient error, or the process dying between the claim and the commit:
\* the inbox already has the command, so a redelivery skips it.
Fault(w) ==
    /\ work[w] # NoWork
    /\ faults < MaxFaults
    /\ faults' = faults + 1
    /\ work' = [work EXCEPT ![w] = NoWork]
    /\ \/ dlq' = dlq \cup {work[w].cmd}
       \/ UNCHANGED dlq
    /\ UNCHANGED <<stockVars, rsv, commands, inbox, dropped, events>>

\* LoadReservationForUpdate found no row: nothing is locked.
Miss(w) ==
    /\ At(w, "claimed", "RESERVE") \/ At(w, "claimed", "RELEASE")
    /\ rsv[work[w].cmd.rsv] = "NONE"
    /\ At(w, "claimed", "RESERVE") => ~OrderTaken(work[w].cmd.rsv)
    /\ Goto(w, "missed")

\* The insert hits the primary key or reservations_order_uniq.
Conflict(w) ==
    /\ work[w].stage = "missed"
    /\ rsv[work[w].cmd.rsv] # "NONE" \/ OrderTaken(work[w].cmd.rsv)
    /\ Park(w)

Inserts(w, step) ==
    /\ At(w, "missed", step)
    /\ rsv[work[w].cmd.rsv] = "NONE" /\ ~OrderTaken(work[w].cmd.rsv)
-----------------------------------------------------------------------------
(* Reserve.                                                                *)

\* A redelivery, a tombstone, or a second reservation for the order: no event.
ReserveKnown(w) ==
    LET r == work[w].cmd.rsv
    IN  /\ At(w, "claimed", "RESERVE")
        /\ rsv[r] # "NONE" \/ OrderTaken(r)
        /\ Done(w)
        /\ UNCHANGED <<stockVars, rsv, events, dlq>>

\* All or nothing.
ReserveTake(w) ==
    LET c == work[w].cmd
    IN  /\ Inserts(w, "RESERVE")
        /\ Takeable(c.rsv)
        /\ TryTake(c.rsv)
        /\ Mark(c.rsv, "RESERVED")
        /\ Emit("Reserved", c)
        /\ Done(w)
        /\ UNCHANGED dlq

ReserveShort(w) ==
    /\ Inserts(w, "RESERVE")
    /\ ~Takeable(work[w].cmd.rsv)
    /\ Goto(w, "short")

\* Mutant of PublishFailure: ON CONFLICT DO UPDATE.
PublishFailureOverwrites(w) ==
    LET c == work[w].cmd
    IN  /\ work[w].stage = "short"
        /\ Mark(c.rsv, "FAILED")
        /\ Emit("ReserveFailed", c)
        /\ Done(w)
        /\ UNCHANGED <<stockVars, dlq>>

\* publishFailure, in its own transaction: FAILED unless a row appeared
\* meanwhile (ON CONFLICT (id) DO NOTHING), and the event in any case.
PublishFailure(w) ==
    LET c == work[w].cmd
    IN  /\ work[w].stage = "short"
        /\ IF rsv[c.rsv] = "NONE" /\ OrderTaken(c.rsv)
           THEN Park(w)
           ELSE /\ Mark(c.rsv, IF rsv[c.rsv] = "NONE" THEN "FAILED" ELSE rsv[c.rsv])
                /\ Emit("ReserveFailed", c)
                /\ Done(w)
                /\ UNCHANGED <<stockVars, dlq>>
-----------------------------------------------------------------------------
(* Release, Commit, the TTL sweeper and Adjust.                            *)

\* A release that overtook its reserve leaves a RELEASED row behind.
ReleaseTombstone(w) ==
    LET c == work[w].cmd
    IN  /\ Inserts(w, "RELEASE")
        /\ Mark(c.rsv, "RELEASED")
        /\ Emit("Released", c)
        /\ Done(w)
        /\ UNCHANGED <<stockVars, dlq>>

ReleaseHeld(w) ==
    LET c == work[w].cmd
    IN  /\ At(w, "claimed", "RELEASE")
        /\ rsv[c.rsv] = "RESERVED"
        /\ ReturnLine(c.rsv)
        /\ Mark(c.rsv, "RELEASED")
        /\ Emit("Released", c)
        /\ Done(w)
        /\ UNCHANGED dlq

ReleaseAgain(w) ==
    LET c == work[w].cmd
    IN  /\ At(w, "claimed", "RELEASE")
        /\ rsv[c.rsv] \in {"RELEASED", "FAILED"}
        /\ Emit("Released", c)
        /\ Done(w)
        /\ UNCHANGED <<stockVars, rsv, dlq>>

\* Mutant of ReleaseRefused: acknowledge instead of refusing.
ReleaseAcknowledged(w) ==
    /\ At(w, "claimed", "RELEASE")
    /\ rsv[work[w].cmd.rsv] = "COMMITTED"
    /\ Emit("Released", work[w].cmd)
    /\ Done(w)
    /\ UNCHANGED <<stockVars, rsv, dlq>>

\* ErrReleaseAfterCommit.
ReleaseRefused(w) ==
    /\ At(w, "claimed", "RELEASE")
    /\ rsv[work[w].cmd.rsv] = "COMMITTED"
    /\ Park(w)

CommitHeld(w) ==
    LET c == work[w].cmd
    IN  /\ At(w, "claimed", "COMMIT")
        /\ rsv[c.rsv] = "RESERVED"
        /\ CommitLine(c.rsv)
        /\ Mark(c.rsv, "COMMITTED")
        /\ Emit("Committed", c)
        /\ Done(w)
        /\ UNCHANGED dlq

CommitAgain(w) ==
    LET c == work[w].cmd
    IN  /\ At(w, "claimed", "COMMIT")
        /\ rsv[c.rsv] = "COMMITTED"
        /\ Emit("Committed", c)
        /\ Done(w)
        /\ UNCHANGED <<stockVars, rsv, dlq>>

\* Mutant of CommitRefused: the error is swallowed.
CommitIgnored(w) ==
    /\ At(w, "claimed", "COMMIT")
    /\ rsv[work[w].cmd.rsv] \notin {"RESERVED", "COMMITTED"}
    /\ Done(w)
    /\ UNCHANGED <<stockVars, rsv, events, dlq>>

\* ErrReservationNotFound, ErrNotReserved.
CommitRefused(w) ==
    /\ At(w, "claimed", "COMMIT")
    /\ rsv[work[w].cmd.rsv] \notin {"RESERVED", "COMMITTED"}
    /\ Park(w)

\* Mutant of SweepExpired: a state the CHECK on reservations.state forbids.
SweepMarksExpired(r) ==
    /\ rsv[r] = "RESERVED"
    /\ ReturnLine(r)
    /\ Mark(r, "EXPIRED")
    /\ Emit("Released", [rsv |-> r, n |-> 0])
    /\ UNCHANGED <<commands, inbox, dropped, work, dlq, faults>>

\* Mutant of SweepExpired: a reservation whose Release or Commit was claimed is
\* left to the worker that claimed it.
SweepTrustsInbox(r) ==
    /\ rsv[r] = "RESERVED"
    /\ ~\E c \in inbox : c.rsv = r /\ c.step # "RESERVE"
    /\ ReturnLine(r)
    /\ Mark(r, "RELEASED")
    /\ Emit("Released", [rsv |-> r, n |-> 0])
    /\ UNCHANGED <<commands, inbox, dropped, work, dlq, faults>>

\* SweepExpired, one reservation of the batch: its TTL passed, unasked.
SweepExpired(r) ==
    /\ rsv[r] = "RESERVED"
    /\ ReturnLine(r)
    /\ Mark(r, "RELEASED")
    /\ Emit("Released", [rsv |-> r, n |-> 0])
    /\ UNCHANGED <<commands, inbox, dropped, work, dlq, faults>>

\* AdjustOnHand refuses to go below what is reserved.
Adjust(s, d) ==
    /\ onHand[s] + d >= reserved[s] /\ onHand[s] + d >= 0
    /\ onHand[s] + d <= MaxOnHand
    /\ onHand' = [onHand EXCEPT ![s] = @ + d]
    /\ announced' = [announced EXCEPT ![s] = onHand[s] + d]
    /\ ledger' = [ledger EXCEPT ![s] = Book(s, "ADJUST", d)]
    /\ UNCHANGED <<reserved, rsv, commands, inbox, dropped, work, events, dlq, faults>>
-----------------------------------------------------------------------------
Apply(w) ==
    \/ Miss(w) \/ Conflict(w)
    \/ ReserveKnown(w) \/ ReserveTake(w) \/ ReserveShort(w) \/ PublishFailure(w)
    \/ ReleaseTombstone(w) \/ ReleaseHeld(w) \/ ReleaseAgain(w) \/ ReleaseRefused(w)
    \/ CommitHeld(w) \/ CommitAgain(w) \/ CommitRefused(w)

Next ==
    \/ \E c \in Commands : Send(c)
    \/ \E w \in Workers :
          \/ \E c \in commands : Claim(w, c) \/ ClaimFails(w, c)
          \/ Apply(w)
          \/ Fault(w)
    \/ \E r \in Reservations : SweepExpired(r)
    \/ \E s \in Skus, d \in Deltas : Adjust(s, d)

Spec == Init /\ [][Next]_vars

\* The consumer fetches and finishes what it fetched; the TTL sweep ticks.
Fairness ==
    /\ \A w \in Workers : WF_vars(\E c \in commands : Claim(w, c)) /\ WF_vars(Apply(w))
    /\ \A r \in Reservations : WF_vars(SweepExpired(r))

FairSpec == Spec /\ Fairness
-----------------------------------------------------------------------------
\* Every variable has its declared type; reservations.state stays within the
\* CHECK constraint of the table.
TypeOK ==
    /\ onHand \in [Skus -> Int] /\ reserved \in [Skus -> Int]
    /\ announced \in [Skus -> Int]
    /\ ledger \in [Skus -> [Movements -> Int]]
    /\ rsv \in [Reservations -> RsvStates]
    /\ commands \subseteq Commands /\ inbox \subseteq Commands
    /\ dropped \subseteq Commands /\ dlq \subseteq Commands
    /\ work \in [Workers -> Work]
    /\ events \subseteq InvEvents
    /\ faults \in Nat

\* The units of s that open reservations hold, one element per unit.
Open == {r \in Reservations : rsv[r] = "RESERVED"}
Held(s) == UNION {{r} \X (1 .. Qty[r][s]) : r \in Open}

\* No oversell: stock_levels.reserved counts exactly the units of open
\* reservations and never exceeds what is on hand, under every interleaving of
\* Reserve, Release, Commit, the TTL sweep and a stocktake: no unit is taken
\* twice, returned twice or forgotten, and the CHECK constraints of the table
\* never have to reject a statement (Commit subtracts without a guard).
NoOversell ==
    \A s \in Skus : reserved[s] = Cardinality(Held(s)) /\ reserved[s] <= onHand[s]

\* The ledger explains both counters, so that the clamp of ReturnLine never hides
\* a movement, and whoever follows stock_changed knows the physical stock.
LedgerReconciles ==
    \A s \in Skus :
        /\ onHand[s] = InitialStock[s] + ledger[s]["ADJUST"] + ledger[s]["COMMIT"]
        /\ reserved[s] = ledger[s]["RESERVATION"] + ledger[s]["RELEASE"] + ledger[s]["COMMIT"]
        /\ announced[s] = onHand[s]

\* At most one reservation per order ever gets a row, so an order never holds
\* stock twice, even with two workers past the existence check.
OneReservationPerOrder ==
    \A q, r \in Reservations :
        OrderOf[q] = OrderOf[r] /\ rsv[q] # "NONE" /\ rsv[r] # "NONE" => q = r

\* What the saga is told stays true: a committed reservation is never reported
\* released, a released one never committed, however late the command, and one
\* that was answered with a failure holds nothing.
NoContradiction ==
    \A e \in events :
        /\ e.type = "ReserveFailed" => rsv[e.rsv] \in {"FAILED", "RELEASED"}
        /\ e.type = "Released" => ~\E f \in events : f.rsv = e.rsv /\ f.type = "Committed"

\* COMMITTED, RELEASED (a tombstone too) and FAILED are final.
SettledIsFinal ==
    [][\A r \in Reservations :
          rsv[r] \in {"COMMITTED", "RELEASED", "FAILED"} => rsv'[r] = rsv[r]]_vars

\* No dangling reservation: whichever command is lost or never sent, every
\* reservation is eventually committed or released.
NoDanglingReservation ==
    \A r \in Reservations : (rsv[r] = "RESERVED") ~> (rsv[r] \in {"COMMITTED", "RELEASED"})

\* What answers a command.
AnswerTypes(step) ==
    CASE step = "RESERVE" -> {"Reserved", "ReserveFailed"}
      [] step = "RELEASE" -> {"Released"}
      [] step = "COMMIT" -> {"Committed"}

\* A command is answered under its own number, found to be settled already, or
\* parked where an operator finds it.
Settled(c) ==
    \/ c \in dlq
    \/ \E e \in events : e.type \in AnswerTypes(c.step) /\ e.rsv = c.rsv /\ e.n = c.n
    \/ c.step = "RESERVE" /\ (rsv[c.rsv] # "NONE" \/ OrderTaken(c.rsv))

\* A fault costs one command at most: the claim commits before the command is
\* applied, so a crash in between, or a claim that fails, loses that command, and
\* no other stays without an answer.  (Commands are finitely many and a settled one
\* stays settled, so "eventually always" says it of each.)
FaultsLoseOneCommand == <>[](Cardinality({c \in commands : ~Settled(c)}) <= faults)
=============================================================================
