---- MODULE MCInventory ----
(* Inventory with orders that compete for stock that is enough for one. *)
EXTENDS Inventory, TLC

\* r1b is a second reservation id minted for r1's order.
CONSTANTS r1, r1b
MCOrderOf == [r \in Reservations |-> IF r = r1b THEN r1 ELSE r]

\* Everyone wants one unit of every SKU.
MCQty == [r \in Reservations |-> [s \in Skus |-> 1]]

MCStock == [s \in Skus |-> 1]

\* A delivery, or a stocktake that finds a unit missing.
MCDeltas == {-1, 1}

\* Every command once; and with the Commit of r1 resent.
MCOnce == [step : {"RESERVE", "RELEASE", "COMMIT"}, rsv : Reservations, n : {1}]
MCResent == MCOnce \cup {[step |-> "COMMIT", rsv |-> r1, n |-> 2]}

Symmetry == Permutations(Workers)
====
