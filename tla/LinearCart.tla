----------------------------- MODULE LinearCart -----------------------------
(***************************************************************************)
(* What cart.ts promises: devices that change one cart at the same time    *)
(* see it change one operation at a time.  Every write is one operation    *)
(* applied to the content it replaces and counts the version up, so no     *)
(* device's addition is discarded by another's.  The promise ends for a    *)
(* cart that was deleted, which starts again at version 1.                 *)
(***************************************************************************)
EXTENDS Naturals

CONSTANTS CartIds, Skus, Coupons, MaxQty, MaxLines

VARIABLES carts, gone

linearVars == <<carts, gone>>

Lines == [Skus -> 0 .. MaxQty]
Contents == [owned : BOOLEAN, lines : Lines, coupons : SUBSET Coupons]

(* One operation on a content: a quantity set or raised, a coupon added, the
   cart given to a user, or united with another. *)
SetLine(cur, new) ==
    \E sku \in Skus, q \in 0 .. MaxQty : new = [cur EXCEPT !.lines[sku] = q]

AddCoupon(cur, new) ==
    \E code \in Coupons : new = [cur EXCEPT !.coupons = @ \union {code}]

Adopt(cur, new) == new = [cur EXCEPT !.owned = TRUE]

Unite(cur, new) ==
    /\ \A sku \in Skus : new.lines[sku] >= cur.lines[sku]
    /\ cur.coupons \subseteq new.coupons
    /\ new.owned = cur.owned

Operation(cur, new) ==
    SetLine(cur, new) \/ AddCoupon(cur, new) \/ Adopt(cur, new) \/ Unite(cur, new)

Init == carts = [c \in CartIds |-> [version |-> 0]] /\ gone = {}

Create(c) ==
    /\ carts[c].version = 0 /\ c \notin gone
    /\ \E owned \in BOOLEAN :
         carts' = [carts EXCEPT ![c] = [version |-> 1, content |->
                     [owned |-> owned, lines |-> [s \in Skus |-> 0], coupons |-> {}]]]
    /\ UNCHANGED gone

Write(c) ==
    /\ carts[c].version > 0 /\ c \notin gone
    /\ carts'[c].version = carts[c].version + 1
    /\ Operation(carts[c].content, carts'[c].content)
    /\ carts' = [carts EXCEPT ![c] = carts'[c]]
    /\ UNCHANGED gone

Delete(c) ==
    /\ carts[c].version > 0
    /\ carts' = [carts EXCEPT ![c] = [version |-> 0]]
    /\ gone' = gone \union {c}

(* A cart that was deleted once may come back with any content. *)
Revive(c) ==
    /\ c \in gone
    /\ carts' = [carts EXCEPT ![c] = carts'[c]]
    /\ UNCHANGED gone

Next == \E c \in CartIds : Create(c) \/ Write(c) \/ Delete(c) \/ Revive(c)

Spec == Init /\ [][Next]_linearVars
=============================================================================
