---- MODULE MCPayment ----
(* Payment with small instances for TLC. *)
EXTENDS Payment, TLC

Symmetry == Permutations(Workers)
====
