---- MODULE MCOrderSaga ----
(* OrderSaga with small instances for TLC. *)
EXTENDS OrderSaga, TLC

\* The consumers are interchangeable.
Symmetry == Permutations(Consumers)
====
