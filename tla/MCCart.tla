------------------------------- MODULE MCCart -------------------------------
(***************************************************************************)
(* Instances of Cart for TLC.                                              *)
(***************************************************************************)
EXTENDS Cart, TLC

(* Requests, cart ids and SKUs differ in nothing but their names. *)
Interchangeable ==
    {p @@ q @@ s : p \in Permutations(Requests), q \in Permutations(CartIds), s \in Permutations(Skus)}
=============================================================================
