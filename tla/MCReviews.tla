------------------------------ MODULE MCReviews ------------------------------
(***************************************************************************)
(* Instances of Reviews for TLC.                                           *)
(***************************************************************************)
EXTENDS Reviews, TLC

(* Review ids and moderators differ in nothing but their names. *)
Interchangeable == {p @@ q : p \in Permutations(ReviewIds), q \in Permutations(Moderators)}
=============================================================================
