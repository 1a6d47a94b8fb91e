------------------------------ MODULE MCReviews ------------------------------
(***************************************************************************)
(* Instances of Reviews for TLC.                                           *)
(***************************************************************************)
EXTENDS Reviews, TLC

Bodies == {[type |-> "link", public |-> FALSE],
           [content |-> "two words"]}

Written == {[type |-> "text", content |-> "blank", public |-> TRUE]}

Symmetric == Permutations(Handlers)
=============================================================================
