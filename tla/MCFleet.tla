------------------------------ MODULE MCFleet ------------------------------
(* TLC instances of Fleet: the players are interchangeable. *)
EXTENDS Fleet, TLC

Symmetry == Permutations(Users)

=============================================================================
