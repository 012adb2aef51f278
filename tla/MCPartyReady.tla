---------------------------- MODULE MCPartyReady ----------------------------
(* TLC instances of PartyReady: the players are interchangeable. *)
EXTENDS PartyReady, TLC

Symmetry == Permutations(Users)

=============================================================================
