--------------------------- MODULE MCPartyOverlap ---------------------------
(* TLC instances of PartyOverlap: players are interchangeable, and so are *)
(* codes.                                                                 *)
EXTENDS PartyOverlap, TLC

Symmetry == Permutations(Users) \cup Permutations(Codes)

=============================================================================
