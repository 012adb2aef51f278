-------------------------- MODULE MCMatchLifecycle --------------------------
(* TLC instances of MatchLifecycle: calls are interchangeable. *)
EXTENDS MatchLifecycle, TLC

Symmetry == Permutations(Calls)

=============================================================================
