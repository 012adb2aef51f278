------------------------------ MODULE MCLimits ------------------------------
(***************************************************************************)
(* One player who adds two others, chats in a party with them and reports  *)
(* crashes, beside a game server that reports too.                         *)
(***************************************************************************)
EXTENDS Limits, TLC

CONSTANTS u1, u2, u3

Three == {u1, u2, u3}
One == {u1}

(* The two others do nothing but what any of them does. *)
Others == Permutations({u2, u3})

=============================================================================
