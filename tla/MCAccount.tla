----------------------------- MODULE MCAccount -----------------------------
(***************************************************************************)
(* Account for TLC: a player who leaves and one who stays.                 *)
(***************************************************************************)
EXTENDS Account, TLC

CONSTANTS u1, u2

Players == {u1, u2}
Leavers == {u1}
Again == {"sent"}
=============================================================================
