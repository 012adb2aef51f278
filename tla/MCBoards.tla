------------------------------ MODULE MCBoards ------------------------------
(***************************************************************************)
(* Three players, the third of which enters the board with a match, and a  *)
(* game that starts with a best-score board, or with none and may register *)
(* one with a running total.                                               *)
(***************************************************************************)
EXTENDS Boards, TLC

CONSTANTS m1, m2

Three == 1 .. 3
Two == {m1, m2}
Reported == (m1 :> (1 :> 1 @@ 3 :> 2)) @@ (m2 :> (3 :> 3))
Earlier == 1 :> 2 @@ 2 :> 2 @@ 3 :> None

Declares(v, s, o) == [version |-> v, board |-> [sort |-> s, operator |-> o]]
Bare(v) == [version |-> v, board |-> None]

Started == {Declares(1, "desc", "best"), Bare(1)}
Registered == {Declares(2, "desc", "incr")}

=============================================================================
