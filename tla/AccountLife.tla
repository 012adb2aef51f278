---------------------------- MODULE AccountLife ----------------------------
(***************************************************************************)
(* What the platform promises about the life of an account, in terms a     *)
(* player would use.  Account implements it: only an account whose grace   *)
(* period was over when a pass of the account cron listed it is deleted    *)
(* by the platform, every other deletion is the player's own, and an       *)
(* account that is gone stays gone.                                        *)
(***************************************************************************)
CONSTANT Users

VARIABLE life   \* the stage of each account

Stages == {"live",      \* no deletion is queued
           "waiting",   \* queued, in its grace period
           "due",       \* queued, the grace period is over
           "doomed",    \* a pass listed it as due
           "gone"}

Init == life \in [Users -> {"live", "waiting"}]

Move(u, from, to) ==
    /\ life[u] \in from
    /\ life' = [life EXCEPT ![u] = to]

Request(u) == Move(u, {"live", "due"}, "waiting")

Cancel(u) == Move(u, {"waiting", "due"}, "live")

GraceEnds(u) == Move(u, {"waiting"}, "due")

(* A pass lists every account whose grace period is over. *)
List == life' = [u \in Users |-> IF life[u] = "due" THEN "doomed" ELSE life[u]]

(* A pass fails to delete an account it listed, or dies before it tries. *)
Spare(us) ==
    /\ \A u \in us : life[u] = "doomed"
    /\ \E stage \in [us -> {"live", "waiting", "due"}] :
         life' = [u \in Users |-> IF u \in us THEN stage[u] ELSE life[u]]

Delete(u) == Move(u, {"doomed"}, "gone")

(* The player's own immediate deletion. *)
Close(u) == Move(u, Stages \ {"gone"}, "gone")

Next ==
    \/ \E u \in Users :
         Request(u) \/ Cancel(u) \/ GraceEnds(u) \/ Delete(u) \/ Close(u)
    \/ List
    \/ \E us \in SUBSET Users : Spare(us)

Spec == Init /\ [][Next]_life
=============================================================================
