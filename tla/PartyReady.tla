----------------------------- MODULE PartyReady -----------------------------
(***************************************************************************)
(* What a member's ready flag is worth when the party starts.  The store   *)
(* only says whether a ready row exists; two history variables remember    *)
(* what the row meant, computed from each step of Party and never read by  *)
(* one.                                                                    *)
(***************************************************************************)
EXTENDS Party

VARIABLES
    stale,      \* stale[p]: <<m, j>> when m's row was there before j became
                \* an active member of p
    spent       \* spent[p]: members a start counted who have not readied since

readyVars == <<vars, stale, spent>>

(* The step in which tryStart lets the start of u through. *)
Started(u, p) ==
    At(u, "start.guard") /\ req[u].p = p /\ req'[u].pc = "clear.list"

Remember ==
    /\ stale' = [p \in Parties |->
         {mj \in Users \X Users :
            /\ mj[1] \in ready[p] /\ mj[1] \in ready'[p] /\ mj[2] \in Active(p)'
            /\ mj[2] \in Active(p) => mj \in stale[p]}]
    /\ spent' = [p \in Parties |->
         IF \E u \in Users : Started(u, p)
         THEN UNION {req[u].roster : u \in {v \in Users : Started(v, p)}}
         ELSE {m \in spent[p] : m \in ready'[p] => m \in ready[p]}]

InitReady ==
    /\ Init
    /\ stale = [p \in Parties |-> {}]
    /\ spent = [p \in Parties |-> {}]

NextReady == Next /\ Remember

SpecReady == InitReady /\ [][NextReady]_readyVars

-----------------------------------------------------------------------------
(* Only a join resets readiness, and it resets everyone's: a start whose     *)
(* roster holds j counts no ready row from before j became a member.         *)
StartCountsFreshRows ==
    [][\A u \in Users :
         (At(u, "start.ready") /\ req'[u].pc = "start.guard") =>
             \A m, j \in req[u].roster : <<m, j>> \notin stale[req[u].p]]_readyVars

(* party_start_matchmaking's comment, "the start spends the party's          *)
(* readiness: every member readies again for the next match": no member is   *)
(* started twice on one ready flag.                                          *)
StartSpendsReadiness ==
    [][\A u \in Users, p \in Parties :
         Started(u, p) => req[u].roster \cap spent[p] = {}]_readyVars

=============================================================================
