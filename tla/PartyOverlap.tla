---------------------------- MODULE PartyOverlap ----------------------------
(***************************************************************************)
(* What requests that overlap leave behind in a party.  The handlers tie   *)
(* their reads and writes together by nothing, so one request can overtake *)
(* another between a check and the write made on it.  Three history        *)
(* variables note exactly these overtakings, from the step in which they   *)
(* happen until no request is left that could still repair them and        *)
(* nothing is wrong; no step of Party reads them.                          *)
(***************************************************************************)
EXTENDS Party

VARIABLES
    crossed,    \* players whose own party was joined while they moved out of it
    astray,     \* parties whose next leader went before being named
    outrun      \* parties whose rows a request wrote on an outdated check

overlapVars == <<vars, crossed, astray, outrun>>

(* A call of u's request fails, or a restart cuts it off. *)
Failed(u) == faults' # faults /\ req'[u] # req[u]

Entered(p) == Active(p)' \ Active(p)
Went(p) == Active(p) \ Active(p)'

(* u may enter another party, for its present one counts no other member,   *)
(* and the count that decides whether the present one ends is yet to come.  *)
MovingIn(u) ==
    /\ req[u].op \in {"join", "joinByCode"}
    /\ req[u].pc \in {"join.commit", "clear.list", "clear.delete", "join.landed", "join.count",
                      "code.add", "code.solos", "code.count"}

Crossing ==
    {u \in Users : MovingIn(u) /\ \E p \in Memberships(u, req[u].p) : Entered(p) \ {u} # {}}

InOneParty(u) == At(u, "idle") /\ Cardinality(Memberships(u, None)) <= 1

(* The leader a request has read off a roster and not written yet. *)
Named(p) ==
    {req[u].next : u \in {v \in Users : At(v, "lead.write") /\ req[v].p = p}} \cup
    {req[u].t : u \in {v \in Users : At(v, "transfer.write") /\ req[v].p = p}}

LedByAdmin(p) ==
    /\ \A u \in Users : req[u].p = p => req[u].op \notin {"leave", "kick", "transfer"}
    /\ p \in groups /\ leader[p] # None => edge[p][leader[p]] = "admin"

(* A request past its membership check writes a row all the same. *)
Writing(u, p) ==
    /\ req[u].p = p
    /\ req[u].pc \in {"settings.write", "lead.write", "transfer.write",
                      "getCode.read", "getCode.forward", "getCode.reverse"}

Readying(u, p) == At(u, "ready.write") /\ req[u].op = "ready" /\ req[u].p = p

(* The party ends on a roster that misses somebody, or under a writer. *)
Ended(p) ==
    /\ p \in groups \ groups'
    /\ \E u \in Users : \/ Writing(u, p)
                        \/ At(u, "disband.delete") /\ At(u, "disband.rows")' /\ req[u].q = p
                           /\ ~(Active(p) \subseteq req[u].roster)

(* A second code is handed out for the party. *)
Recoded(p) ==
    \E u \in Users :
        /\ At(u, "getCode.forward") /\ At(u, "getCode.reverse")' /\ req[u].p = p
        /\ reverse[p] # None \/ \E v \in Users \ {u} : At(v, "getCode.reverse") /\ req[v].p = p

Tidied(p) ==
    /\ \A u \in Users : p \notin {req[u].p, req[u].q}
    /\ ready[p] \subseteq Active(p)
    /\ \A c \in Codes : forward[c] = p => p \in groups /\ reverse[p] = c
    /\ p \notin groups => leader[p] = None /\ p \notin settings /\ reverse[p] = None

Note ==
    /\ crossed' = {u \in crossed \cup Crossing \cup {v \in Users : Failed(v)} : ~InOneParty(u)'}
    /\ astray' = {p \in Parties :
         /\ \/ p \in astray
            \/ Named(p) \cap Went(p) # {}
            \/ \E u \in Users : Failed(u) /\ req[u].p = p
         /\ ~LedByAdmin(p)'}
    /\ outrun' = {p \in Parties :
         /\ \/ p \in outrun
            \/ Ended(p) \/ Recoded(p)
            \/ \E u \in Went(p) : Readying(u, p)
            \/ \E u \in Users : Failed(u) /\ p \in {req[u].p, req[u].q}
         /\ ~Tidied(p)'}

InitOverlap == Init /\ crossed = {} /\ astray = {} /\ outrun = {}
NextOverlap == Next /\ Note
SpecOverlap == InitOverlap /\ [][NextOverlap]_overlapVars

(* The runtime goes on with every request it has accepted. *)
FairSpecOverlap == SpecOverlap /\ \A u \in Users : WF_vars(Step(u))

-----------------------------------------------------------------------------
(* After-join hook, "they end up in exactly one party" (party.go:1325):      *)
(* whatever requests overlap, a player without a request in flight is in one *)
(* party at most, unless somebody joined the player's own party between the  *)
(* check that lets the player into another one and the count that ends it.   *)
OnePartyEach ==
    \A u \in Users \ crossed : At(u, "idle") => Cardinality(Memberships(u, None)) <= 1

(* resolvePartyLeader's comment, "a stale row pointing at someone no longer  *)
(* in the party shouldn't be possible in steady state": when no leave, kick  *)
(* or transfer is under way an override names an active member, promoted to  *)
(* admin so that adding and kicking work, unless the member went between the *)
(* roster read that picked them and the write.                               *)
OverrideNamesAdmin ==
    \A p \in groups \ astray :
        (\A u \in Users : req[u].p = p => req[u].op \notin {"leave", "kick", "transfer"})
            => (leader[p] # None => edge[p][leader[p]] = "admin")

(* A leave or a kick has just taken the leader out of a party that has other *)
(* active members, and its request is yet to look for a successor.           *)
LeaderDeparted(p) ==
    /\ p \in groups /\ Active(p) # {}
    /\ \E u \in Users :
         /\ req[u].op \in {"leave", "kick"} /\ req[u].p = p
         /\ req[u].pc \in {"leave.rows", "lead.resolve"}
         /\ req[u].t = ResolveLeader(p) /\ req[u].t \notin Active(p)

(* autoTransferIfLeaderDeparted, "promotes a new leader when the current     *)
(* leader has left (or been kicked)": when the leader of a party with active *)
(* members goes, whatever else is under way, the party has an active leader  *)
(* again or comes to an end, unless a pick went before being named or a      *)
(* failed call ends the search (astray; the run has no failing calls).       *)
LeaderRestored ==
    \A p \in Parties :
        LeaderDeparted(p) ~>
            (p \notin groups \/ Active(p) = {} \/ ResolveLeader(p) \in Active(p) \/ p \in astray)

(* The leave and kick hooks delete the row of whoever went, and              *)
(* disbandPartyGroup's comment says "the group and every party-scoped row    *)
(* are deleted, and the invite code pair is cleared": when no request is     *)
(* about the party, its ready rows are its members', it has one code at      *)
(* most, and nothing outlives it, unless a write was made on a check that    *)
(* the end of the party, a kick or a second code has outrun.                 *)
NoRowOutlives ==
    \A p \in Parties \ outrun :
        (\A u \in Users : p \notin {req[u].p, req[u].q}) =>
            /\ ready[p] \subseteq Active(p)
            /\ \A c \in Codes : forward[c] = p => p \in groups /\ reverse[p] = c
            /\ p \notin groups => leader[p] = None /\ p \notin settings /\ reverse[p] = None

=============================================================================
