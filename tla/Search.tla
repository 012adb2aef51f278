------------------------------- MODULE Search -------------------------------
(***************************************************************************)
(* The matchmaking client of the SDK (matchmaker_api_client.gd): solo and   *)
(* party searches over the realtime socket, beside a server that holds      *)
(* tickets, forms matches and notifies.                                     *)
(*                                                                          *)
(* The client is single-threaded: it runs from one await to the next.  A    *)
(* suspended call is a record of start; requests travel to the server in    *)
(* up, answers and notifications come back in down, both in order.          *)
(***************************************************************************)
EXTENDS Integers, Sequences

CONSTANTS
    Accounts,
    NStarts,        \* calls of the client that can be suspended at once
    NTickets, NParties,
    Timeout,        \* _MATCH_TIMEOUT_SEC, in ticks
    MaxEvents       \* bound: calls of the game, lost sockets, account switches

ASSUME SearchAssumption ==
    /\ Accounts # {} /\ "nobody" \notin Accounts
    /\ {NStarts, NTickets, NParties, Timeout, MaxEvents} \subseteq Nat

VARIABLES
    account,        \* who is signed in
    sock,           \* _socket: absent, connected, or a handle that has lost its connection
    sockUser,       \* _socket_auth_user_id
    search,         \* _is_searching, _ticket, _is_allocating, _elapsed_sec
    party,          \* _rt_party_id, _is_rt_party_leader
    start,          \* the suspended calls
    pool,           \* tickets in the matchmaker pool
    owner, room,    \* of a ticket: its account, its realtime party or 0
    match,          \* of a ticket: the state of the match it went into
    rooms,          \* realtime parties, as the server has this client in them
    up, down,
    quiet,          \* the game has cancelled, with no party call suspended
    owed,           \* the game has asked for a search and heard of no outcome
    excused,        \* tickets the client may lose, see TicketsAccounted
    events

clientVars == <<account, sock, sockUser, search, party, start>>
serverVars == <<pool, owner, room, match, rooms>>
noteVars == <<quiet, owed, excused>>
vars == <<clientVars, serverVars, up, down, noteVars, events>>

Slots == 1 .. NStarts
Tickets == 1 .. NTickets
Parties == 1 .. NParties

Searches == {"solo", "party", "wait"}
Calls == Searches \cup {"create", "join"}

Start == [op : Calls \cup {"none"},
          pc : {"idle", "connect", "ip", "reply"},
          current : BOOLEAN,      \* its generation is still _search_generation
          user : Accounts]        \* whose session it connects with

(* Which account is signed in first makes no difference. *)
Anyone == CHOOSE a \in Accounts : TRUE
Free == [op |-> "none", pc |-> "idle", current |-> FALSE, user |-> Anyone]

NoSearch == [on |-> FALSE, ticket |-> 0, allocating |-> FALSE, elapsed |-> 0]
(* A search that ends outside cancel_matchmaking may leave the allocating flag set. *)
Over(allocating) == [NoSearch EXCEPT !.allocating = allocating]

NoParty == [id |-> 0, leads |-> FALSE]

At(p, pc) == start[p].pc = pc
End(p) == start' = [start EXCEPT ![p] = Free]
Counted == events < MaxEvents /\ events' = events + 1

Suspended(ops) == {p \in Slots : ~At(p, "idle") /\ start[p].op \in ops}

-----------------------------------------------------------------------------
(* What the client sends, when the socket is up. *)

Send(m) == IF sock = "up" THEN <<m>> ELSE <<>>

(* The API a withdrawal goes through is chosen by the party state it finds. *)
Removal(t) == [kind |-> "remove", ticket |-> t, id |-> IF party.leads THEN party.id ELSE 0]
Misdirected(t) == t # 0 /\ Removal(t).id # room[t]

Leaving == IF party.id = 0 THEN <<>> ELSE Send([kind |-> "leave", id |-> party.id])

(* The sends of cancel_matchmaking.  Its cancel_matchmaking_allocation only  *)
(* hastens the end of an allocation, which Outcome lets come at any time.   *)
Cancelling ==
    (IF search.on /\ search.ticket # 0 THEN Send(Removal(search.ticket)) ELSE <<>>) \o Leaving

(* A bump of _search_generation. *)
Outrun(calls) == [p \in Slots |-> [calls[p] EXCEPT !.current = FALSE]]

(* Mutant: only a cancel that ends a search counts as one. *)
CancelledSearchOnly(calls) ==
    /\ start' = IF search.on THEN Outrun(calls) ELSE calls
    /\ search' = NoSearch
    /\ party' = NoParty
    /\ excused' = IF search.on /\ Misdirected(search.ticket)
                  THEN excused \cup {search.ticket} ELSE excused

(* What cancel_matchmaking leaves on the client. *)
Cancelled(calls) ==
    /\ start' = Outrun(calls)
    /\ search' = NoSearch
    /\ party' = NoParty
    /\ excused' = IF search.on /\ Misdirected(search.ticket)
                  THEN excused \cup {search.ticket} ELSE excused

(* The server drops what belonged to a connection that is gone, but for the *)
(* allocations under way.                                                   *)
Gone ==
    /\ pool' = {}
    /\ rooms' = [i \in Parties |-> IF rooms[i] = "none" THEN "none" ELSE "closed"]
    /\ up' = <<>> /\ down' = <<>>
    /\ UNCHANGED <<owner, room, match>>

(* A call that waits for an answer of a connection that is gone ends with   *)
(* an exception.                                                            *)
Excepted(ends) == [p \in Slots |-> IF start[p].pc \in ends THEN Free ELSE start[p]]

-----------------------------------------------------------------------------
(* Calls of the game. *)

CanCall(p) == At(p, "idle") /\ (\A q \in 1 .. p - 1 : ~At(q, "idle")) /\ Counted

AskedCancel == quiet' = (Suspended({"party", "wait"}) = {}) /\ owed' = FALSE

(* cancel_matchmaking *)
Cancel ==
    /\ Counted
    /\ Cancelled(start)
    /\ up' = up \o Cancelling
    /\ AskedCancel
    /\ UNCHANGED <<account, sock, sockUser, serverVars, down>>

(* cleanup: a call that connects finds no socket when its await ends, and   *)
(* dies there; one that still waits for its session goes on and connects.   *)
Cleanup ==
    /\ Counted
    /\ sock # "none" \/ Suspended(Calls) # {}
    /\ \E ends \in {{"reply"}, {"connect", "reply"}} : Cancelled(Excepted(ends))
    /\ Gone
    /\ sock' = "none"
    /\ AskedCancel
    /\ UNCHANGED <<account, sockUser>>

(* Another account signs in without logging the first one out. *)
SwitchAccount ==
    /\ Counted
    /\ account' \in Accounts \ {account}
    /\ UNCHANGED <<sock, sockUser, search, party, start, serverVars, up, down, noteVars>>

(* With the socket up, a start records the client's address and a party     *)
(* call is sent.                                                            *)
Proceeding(r) == [r EXCEPT !.pc = IF r.op = "solo" THEN "ip" ELSE "reply", !.user = Anyone]
Sent(p, op) == IF op = "solo" THEN <<>> ELSE <<[kind |-> op, slot |-> p]>>

(* ensure_socket: the call goes on, or connects, or first closes a socket   *)
(* that is another account's.  Bound: one call connects at a time, so that   *)
(* a second socket opened while the first connects is left out.             *)
Ensure(p, op) ==
    LET r == [op |-> op, pc |-> "connect", current |-> op = "solo", user |-> account]
        others == IF op = "solo" THEN Outrun(start) ELSE start
    IN
    \/ /\ sock = "up" /\ sockUser = account
       /\ start' = [others EXCEPT ![p] = Proceeding(r)]
       /\ up' = up \o Sent(p, op)
       /\ UNCHANGED <<sock, search, party, excused, serverVars, down>>
    \/ /\ sock # "up" /\ \A q \in Slots : ~At(q, "connect")
       /\ start' = [others EXCEPT ![p] = r]
       /\ UNCHANGED <<sock, search, party, excused, serverVars, up, down>>
    \/ /\ sock = "up" /\ sockUser # account
       /\ Cancelled([Excepted({"reply"}) EXCEPT ![p] = r])
       /\ Gone
       /\ sock' = "none"

(* Excused: a search whose socket is closed for another account's ends      *)
(* without a signal, the one that closes it included.                       *)
Switching == sock = "up" /\ sockUser # account

(* start_matchmaking *)
StartSolo(p) ==
    /\ CanCall(p) /\ ~search.on
    /\ Ensure(p, "solo")
    /\ quiet' = FALSE /\ owed' = ~Switching
    /\ UNCHANGED <<account, sockUser>>

(* create_rt_party, join_rt_party *)
EnterParty(p, op) ==
    /\ CanCall(p)
    /\ Ensure(p, op)
    /\ owed' = (owed /\ ~Switching)
    /\ UNCHANGED <<account, sockUser, quiet>>

(* start_rt_party_matchmaking of a leader, begin_rt_party_wait. *)
StartParty(p, op) ==
    /\ CanCall(p) /\ ~search.on /\ party.id # 0
    /\ op = "party" => party.leads /\ sock = "up"
    /\ start' = [start EXCEPT ![p] = [Free EXCEPT !.op = op, !.pc = "ip"]]
    /\ quiet' = FALSE /\ owed' = TRUE
    /\ UNCHANGED <<account, sock, sockUser, search, party, serverVars, up, down, excused>>

(* Mutant: the party's id is forgotten, the leadership is not. *)
LeavePartyHalf ==
    /\ Counted /\ party.id # 0
    /\ party' = [party EXCEPT !.id = 0]
    /\ up' = up \o Leaving
    /\ UNCHANGED <<account, sock, sockUser, search, start, serverVars, down, noteVars>>

(* leave_rt_party *)
LeaveParty ==
    /\ Counted /\ party.id # 0
    /\ party' = NoParty
    /\ up' = up \o Leaving
    /\ UNCHANGED <<account, sock, sockUser, search, start, serverVars, down, noteVars>>

-----------------------------------------------------------------------------
(* Suspended calls go on. *)

Connected(p) ==
    /\ At(p, "connect")
    /\ \/ /\ sock' = "up" /\ sockUser' = start[p].user
          /\ start' = [start EXCEPT ![p] = Proceeding(@)]
          /\ up' = up \o Sent(p, start[p].op)
          /\ UNCHANGED owed
       \/ /\ sock' = "none" /\ owed' = FALSE
          /\ End(p)
          /\ UNCHANGED <<sockUser, up>>
    /\ UNCHANGED <<account, search, party, serverVars, down, quiet, excused, events>>

(* record_client_ip has been answered or has failed, which is not told      *)
(* apart.  Without a handle the call dies; a dead one refuses the ticket.   *)
Recorded(p) ==
    LET r == start[p] IN
    /\ At(p, "ip")
    /\ IF r.op = "wait"
       THEN /\ search' = [search EXCEPT !.on = TRUE, !.ticket = 0, !.elapsed = 0]
            /\ excused' = excused \cup ({search.ticket} \ {0})
            /\ End(p) /\ UNCHANGED <<up, owed>>
       ELSE /\ UNCHANGED <<search, excused>>
            /\ IF sock = "up"
               THEN /\ up' = Append(up, [kind |-> "add", slot |-> p,
                                         id |-> IF r.op = "party" THEN party.id ELSE 0,
                                         party |-> r.op = "party"])
                    /\ start' = [start EXCEPT ![p].pc = "reply"]
                    /\ UNCHANGED owed
               ELSE /\ owed' = (owed /\ sock # "down")
                    /\ End(p) /\ UNCHANGED up
    /\ UNCHANGED <<account, sock, sockUser, party, serverVars, down, quiet, events>>

(* _on_elapsed_tick: past the timeout, a search that has heard of its       *)
(* allocation is given up alone, any other is cancelled.                    *)
Abandoned ==
    /\ search' = NoSearch /\ party' = NoParty
    /\ up' = up \o Leaving
    /\ UNCHANGED <<start, excused>>

TimedOut ==
    /\ IF search.allocating THEN Abandoned ELSE Cancelled(start) /\ up' = up \o Cancelling
    /\ owed' = FALSE

Ticks ==
    /\ search' = [search EXCEPT !.elapsed = @ + 1]
    /\ UNCHANGED <<start, party, up, owed, excused>>

(* Mutant: a search that is allocating has no timeout. *)
TickWhileQueued ==
    /\ search.on /\ ~search.allocating
    /\ IF search.elapsed < Timeout THEN Ticks ELSE TimedOut
    /\ UNCHANGED <<account, sock, sockUser, serverVars, down, quiet, events>>

Tick ==
    /\ search.on
    /\ IF search.elapsed < Timeout THEN Ticks ELSE TimedOut
    /\ UNCHANGED <<account, sock, sockUser, serverVars, down, quiet, events>>

(* The connection is lost: _on_socket_closed cancels a search, an error     *)
(* only ends it.                                                            *)
Lost(closed) ==
    /\ Counted
    /\ sock = "up"
    /\ sock' = "down"
    /\ owed' = (owed /\ ~search.on /\ \A p \in Slots : ~At(p, "reply"))
    /\ IF closed /\ search.on
       THEN start' = Outrun(Excepted({"reply"})) /\ search' = NoSearch /\ party' = NoParty
       ELSE start' = Excepted({"reply"}) /\ search' = Over(search.allocating) /\ UNCHANGED party
    /\ Gone
    /\ UNCHANGED <<account, sockUser, quiet, excused>>

-----------------------------------------------------------------------------
(* The server. *)

Push(t, m) == down' = IF sock = "up" /\ sockUser = owner[t] THEN Append(down, m) ELSE down
Note(kind, t) == [kind |-> kind, ticket |-> t]

NextTicket == {t \in Tickets : owner[t] = "nobody" /\ \A s \in 1 .. t - 1 : owner[s] # "nobody"}
NextRoom == {i \in Parties : rooms[i] = "none" /\ \A j \in 1 .. i - 1 : rooms[j] # "none"}

Refused(m) == down' = Append(down, [kind |-> "error", slot |-> m.slot]) /\ UNCHANGED serverVars

(* A party may be searched for by its leader only. *)
Add(m) ==
    \/ /\ m.party => m.id # 0 /\ rooms[m.id] = "leader"
       /\ \E t \in NextTicket :
            /\ pool' = pool \cup {t}
            /\ owner' = [owner EXCEPT ![t] = sockUser]
            /\ room' = [room EXCEPT ![t] = m.id]
            /\ down' = Append(down, [kind |-> "ticket", slot |-> m.slot, ticket |-> t])
       /\ UNCHANGED <<match, rooms>>
    \/ Refused(m)

(* Each API knows its own kind of ticket. *)
Remove(m) ==
    /\ pool' = IF room[m.ticket] = m.id THEN pool \ {m.ticket} ELSE pool
    /\ UNCHANGED <<owner, room, match, rooms, down>>

Leave(m) ==
    /\ rooms' = [rooms EXCEPT ![m.id] = "closed"]
    /\ pool' = {t \in pool : room[t] # m.id}
    /\ UNCHANGED <<owner, room, match, down>>

Enter(m) ==
    \/ \E i \in NextRoom :
          /\ rooms' = [rooms EXCEPT ![i] = IF m.kind = "create" THEN "leader" ELSE "member"]
          /\ down' = Append(down, [kind |-> m.kind, slot |-> m.slot, id |-> i])
          /\ UNCHANGED <<pool, owner, room, match>>
    \/ Refused(m)

Serve ==
    LET m == Head(up) IN
    /\ up # <<>>
    /\ up' = Tail(up)
    /\ \/ m.kind = "add" /\ Add(m)
       \/ m.kind = "remove" /\ Remove(m)
       \/ m.kind = "leave" /\ Leave(m)
       \/ m.kind \in {"create", "join"} /\ Enter(m)
    /\ UNCHANGED <<clientVars, noteVars, events>>

(* A ticket is matched; match_allocating is sent at best effort. *)
Match(t) ==
    /\ t \in pool
    /\ pool' = pool \ {t}
    /\ match' = [match EXCEPT ![t] = "allocating"]
    /\ Push(t, Note("allocating", t)) \/ UNCHANGED down
    /\ UNCHANGED <<clientVars, owner, room, rooms, up, noteVars, events>>

(* The ticket of another leader, which covers this client, is matched. *)
MatchMember ==
    \E t \in NextTicket, i \in Parties :
      /\ rooms[i] = "member"
      /\ owner' = [owner EXCEPT ![t] = sockUser]
      /\ room' = [room EXCEPT ![t] = i]
      /\ match' = [match EXCEPT ![t] = "allocating"]
      /\ down' = Append(down, Note("allocating", t)) \/ UNCHANGED down
      /\ UNCHANGED <<clientVars, pool, rooms, up, noteVars, events>>

(* Its allocation ends, whatever the reason. *)
Outcome(t) ==
    /\ match[t] = "allocating"
    /\ match' = [match EXCEPT ![t] = "over"]
    /\ \E kind \in {"ready", "failed"} : Push(t, Note(kind, t))
    /\ UNCHANGED <<clientVars, pool, owner, room, rooms, up, noteVars, events>>

(* Another leader closes the party this client is in. *)
PartyClosed(i) ==
    /\ rooms[i] = "member"
    /\ rooms' = [rooms EXCEPT ![i] = "closed"]
    /\ down' = Append(down, [kind |-> "closed", id |-> i])
    /\ UNCHANGED <<clientVars, pool, owner, room, match, up, noteVars, events>>

-----------------------------------------------------------------------------
(* What the client makes of it. *)

(* Mutant: the answer is taken without a look at the generation. *)
AnsweredAlways(m) ==
    /\ End(m.slot)
    /\ search' = [search EXCEPT !.on = TRUE, !.ticket = m.ticket, !.elapsed = 0]
    /\ excused' = excused
    /\ UNCHANGED <<up, party, owed>>

(* A ticket: a start that a cancel or another start has outrun withdraws    *)
(* it, a party start takes it all the same.                                 *)
Answered(m) ==
    LET r == start[m.slot]
        other == search.ticket
    IN
    /\ End(m.slot)
    /\ IF r.op = "solo" /\ ~r.current
       THEN /\ up' = up \o Send(Removal(m.ticket))
            /\ excused' = IF Misdirected(m.ticket) THEN excused \cup {m.ticket} ELSE excused
            /\ UNCHANGED search
       ELSE /\ search' = [search EXCEPT !.on = TRUE, !.ticket = m.ticket, !.elapsed = 0]
            /\ excused' = excused \cup (IF search.allocating THEN {m.ticket} ELSE {})
                                  \cup (IF r.op = "party" \/ (other # 0 /\ room[other] # 0)
                                        THEN {other} \ {0} ELSE {})
            /\ UNCHANGED up
    /\ UNCHANGED <<party, owed>>

Entered(m) ==
    /\ End(m.slot)
    /\ party' = [id |-> m.id, leads |-> m.kind = "create"]
    /\ UNCHANGED <<search, up, owed, excused>>

Failed(m) ==
    /\ End(m.slot) /\ owed' = FALSE
    /\ UNCHANGED <<search, party, up, excused>>

(* A notification names no search: whichever is on takes it. *)
Foreign(m) == search.ticket \notin {0, m.ticket}
Lets(m) == excused' = IF Foreign(m) THEN excused \cup {search.ticket} ELSE excused

Notified(m) ==
    /\ UNCHANGED <<start, up>>
    /\ IF ~search.on THEN UNCHANGED <<search, party, owed, excused>>
       ELSE /\ Lets(m)
            /\ IF m.kind = "allocating"
               THEN /\ search' = [search EXCEPT !.allocating = TRUE, !.elapsed = 0]
                    /\ UNCHANGED <<party, owed>>
               ELSE /\ search' = NoSearch
                    /\ party' = IF m.kind = "ready" THEN NoParty ELSE party
                    /\ owed' = FALSE

ClosedByLeader(m) ==
    /\ IF party.id # m.id THEN UNCHANGED <<search, party, owed, excused>>
       ELSE /\ party' = NoParty
            /\ search' = Over(search.allocating)
            /\ owed' = (owed /\ ~search.on)
            /\ excused' = IF search.on THEN excused \cup ({search.ticket} \ {0}) ELSE excused
    /\ UNCHANGED <<start, up>>

Receive ==
    LET m == Head(down) IN
    /\ down # <<>>
    /\ down' = Tail(down)
    /\ \/ m.kind = "ticket" /\ Answered(m)
       \/ m.kind \in {"create", "join"} /\ Entered(m)
       \/ m.kind = "error" /\ Failed(m)
       \/ m.kind \in {"allocating", "ready", "failed"} /\ Notified(m)
       \/ m.kind = "closed" /\ ClosedByLeader(m)
    /\ UNCHANGED <<account, sock, sockUser, serverVars, quiet, events>>

-----------------------------------------------------------------------------
Init ==
    /\ account = Anyone /\ sockUser = account /\ sock = "none"
    /\ search = NoSearch /\ party = NoParty
    /\ start = [p \in Slots |-> Free]
    /\ pool = {} /\ owner = [t \in Tickets |-> "nobody"] /\ room = [t \in Tickets |-> 0]
    /\ match = [t \in Tickets |-> "none"] /\ rooms = [i \in Parties |-> "none"]
    /\ up = <<>> /\ down = <<>>
    /\ quiet = TRUE /\ owed = FALSE /\ excused = {} /\ events = 0

Resume(p) == Connected(p) \/ Recorded(p)

Next ==
    \/ \E p \in Slots :
         \/ StartSolo(p)
         \/ \E op \in {"create", "join"} : EnterParty(p, op)
         \/ \E op \in {"party", "wait"} : StartParty(p, op)
         \/ Resume(p)
    \/ Cancel \/ Cleanup \/ SwitchAccount \/ LeaveParty
    \/ \E closed \in BOOLEAN : Lost(closed)
    \/ Tick \/ Serve \/ Receive
    \/ \E t \in Tickets : Match(t) \/ Outcome(t)
    \/ MatchMember
    \/ \E i \in Parties : PartyClosed(i)

Spec == Init /\ [][Next]_vars

FairSpec ==
    /\ Spec
    /\ WF_vars(Tick) /\ WF_vars(Serve) /\ WF_vars(Receive)
    /\ \A p \in Slots : WF_vars(Resume(p))

-----------------------------------------------------------------------------
SearchTypeOK ==
    /\ account \in Accounts /\ sockUser \in Accounts /\ sock \in {"none", "up", "down"}
    /\ search \in [on : BOOLEAN, ticket : Tickets \cup {0}, allocating : BOOLEAN,
                   elapsed : 0 .. Timeout]
    /\ party \in [id : Parties \cup {0}, leads : BOOLEAN] /\ (party.leads => party.id # 0)
    /\ start \in [Slots -> Start]
    /\ pool \subseteq Tickets /\ \A t \in pool : match[t] = "none" /\ owner[t] = sockUser
    /\ owner \in [Tickets -> Accounts \cup {"nobody"}] /\ room \in [Tickets -> Parties \cup {0}]
    /\ match \in [Tickets -> {"none", "allocating", "over"}]
    /\ rooms \in [Parties -> {"none", "leader", "member", "closed"}]
    /\ sock # "up" => up = <<>> /\ down = <<>> /\ pool = {}
    /\ excused \subseteq Tickets /\ events \in 0 .. MaxEvents

Withdrawn(t) ==
    \E i \in DOMAIN up :
      \/ up[i].kind = "remove" /\ up[i].ticket = t /\ up[i].id = room[t]
      \/ up[i].kind = "leave" /\ up[i].id = room[t]

Held(t) ==
    \/ search.on /\ search.ticket = t
    \/ \E i \in DOMAIN down : down[i].kind = "ticket" /\ down[i].ticket = t

(* "the just-created ticket is withdrawn instead of going live as a ghost"  *)
(* (matchmaker_api_client.gd:90): a ticket in the pool is the one a search  *)
(* waits on, is on its way to the client, or is being withdrawn.  Excused   *)
(* are the tickets lost in the ways the client does not guard against: a    *)
(* notification of an earlier match, a search begun with the allocating     *)
(* flag of an earlier one, party starts, which do not look at the           *)
(* generation, a solo ticket withdrawn through the party API because the    *)
(* client leads a party, be it live or one that outlived its socket, and a  *)
(* solo search that ends because another leader closes a party joined       *)
(* beside it.                                                               *)
TicketsAccounted == \A t \in pool \ excused : Held(t) \/ Withdrawn(t)

(* The game's last word holds: after a cancel no search is on, unless a     *)
(* party call was suspended under it; and a search that was asked for and   *)
(* is neither on nor under way has ended with a signal, unless an account   *)
(* switch closed the socket under it.                                       *)
UserIsAnswered ==
    /\ quiet => ~search.on
    /\ owed /\ ~search.on => Suspended(Searches) # {}

(* "a dead socket cannot deliver match_ready: end the search" (:928) and    *)
(* the timeout: whatever the server leaves out, a search comes to an end    *)
(* and a suspended call goes on.                                            *)
Settles ==
    /\ search.on ~> ~search.on
    /\ \A p \in Slots : ~At(p, "idle") ~> At(p, "idle")

=============================================================================
