---------------------------- MODULE SearchProofs ----------------------------
(***************************************************************************)
(* Theorems about Search: type correctness, TicketsAccounted and            *)
(* UserIsAnswered.                                                          *)
(***************************************************************************)
EXTENDS Search, SequenceTheorems, TLAPS

(* The messages. *)
Upward == [kind : {"remove"}, ticket : Tickets, id : Parties \cup {0}]
            \cup [kind : {"leave"}, id : Parties]
            \cup [kind : {"create", "join"}, slot : Slots]
            \cup [kind : {"add"}, slot : Slots, id : Parties \cup {0}, party : BOOLEAN]

Downward == [kind : {"error"}, slot : Slots]
              \cup [kind : {"ticket"}, slot : Slots, ticket : Tickets]
              \cup [kind : {"create", "join"}, slot : Slots, id : Parties]
              \cup [kind : {"allocating", "ready", "failed"}, ticket : Tickets]
              \cup [kind : {"closed"}, id : Parties]

Asks(m) == m.kind \in {"add", "create", "join"}
Answers(m) == m.kind \in {"ticket", "create", "join", "error"}

(* What TLC checks of every state, and the traffic. *)
Typed == SearchTypeOK /\ up \in Seq(Upward) /\ down \in Seq(Downward)
                      /\ quiet \in BOOLEAN /\ owed \in BOOLEAN

(* A suspended call waits for what its kind of call waits for; one call      *)
(* connects at a time, while there is no connection; and at most one solo    *)
(* start is of the present generation.                                       *)
CallOf(r) ==
    /\ r.pc = "idle" => r = Free
    /\ r.pc = "connect" => r.op \in {"solo", "create", "join"}
    /\ r.pc = "ip" => r.op \in Searches
    /\ r.pc = "reply" => r.op \in Calls \ {"wait"}
    /\ r.current => r.op = "solo"

Lined ==
    /\ \A p \in Slots : CallOf(start[p])
    /\ \A p \in Slots : At(p, "connect") => sock # "up"
    /\ \A p, q \in Slots : At(p, "connect") /\ At(q, "connect") => p = q
    /\ \A p, q \in Slots : start[p].current /\ start[q].current => p = q

(* The server holds nothing for a connection that is gone, and no match for  *)
(* a ticket not yet given out.                                               *)
Pooled ==
    /\ sock # "up" => \A i \in Parties : rooms[i] \in {"none", "closed"}
    /\ \A t \in Tickets : owner[t] = "nobody" => match[t] = "none"

(* Every call that waits for an answer has one request or one answer under   *)
(* way at most, and both are of its kind.                                    *)
AskOf(m) ==
    Asks(m) => /\ start[m.slot].pc = "reply"
               /\ m.kind = "add" => start[m.slot].op = IF m.party THEN "party" ELSE "solo"
               /\ m.kind # "add" => start[m.slot].op = m.kind

AnswerOf(m) ==
    /\ Answers(m) => start[m.slot].pc = "reply"
    /\ m.kind \in {"create", "join"} => start[m.slot].op = m.kind
    /\ m.kind = "ticket" =>
         /\ start[m.slot].op \in {"solo", "party"} /\ owner[m.ticket] # "nobody"
         /\ start[m.slot].op = "party" => room[m.ticket] # 0
    /\ m.kind \in {"allocating", "ready", "failed"} => match[m.ticket] # "none"

Posted ==
    /\ \A i \in DOMAIN up : AskOf(up[i])
    /\ \A i \in DOMAIN down : AnswerOf(down[i])
    /\ \A i, j \in DOMAIN up : Asks(up[i]) /\ Asks(up[j]) /\ up[i].slot = up[j].slot => i = j
    /\ \A i, j \in DOMAIN down :
         Answers(down[i]) /\ Answers(down[j]) /\ down[i].slot = down[j].slot => i = j
    /\ \A i \in DOMAIN up, j \in DOMAIN down :
         Asks(up[i]) /\ Answers(down[j]) => up[i].slot # down[j].slot

(* The ticket of the search: it was given out; when the search has heard of  *)
(* an allocation, it is no longer in the pool; and unless it is a party's,   *)
(* no solo start of the present generation is still under way.               *)
Named ==
    /\ search.ticket # 0 => search.on /\ owner[search.ticket] # "nobody"
    /\ search.ticket # 0 /\ search.allocating => search.ticket \notin pool \ excused
    /\ search.ticket # 0 => room[search.ticket] # 0 \/ \A p \in Slots : ~start[p].current

Followed == Named /\ TicketsAccounted

(* A call that will turn a search on, or end it with a signal. *)
Promising(r) ==
    \/ r.op = "wait"
    \/ r.op = "solo" /\ r.current /\ (sock = "none" => r.pc = "connect")
    \/ r.op = "party" /\ sock # "none"

Quieted ==
    quiet => /\ ~search.on
             /\ \A p \in Slots : start[p].op \notin {"party", "wait"} /\ ~start[p].current

Promised == owed /\ ~search.on => \E p \in Slots : Promising(start[p])

Heard == Quieted /\ Promised

SearchInv == Typed /\ Lined /\ Pooled /\ Posted /\ Followed /\ Heard

-----------------------------------------------------------------------------
(* Messages and sequences of them. *)

LEMMA UpMail ==
    ASSUME NEW m \in Upward
    PROVE  /\ m.kind \in {"remove", "leave", "create", "join", "add"}
           /\ m.kind = "remove" => m.ticket \in Tickets /\ m.id \in Parties \cup {0}
           /\ m.kind = "leave" => m.id \in Parties
           /\ Asks(m) => m.slot \in Slots
           /\ m.kind = "add" => m.id \in Parties \cup {0} /\ m.party \in BOOLEAN
    BY DEF Upward, Asks

LEMMA DownMail ==
    ASSUME NEW m \in Downward
    PROVE  /\ m.kind \in {"error", "ticket", "create", "join", "allocating", "ready",
                          "failed", "closed"}
           /\ Answers(m) => m.slot \in Slots
           /\ m.kind \in {"ticket", "allocating", "ready", "failed"} => m.ticket \in Tickets
           /\ m.kind \in {"create", "join", "closed"} => m.id \in Parties
    BY DEF Downward, Answers

LEMMA Appended ==
    ASSUME NEW S, NEW s \in Seq(S), NEW e \in S
    PROVE  /\ Append(s, e) \in Seq(S) /\ Append(s, e) = s \o <<e>>
           /\ Len(Append(s, e)) = Len(s) + 1
           /\ DOMAIN s = 1 .. Len(s) /\ DOMAIN Append(s, e) = 1 .. Len(s) + 1 /\ Len(s) \in Nat
           /\ \A i \in 1 .. Len(s) : Append(s, e)[i] = s[i]
           /\ Append(s, e)[Len(s) + 1] = e
    OBVIOUS

LEMMA Popped ==
    ASSUME NEW S, NEW s \in Seq(S), s # <<>>
    PROVE  /\ Head(s) \in S /\ Head(s) = s[1] /\ 1 \in DOMAIN s
           /\ Tail(s) \in Seq(S) /\ DOMAIN Tail(s) = 1 .. Len(s) - 1
           /\ DOMAIN s = 1 .. Len(s) /\ Len(s) \in Nat \ {0}
           /\ \A i \in DOMAIN Tail(s) : i + 1 \in DOMAIN s /\ Tail(s)[i] = s[i + 1]
    OBVIOUS

LEMMA Joined ==
    ASSUME NEW S, NEW s \in Seq(S), NEW t \in Seq(S)
    PROVE  /\ s \o t \in Seq(S) /\ Len(s) \in Nat /\ Len(t) \in Nat
           /\ DOMAIN s = 1 .. Len(s) /\ DOMAIN t = 1 .. Len(t)
           /\ DOMAIN (s \o t) = 1 .. Len(s) + Len(t)
           /\ \A i \in 1 .. Len(s) : (s \o t)[i] = s[i]
           /\ \A i \in 1 .. Len(t) : (s \o t)[Len(s) + i] = t[i]
    OBVIOUS

(* The slots' calls, ended, outrun or excepted. *)
LEMMA FreeCall ==
    /\ Anyone \in Accounts /\ Free \in Start
    /\ Free.op = "none" /\ Free.pc = "idle" /\ Free.current = FALSE /\ CallOf(Free)
<1>1. Anyone \in Accounts
    BY SearchAssumption DEF Anyone
<1>. QED
    BY <1>1 DEF Free, Start, CallOf

(* What a call may turn into without starting anything: freed or outrun. *)
Lesser(r, s) ==
    \/ r = Free
    \/ /\ r.op = s.op /\ r.pc = s.pc /\ r.current \in {s.current, FALSE}
       /\ r \in Start /\ CallOf(r)

LEMMA OutrunCalls ==
    ASSUME NEW calls \in [Slots -> Start]
    PROVE  /\ Outrun(calls) \in [Slots -> Start]
           /\ \A p \in Slots :
                /\ Outrun(calls)[p].op = calls[p].op /\ Outrun(calls)[p].pc = calls[p].pc
                /\ Outrun(calls)[p].current = FALSE /\ Outrun(calls)[p] \in Start
                /\ calls[p] = Free => Outrun(calls)[p] = Free
                /\ CallOf(calls[p]) => CallOf(Outrun(calls)[p])
<1>. DEFINE o(r) == [r EXCEPT !.current = FALSE]
<1>1. ASSUME NEW r \in Start
      PROVE  /\ o(r) \in Start /\ o(r).op = r.op /\ o(r).pc = r.pc /\ o(r).current = FALSE
             /\ r = Free => o(r) = Free
    BY FreeCall DEF Start, Free
<1>2. \A r \in Start : CallOf(r) => CallOf(o(r))
    BY <1>1 DEF CallOf
<1>3. \A p \in Slots : Outrun(calls)[p] = o(calls[p]) /\ calls[p] \in Start
    BY DEF Outrun
<1>4. Outrun(calls) \in [Slots -> Start]
    BY <1>1, <1>3 DEF Outrun
<1>. HIDE DEF o
<1>5. \A p \in Slots : CallOf(calls[p]) => CallOf(Outrun(calls)[p])
    BY <1>2, <1>3
<1>6. ASSUME NEW p \in Slots
      PROVE  /\ Outrun(calls)[p].op = calls[p].op /\ Outrun(calls)[p].pc = calls[p].pc
             /\ Outrun(calls)[p].current = FALSE /\ Outrun(calls)[p] \in Start
             /\ calls[p] = Free => Outrun(calls)[p] = Free
    <2>1. Outrun(calls)[p] = o(calls[p]) /\ calls[p] \in Start
        BY <1>3
    <2>2. /\ o(calls[p]) \in Start /\ o(calls[p]).op = calls[p].op
          /\ o(calls[p]).pc = calls[p].pc /\ o(calls[p]).current = FALSE
          /\ calls[p] = Free => o(calls[p]) = Free
        BY <1>1, <2>1
    <2>3. QED
        BY <2>1, <2>2
<1>. QED
    BY <1>4, <1>5, <1>6

LEMMA ExceptedCalls ==
    ASSUME start \in [Slots -> Start], NEW ends
    PROVE  /\ Excepted(ends) \in [Slots -> Start]
           /\ \A p \in Slots : Excepted(ends)[p] =
                IF start[p].pc \in ends THEN Free ELSE start[p]
    BY FreeCall DEF Excepted

(* What the client sends when it withdraws or leaves asks for no answer. *)
LEMMA Withdrawals ==
    ASSUME Typed
    PROVE  /\ \A t \in Tickets : Removal(t) \in Upward /\ ~Asks(Removal(t))
           /\ \A t \in Tickets : Send(Removal(t)) \in Seq(Upward)
           /\ Leaving \in Seq(Upward) /\ Cancelling \in Seq(Upward)
           /\ \A t \in Tickets : \A i \in DOMAIN Send(Removal(t)) : ~Asks(Send(Removal(t))[i])
           /\ \A i \in DOMAIN Leaving : ~Asks(Leaving[i])
           /\ \A i \in DOMAIN Cancelling : ~Asks(Cancelling[i])
           /\ sock # "up" => Leaving = <<>> /\ Cancelling = <<>>
           /\ sock = "up" /\ search.on /\ search.ticket # 0 =>
                \E i \in DOMAIN Cancelling : Cancelling[i] = Removal(search.ticket)
<1>1. \A t \in Tickets : Removal(t) \in Upward /\ Removal(t).kind = "remove"
    BY DEF Removal, Upward, Typed, SearchTypeOK, Parties
<1>2. \A t \in Tickets : ~Asks(Removal(t))
    BY <1>1 DEF Asks
<1>3. \A m \in Upward : ~Asks(m) => /\ Send(m) \in Seq(Upward)
                                    /\ \A i \in DOMAIN Send(m) : ~Asks(Send(m)[i])
    BY DEF Send
<1>4. [kind |-> "leave", id |-> party.id] \in Upward \/ party.id = 0
    BY DEF Upward, Typed, SearchTypeOK
<1>5. ~Asks([kind |-> "leave", id |-> party.id])
    BY DEF Asks
<1>6. Leaving \in Seq(Upward) /\ \A i \in DOMAIN Leaving : ~Asks(Leaving[i])
    BY <1>3, <1>4, <1>5 DEF Leaving
<1>. DEFINE s == IF search.on /\ search.ticket # 0 THEN Send(Removal(search.ticket)) ELSE <<>>
<1>7. search.ticket \in Tickets \cup {0}
    BY DEF Typed, SearchTypeOK
<1>8. s \in Seq(Upward) /\ \A i \in DOMAIN s : ~Asks(s[i])
    BY <1>1, <1>2, <1>3, <1>7
<1>9. Cancelling = s \o Leaving
    BY DEF Cancelling
<1>10. sock # "up" => Leaving = <<>> /\ s = <<>> /\ Cancelling = <<>>
    BY <1>9 DEF Leaving, Send
<1>11. sock = "up" /\ search.on /\ search.ticket # 0 => s = <<Removal(search.ticket)>>
    BY DEF Send
<1>12. \A i \in DOMAIN Cancelling : ~Asks(Cancelling[i])
  <2>1. SUFFICES ASSUME NEW i \in DOMAIN Cancelling
                 PROVE  \/ \E j \in DOMAIN s : Cancelling[i] = s[j]
                        \/ \E j \in DOMAIN Leaving : Cancelling[i] = Leaving[j]
      BY <1>6, <1>8
  <2>. HIDE DEF s
  <2>2. CASE i \in 1 .. Len(s)
      BY <2>2, <1>6, <1>8, <1>9, Joined
  <2>3. CASE i \notin 1 .. Len(s)
    <3>1. i - Len(s) \in DOMAIN Leaving /\ i = Len(s) + (i - Len(s))
        BY <2>3, <1>6, <1>8, <1>9, Joined
    <3>2. Cancelling[i] = Leaving[i - Len(s)]
        BY <3>1, <1>6, <1>8, <1>9, Joined
    <3>. QED
        BY <3>1, <3>2
  <2>. QED
      BY <2>2, <2>3
<1>13. Cancelling \in Seq(Upward)
    BY <1>6, <1>8, <1>9
<1>14. sock = "up" /\ search.on /\ search.ticket # 0 =>
         1 \in DOMAIN Cancelling /\ Cancelling[1] = Removal(search.ticket)
    BY <1>1, <1>6, <1>7, <1>9, <1>11
<1>. HIDE DEF s
<1>. QED
    BY <1>1, <1>2, <1>3, <1>6, <1>10, <1>12, <1>13, <1>14

LEMMA UpGrows ==
    ASSUME Typed, NEW t \in Seq(Upward)
    PROVE  up \o t \in Seq(Upward) /\ (up = <<>> /\ t = <<>> => up \o t = <<>>)
    BY DEF Typed

LEMMA DownGrows ==
    ASSUME Typed, NEW m \in Downward
    PROVE  Append(down, m) \in Seq(Downward)
    BY DEF Typed

LEMMA UpSame == ASSUME Typed PROVE up \o <<>> = up
    BY DEF Typed

-----------------------------------------------------------------------------
(* Types. *)

LEMMA CancelledTyped ==
    ASSUME Typed, NEW calls \in [Slots -> Start], Cancelled(calls)
    PROVE  /\ start' \in [Slots -> Start] /\ start' = Outrun(calls)
           /\ search' \in [on : BOOLEAN, ticket : Tickets \cup {0}, allocating : BOOLEAN,
                           elapsed : 0 .. Timeout]
           /\ party' \in [id : Parties \cup {0}, leads : BOOLEAN] /\ (party'.leads => party'.id # 0)
           /\ excused' \subseteq Tickets
<1>1. search.ticket \in Tickets \cup {0} /\ excused \subseteq Tickets
    BY DEF Typed, SearchTypeOK
<1>2. excused' \subseteq Tickets
    BY <1>1 DEF Cancelled, Misdirected
<1>3. 0 \in 0 .. Timeout
    BY SearchAssumption
<1>. QED
    BY <1>2, <1>3, OutrunCalls DEF Cancelled, NoSearch, NoParty

LEMMA GoneTyped ==
    ASSUME Typed, Gone
    PROVE  /\ pool' = {} /\ up' = <<>> /\ down' = <<>>
           /\ up' \in Seq(Upward) /\ down' \in Seq(Downward)
           /\ rooms' \in [Parties -> {"none", "leader", "member", "closed"}]
           /\ \A i \in Parties : rooms'[i] \in {"none", "closed"}
           /\ owner' = owner /\ room' = room /\ match' = match
    BY DEF Typed, SearchTypeOK, Gone

(* A step that leaves the server and the traffic down alone. *)
LEMMA ServerKept ==
    ASSUME Typed, UNCHANGED <<serverVars, down>>, sock' = sock, sockUser' = sockUser
    PROVE  /\ pool' \subseteq Tickets /\ \A t \in pool' : match'[t] = "none" /\ owner'[t] = sockUser'
           /\ owner' \in [Tickets -> Accounts \cup {"nobody"}]
           /\ room' \in [Tickets -> Parties \cup {0}]
           /\ match' \in [Tickets -> {"none", "allocating", "over"}]
           /\ rooms' \in [Parties -> {"none", "leader", "member", "closed"}]
           /\ sock' # "up" => down' = <<>> /\ pool' = {}
           /\ down' \in Seq(Downward)
           /\ sockUser' \in Accounts /\ sock' \in {"none", "up", "down"}
    BY DEF Typed, SearchTypeOK, serverVars

LEMMA EventsTyped ==
    ASSUME Typed
    PROVE  events' = events \/ Counted => events' \in 0 .. MaxEvents
    BY SearchAssumption DEF Typed, SearchTypeOK, Counted

LEMMA CancelTyped == ASSUME Typed, Cancel PROVE Typed'
<1>1. up' \in Seq(Upward) /\ (sock # "up" => up' = <<>>)
    BY Withdrawals, Joined DEF Cancel, Typed, SearchTypeOK
<1>2. start \in [Slots -> Start] /\ account' \in Accounts
    BY DEF Typed, SearchTypeOK, Cancel
<1>3. quiet' \in BOOLEAN /\ owed' \in BOOLEAN
    BY DEF Cancel, AskedCancel
<1>. QED
    BY <1>1, <1>2, <1>3, CancelledTyped, ServerKept, EventsTyped DEF Cancel, Typed, SearchTypeOK

LEMMA CleanupTyped == ASSUME Typed, Cleanup PROVE Typed'
<1>1. \A ends : Excepted(ends) \in [Slots -> Start]
    BY ExceptedCalls DEF Typed, SearchTypeOK
<1>2. account' \in Accounts /\ sockUser' \in Accounts /\ sock' = "none"
    BY DEF Typed, SearchTypeOK, Cleanup
<1>3. quiet' \in BOOLEAN /\ owed' \in BOOLEAN
    BY DEF Cleanup, AskedCancel
<1>4. /\ owner' \in [Tickets -> Accounts \cup {"nobody"}]
      /\ room' \in [Tickets -> Parties \cup {0}]
      /\ match' \in [Tickets -> {"none", "allocating", "over"}]
    BY GoneTyped DEF Typed, SearchTypeOK, Cleanup
<1>. QED
    BY <1>1, <1>2, <1>3, <1>4, CancelledTyped, GoneTyped, EventsTyped DEF Cleanup, Typed, SearchTypeOK

LEMMA CallTyped ==
    ASSUME Typed, NEW op \in {"solo", "create", "join"}, NEW user \in Accounts,
           NEW current \in BOOLEAN
    PROVE  LET r == [op |-> op, pc |-> "connect", current |-> current, user |-> user]
           IN  /\ r \in Start /\ Proceeding(r) \in Start
               /\ Proceeding(r).op = op /\ Proceeding(r).current = current
               /\ Proceeding(r).pc = IF op = "solo" THEN "ip" ELSE "reply"
    BY FreeCall DEF Start, Proceeding, Calls, Searches

LEMMA SentTyped ==
    ASSUME NEW p \in Slots, NEW op \in {"solo", "create", "join"}
    PROVE  /\ Sent(p, op) \in Seq(Upward)
           /\ op # "solo" => /\ [kind |-> op, slot |-> p] \in Upward
                             /\ Sent(p, op) = <<[kind |-> op, slot |-> p]>>
           /\ op = "solo" => Sent(p, op) = <<>>
<1>1. op # "solo" => [kind |-> op, slot |-> p] \in Upward
    BY DEF Upward
<1>2. op # "solo" => <<[kind |-> op, slot |-> p]>> \in Seq(Upward)
    BY <1>1
<1>. QED
    BY <1>1, <1>2 DEF Sent

LEMMA EnsureTyped ==
    ASSUME Typed, NEW p \in Slots, NEW op \in {"solo", "create", "join"}, Ensure(p, op),
           Counted, UNCHANGED <<account, sockUser>>, quiet' \in BOOLEAN, owed' \in BOOLEAN
    PROVE  Typed'
<1>. DEFINE r == [op |-> op, pc |-> "connect", current |-> op = "solo", user |-> account]
            others == IF op = "solo" THEN Outrun(start) ELSE start
<1>1. start \in [Slots -> Start] /\ account \in Accounts /\ account' = account
    BY DEF Typed, SearchTypeOK
<1>2. others \in [Slots -> Start]
    BY <1>1, OutrunCalls
<1>3. r \in Start /\ Proceeding(r) \in Start
    BY <1>1, CallTyped
<1>4. CASE /\ sock = "up" /\ sockUser = account
           /\ start' = [others EXCEPT ![p] = Proceeding(r)]
           /\ up' = up \o Sent(p, op)
           /\ UNCHANGED <<sock, search, party, excused, serverVars, down>>
  <2>1. up' \in Seq(Upward)
      BY <1>4, SentTyped, Joined DEF Typed
  <2>2. start' \in [Slots -> Start]
      BY <1>2, <1>3, <1>4
  <2>. QED
      BY <1>1, <1>4, <2>1, <2>2, ServerKept, EventsTyped DEF Typed, SearchTypeOK
<1>5. CASE /\ sock # "up" /\ \A q \in Slots : ~At(q, "connect")
           /\ start' = [others EXCEPT ![p] = r]
           /\ UNCHANGED <<sock, search, party, excused, serverVars, up, down>>
  <2>2. start' \in [Slots -> Start]
      BY <1>2, <1>3, <1>5
  <2>. QED
      BY <1>1, <1>5, <2>2, ServerKept, EventsTyped DEF Typed, SearchTypeOK
<1>6. CASE /\ sock = "up" /\ sockUser # account
           /\ Cancelled([Excepted({"reply"}) EXCEPT ![p] = r])
           /\ Gone
           /\ sock' = "none"
  <2>1. [Excepted({"reply"}) EXCEPT ![p] = r] \in [Slots -> Start]
      BY <1>1, <1>3, ExceptedCalls
  <2>2. /\ owner' \in [Tickets -> Accounts \cup {"nobody"}]
        /\ room' \in [Tickets -> Parties \cup {0}]
        /\ match' \in [Tickets -> {"none", "allocating", "over"}]
        /\ sockUser' \in Accounts
      BY <1>6, GoneTyped DEF Typed, SearchTypeOK
  <2>3. /\ start' \in [Slots -> Start]
        /\ search' \in [on : BOOLEAN, ticket : Tickets \cup {0}, allocating : BOOLEAN,
                        elapsed : 0 .. Timeout]
        /\ party' \in [id : Parties \cup {0}, leads : BOOLEAN] /\ (party'.leads => party'.id # 0)
        /\ excused' \subseteq Tickets
      BY <1>6, <2>1, CancelledTyped
  <2>4. /\ pool' = {} /\ up' = <<>> /\ down' = <<>>
        /\ up' \in Seq(Upward) /\ down' \in Seq(Downward)
        /\ rooms' \in [Parties -> {"none", "leader", "member", "closed"}]
      BY <1>6, GoneTyped
  <2>. QED
      BY <1>1, <1>6, <2>2, <2>3, <2>4, EventsTyped DEF Typed, SearchTypeOK
<1>. QED
    BY <1>4, <1>5, <1>6 DEF Ensure

LEMMA CallsTyped ==
    ASSUME Typed, NEW p \in Slots
    PROVE  /\ StartSolo(p) => Typed'
           /\ \A op \in {"create", "join"} : EnterParty(p, op) => Typed'
           /\ \A op \in {"party", "wait"} : StartParty(p, op) => Typed'
<1>1. ASSUME StartSolo(p) PROVE Typed'
    BY <1>1, EnsureTyped DEF StartSolo, CanCall
<1>2. ASSUME NEW op \in {"create", "join"}, EnterParty(p, op) PROVE Typed'
  <2>1. quiet' \in BOOLEAN /\ owed' \in BOOLEAN
      BY <1>2 DEF EnterParty, Typed
  <2>. QED
      BY <1>2, <2>1, EnsureTyped DEF EnterParty, CanCall
<1>3. ASSUME NEW op \in {"party", "wait"}, StartParty(p, op) PROVE Typed'
  <2>1. [Free EXCEPT !.op = op, !.pc = "ip"] \in Start
      BY FreeCall DEF Start, Calls, Searches
  <2>2. start' \in [Slots -> Start]
      BY <1>3, <2>1 DEF StartParty, Typed, SearchTypeOK
  <2>. QED
      BY <1>3, <2>2, ServerKept, EventsTyped DEF StartParty, Typed, SearchTypeOK, CanCall
<1>. QED
    BY <1>1, <1>2, <1>3

LEMMA ConnectedTyped ==
    ASSUME Typed, Lined, NEW p \in Slots, Connected(p) PROVE Typed'
<1>1. /\ start[p] \in Start /\ start[p].op \in {"solo", "create", "join"}
      /\ start[p].pc = "connect" /\ sock # "up"
    BY DEF Typed, SearchTypeOK, Lined, CallOf, Connected, At
<1>2. up = <<>> /\ down = <<>> /\ pool = {} /\ pool' = {} /\ down' = <<>>
    BY <1>1 DEF Typed, SearchTypeOK, Connected, serverVars
<1>3. Proceeding(start[p]) \in Start
    BY <1>1, FreeCall DEF Start, Proceeding, Calls, Searches
<1>4. start' \in [Slots -> Start]
    BY <1>3, FreeCall DEF Connected, End, Typed, SearchTypeOK
<1>5. up' \in Seq(Upward) /\ down' \in Seq(Downward)
  <2>1. Sent(p, start[p].op) \in Seq(Upward)
      BY <1>1, SentTyped
  <2>2. up' = up \/ up' = up \o Sent(p, start[p].op)
      BY DEF Connected
  <2>. QED
      BY <1>2, <2>1, <2>2, UpGrows DEF Typed
<1>6. sock' \in {"up", "none"} /\ sockUser' \in Accounts
    BY <1>1 DEF Connected, Start, Typed, SearchTypeOK
<1>7. sock' = "none" => up' = <<>>
    BY <1>2 DEF Connected
<1>8. owed' \in BOOLEAN
    BY DEF Connected, Typed
<1>. QED
    BY <1>2, <1>4, <1>5, <1>6, <1>7, <1>8, EventsTyped
    DEF Connected, Typed, SearchTypeOK, serverVars

LEMMA RecordedTyped ==
    ASSUME Typed, Lined, NEW p \in Slots, Recorded(p) PROVE Typed'
<1>1. start[p] \in Start /\ start[p].op \in Searches
    BY DEF Typed, SearchTypeOK, Lined, CallOf, Recorded, At
<1>2. 0 \in 0 .. Timeout
    BY SearchAssumption
<1>3. CASE start[p].op = "wait"
  <2>1. /\ search' = [search EXCEPT !.on = TRUE, !.ticket = 0, !.elapsed = 0]
        /\ excused' = excused \cup ({search.ticket} \ {0})
        /\ start' = [start EXCEPT ![p] = Free] /\ up' = up /\ owed' = owed
      BY <1>3 DEF Recorded, End
  <2>2. start' \in [Slots -> Start]
      BY <2>1, FreeCall DEF Typed, SearchTypeOK
  <2>3. excused' \subseteq Tickets
      BY <2>1 DEF Typed, SearchTypeOK
  <2>4. search' \in [on : BOOLEAN, ticket : Tickets \cup {0}, allocating : BOOLEAN,
                     elapsed : 0 .. Timeout]
      BY <1>2, <2>1 DEF Typed, SearchTypeOK
  <2>. QED
      BY <2>1, <2>2, <2>3, <2>4, ServerKept, EventsTyped DEF Recorded, Typed, SearchTypeOK
<1>4. CASE start[p].op # "wait" /\ sock = "up"
  <2>. DEFINE m == [kind |-> "add", slot |-> p, id |-> IF start[p].op = "party" THEN party.id ELSE 0,
                    party |-> start[p].op = "party"]
  <2>1. /\ search' = search /\ excused' = excused /\ owed' = owed
        /\ up' = Append(up, m) /\ start' = [start EXCEPT ![p].pc = "reply"]
      BY <1>4 DEF Recorded
  <2>2. start' \in [Slots -> Start]
      BY <1>1, <2>1 DEF Start, Typed, SearchTypeOK
  <2>3. m \in Upward
      BY DEF Upward, Typed, SearchTypeOK
  <2>4. up' \in Seq(Upward)
      BY <2>1, <2>3, Appended DEF Typed
  <2>. QED
      BY <1>4, <2>1, <2>2, <2>4, ServerKept, EventsTyped DEF Recorded, Typed, SearchTypeOK
<1>5. CASE start[p].op # "wait" /\ sock # "up"
  <2>1. /\ search' = search /\ excused' = excused /\ owed' = (owed /\ sock # "down")
        /\ up' = up /\ start' = [start EXCEPT ![p] = Free]
      BY <1>5 DEF Recorded, End
  <2>2. start' \in [Slots -> Start]
      BY <2>1, FreeCall DEF Typed, SearchTypeOK
  <2>. QED
      BY <2>1, <2>2, ServerKept, EventsTyped DEF Recorded, Typed, SearchTypeOK
<1>. QED
    BY <1>3, <1>4, <1>5

LEMMA ClientTyped ==
    ASSUME Typed
    PROVE  /\ SwitchAccount => Typed'
           /\ LeaveParty => Typed'
           /\ Tick => Typed'
<1>1. ASSUME SwitchAccount PROVE Typed'
    BY <1>1, ServerKept, EventsTyped DEF SwitchAccount, Typed, SearchTypeOK, noteVars
<1>2. ASSUME LeaveParty PROVE Typed'
  <2>1. up' \in Seq(Upward) /\ (sock # "up" => up' = <<>>)
      BY <1>2, Withdrawals, Joined DEF LeaveParty, Typed, SearchTypeOK
  <2>2. party' = NoParty
      BY <1>2 DEF LeaveParty
  <2>. QED
      BY <1>2, <2>1, <2>2, ServerKept, EventsTyped
      DEF LeaveParty, Typed, SearchTypeOK, noteVars, NoParty
<1>3. ASSUME Tick PROVE Typed'
  <2>1. CASE search.elapsed < Timeout
    <3>1. Ticks
        BY <1>3, <2>1 DEF Tick
    <3>2. search.elapsed + 1 \in 0 .. Timeout
        BY <2>1, SearchAssumption DEF Typed, SearchTypeOK
    <3>3. search' \in [on : BOOLEAN, ticket : Tickets \cup {0}, allocating : BOOLEAN,
                       elapsed : 0 .. Timeout]
        BY <3>1, <3>2 DEF Ticks, Typed, SearchTypeOK
    <3>. QED
        BY <1>3, <3>1, <3>3, ServerKept, EventsTyped DEF Tick, Ticks, Typed, SearchTypeOK
  <2>2. CASE ~(search.elapsed < Timeout)
    <3>1. TimedOut
        BY <1>3, <2>2 DEF Tick
    <3>2. /\ search' = NoSearch /\ party' = NoParty /\ owed' = FALSE
          /\ up' = up \o Leaving \/ up' = up \o Cancelling
          /\ start' \in [Slots -> Start] /\ excused' \subseteq Tickets
      <4>1. start \in [Slots -> Start]
          BY DEF Typed, SearchTypeOK
      <4>. QED
          BY <3>1, <4>1, CancelledTyped DEF TimedOut, Abandoned, Cancelled, Typed, SearchTypeOK
    <3>3. up' \in Seq(Upward) /\ (sock # "up" => up' = <<>>)
        BY <3>2, Withdrawals, UpGrows DEF Typed, SearchTypeOK
    <3>4. 0 \in 0 .. Timeout
        BY SearchAssumption
    <3>. QED
        BY <1>3, <3>2, <3>3, <3>4, ServerKept, EventsTyped
        DEF Tick, Typed, SearchTypeOK, NoSearch, NoParty
  <2>. QED
      BY <2>1, <2>2
<1>. QED
    BY <1>1, <1>2, <1>3

LEMMA LostTyped ==
    ASSUME Typed, NEW closed \in BOOLEAN, Lost(closed) PROVE Typed'
<1>1. Excepted({"reply"}) \in [Slots -> Start]
    BY ExceptedCalls DEF Typed, SearchTypeOK
<1>2. start' \in [Slots -> Start]
    BY <1>1, OutrunCalls DEF Lost
<1>3. 0 \in 0 .. Timeout
    BY SearchAssumption
<1>4. /\ search' = NoSearch \/ search' = [NoSearch EXCEPT !.allocating = search.allocating]
      /\ party' = NoParty \/ party' = party
    BY DEF Lost, Over
<1>5. /\ search' \in [on : BOOLEAN, ticket : Tickets \cup {0}, allocating : BOOLEAN,
                      elapsed : 0 .. Timeout]
      /\ party' \in [id : Parties \cup {0}, leads : BOOLEAN] /\ (party'.leads => party'.id # 0)
  <2>1. search.allocating \in BOOLEAN
      BY DEF Typed, SearchTypeOK
  <2>2. NoSearch \in [on : BOOLEAN, ticket : Tickets \cup {0}, allocating : BOOLEAN,
                      elapsed : 0 .. Timeout]
      BY <1>3 DEF NoSearch
  <2>3. [NoSearch EXCEPT !.allocating = search.allocating]
          \in [on : BOOLEAN, ticket : Tickets \cup {0}, allocating : BOOLEAN,
              elapsed : 0 .. Timeout]
      BY <2>1, <2>2
  <2>4. party' \in [id : Parties \cup {0}, leads : BOOLEAN] /\ (party'.leads => party'.id # 0)
    <3>1. NoParty \in [id : Parties \cup {0}, leads : BOOLEAN] /\ ~NoParty.leads
        BY DEF NoParty
    <3>. QED
        BY <1>4, <3>1 DEF Typed, SearchTypeOK
  <2>. QED
      BY <1>4, <2>2, <2>3, <2>4
<1>6. owed' \in BOOLEAN /\ sock' = "down"
    BY DEF Lost
<1>7. Gone
    BY DEF Lost
<1>. QED
    BY <1>2, <1>5, <1>6, <1>7, GoneTyped, EventsTyped DEF Lost, Typed, SearchTypeOK

(* A step of the server or of the traffic leaves the client alone. *)
LEMMA ClientKept ==
    ASSUME Typed, UNCHANGED <<clientVars, noteVars, events>>
    PROVE  /\ account' \in Accounts /\ sockUser' \in Accounts /\ sock' \in {"none", "up", "down"}
           /\ search' \in [on : BOOLEAN, ticket : Tickets \cup {0}, allocating : BOOLEAN,
                           elapsed : 0 .. Timeout]
           /\ party' \in [id : Parties \cup {0}, leads : BOOLEAN] /\ (party'.leads => party'.id # 0)
           /\ start' \in [Slots -> Start]
           /\ excused' \subseteq Tickets /\ events' \in 0 .. MaxEvents
           /\ quiet' \in BOOLEAN /\ owed' \in BOOLEAN
           /\ sock' = sock /\ sockUser' = sockUser /\ search' = search /\ party' = party
           /\ start' = start /\ quiet' = quiet /\ owed' = owed /\ excused' = excused
           /\ account' = account
    BY DEF Typed, SearchTypeOK, clientVars, noteVars

(* The next ticket to be given out is in nobody's hands. *)
LEMMA FreshTicket ==
    ASSUME Typed, NEW t \in NextTicket
    PROVE  t \in Tickets /\ owner[t] = "nobody" /\ t \notin pool /\ sockUser # "nobody" /\ t # 0
    BY SearchAssumption DEF NextTicket, Typed, SearchTypeOK, Tickets

(* What serving the request m does. *)
LEMMA AddTyped ==
    ASSUME Typed, Pooled, NEW m \in Upward, m.kind = "add", Add(m), sock = "up"
    PROVE  /\ pool' \subseteq Tickets /\ \A t \in pool' : match'[t] = "none" /\ owner'[t] = sockUser
           /\ owner' \in [Tickets -> Accounts \cup {"nobody"}]
           /\ room' \in [Tickets -> Parties \cup {0}]
           /\ match' \in [Tickets -> {"none", "allocating", "over"}]
           /\ rooms' \in [Parties -> {"none", "leader", "member", "closed"}]
           /\ down' \in Seq(Downward)
<1>1. m.slot \in Slots /\ m.id \in Parties \cup {0}
    BY UpMail DEF Asks
<1>2. ASSUME NEW t \in NextTicket,
             pool' = pool \cup {t}, owner' = [owner EXCEPT ![t] = sockUser],
             room' = [room EXCEPT ![t] = m.id],
             down' = Append(down, [kind |-> "ticket", slot |-> m.slot, ticket |-> t]),
             UNCHANGED <<match, rooms>>
      PROVE  /\ pool' \subseteq Tickets /\ \A s \in pool' : match'[s] = "none" /\ owner'[s] = sockUser
             /\ owner' \in [Tickets -> Accounts \cup {"nobody"}]
             /\ room' \in [Tickets -> Parties \cup {0}]
             /\ match' \in [Tickets -> {"none", "allocating", "over"}]
             /\ rooms' \in [Parties -> {"none", "leader", "member", "closed"}]
             /\ down' \in Seq(Downward)
  <2>1. [kind |-> "ticket", slot |-> m.slot, ticket |-> t] \in Downward
      BY <1>1, <1>2, FreshTicket DEF Downward
  <2>2. down' \in Seq(Downward)
      BY <1>2, <2>1, DownGrows
  <2>. QED
      BY <1>1, <1>2, <2>2, FreshTicket DEF Typed, SearchTypeOK, Pooled
<1>3. ASSUME Refused(m)
      PROVE  down' \in Seq(Downward) /\ UNCHANGED serverVars
  <2>1. [kind |-> "error", slot |-> m.slot] \in Downward
      BY <1>1 DEF Downward
  <2>. QED
      BY <1>3, <2>1, DownGrows DEF Refused
<1>4. CASE Refused(m)
    BY <1>3, <1>4 DEF Typed, SearchTypeOK, serverVars
<1>5. CASE ~Refused(m)
  <2>1. PICK t \in NextTicket :
          /\ pool' = pool \cup {t} /\ owner' = [owner EXCEPT ![t] = sockUser]
          /\ room' = [room EXCEPT ![t] = m.id]
          /\ down' = Append(down, [kind |-> "ticket", slot |-> m.slot, ticket |-> t])
          /\ UNCHANGED <<match, rooms>>
      BY <1>5 DEF Add
  <2>. QED
      BY <1>2, <2>1
<1>. QED
    BY <1>4, <1>5

LEMMA EnterTyped ==
    ASSUME Typed, NEW m \in Upward, m.kind \in {"create", "join"}, Enter(m)
    PROVE  /\ UNCHANGED <<pool, owner, room, match>>
           /\ rooms' \in [Parties -> {"none", "leader", "member", "closed"}]
           /\ down' \in Seq(Downward)
<1>1. m.slot \in Slots
    BY UpMail DEF Asks
<1>2. ASSUME NEW i \in NextRoom
      PROVE  /\ [rooms EXCEPT ![i] = IF m.kind = "create" THEN "leader" ELSE "member"]
                   \in [Parties -> {"none", "leader", "member", "closed"}]
             /\ Append(down, [kind |-> m.kind, slot |-> m.slot, id |-> i]) \in Seq(Downward)
  <2>1. [kind |-> m.kind, slot |-> m.slot, id |-> i] \in Downward
      BY <1>1, <1>2 DEF Downward, NextRoom
  <2>2. Append(down, [kind |-> m.kind, slot |-> m.slot, id |-> i]) \in Seq(Downward)
      BY <2>1, DownGrows
  <2>. QED
      BY <2>2 DEF Typed, SearchTypeOK, NextRoom
<1>3. Append(down, [kind |-> "error", slot |-> m.slot]) \in Seq(Downward)
  <2>1. [kind |-> "error", slot |-> m.slot] \in Downward
      BY <1>1 DEF Downward
  <2>. QED
      BY <2>1, DownGrows
<1>4. CASE Refused(m)
    BY <1>3, <1>4 DEF Refused, serverVars, Typed, SearchTypeOK
<1>5. CASE \E i \in NextRoom :
            /\ rooms' = [rooms EXCEPT ![i] = IF m.kind = "create" THEN "leader" ELSE "member"]
            /\ down' = Append(down, [kind |-> m.kind, slot |-> m.slot, id |-> i])
            /\ UNCHANGED <<pool, owner, room, match>>
    BY <1>2, <1>5
<1>. QED
    BY <1>4, <1>5 DEF Enter

LEMMA ServeTyped == ASSUME Typed, Pooled, Serve PROVE Typed'
<1>. DEFINE m == Head(up)
<1>1. /\ up \in Seq(Upward) /\ up # <<>> /\ m \in Upward /\ up' = Tail(up) /\ up' \in Seq(Upward)
      /\ sock = "up"
    BY Popped DEF Serve, Typed, SearchTypeOK
<1>2. UNCHANGED <<clientVars, noteVars, events>>
    BY DEF Serve
<1>. HIDE DEF m
<1>3. CASE m.kind = "add" /\ Add(m)
    BY <1>1, <1>2, <1>3, AddTyped, ClientKept DEF Typed, SearchTypeOK
<1>4. CASE m.kind = "remove" /\ Remove(m)
    BY <1>1, <1>2, <1>4, ClientKept DEF Typed, SearchTypeOK, Remove
<1>5. CASE m.kind = "leave" /\ Leave(m)
    BY <1>1, <1>2, <1>5, ClientKept, UpMail DEF Typed, SearchTypeOK, Leave
<1>6. CASE m.kind \in {"create", "join"} /\ Enter(m)
    BY <1>1, <1>2, <1>6, EnterTyped, ClientKept DEF Typed, SearchTypeOK
<1>. QED
    BY <1>3, <1>4, <1>5, <1>6 DEF Serve, m

LEMMA PushTyped ==
    ASSUME Typed, NEW t \in Tickets, NEW kind \in {"allocating", "ready", "failed"}, Push(t, Note(kind, t))
    PROVE  down' \in Seq(Downward) /\ (sock # "up" => down' = <<>>)
           /\ (down' = down \/ down' = Append(down, Note(kind, t)))
<1>1. Note(kind, t) \in Downward
    BY DEF Note, Downward
<1>. QED
    BY <1>1, Appended DEF Push, Typed, SearchTypeOK

LEMMA ServerTyped ==
    ASSUME Typed, Pooled
    PROVE  /\ \A t \in Tickets : Match(t) \/ Outcome(t) => Typed'
           /\ MatchMember => Typed'
           /\ \A i \in Parties : PartyClosed(i) => Typed'
<1>1. ASSUME NEW t \in Tickets, Match(t) PROVE Typed'
  <2>1. down' \in Seq(Downward) /\ sock = "up"
      BY <1>1, PushTyped DEF Match, Typed, SearchTypeOK
  <2>. QED
      BY <1>1, <2>1, ClientKept DEF Match, Typed, SearchTypeOK
<1>2. ASSUME NEW t \in Tickets, Outcome(t) PROVE Typed'
  <2>1. down' \in Seq(Downward) /\ (sock # "up" => down' = <<>>)
      BY <1>2, PushTyped DEF Outcome
  <2>2. t \notin pool
      BY <1>2 DEF Outcome, Typed, SearchTypeOK
  <2>. QED
      BY <1>2, <2>1, <2>2, ClientKept DEF Outcome, Typed, SearchTypeOK
<1>3. ASSUME MatchMember PROVE Typed'
  <2>1. PICK t \in NextTicket, i \in Parties :
          /\ rooms[i] = "member"
          /\ owner' = [owner EXCEPT ![t] = sockUser]
          /\ room' = [room EXCEPT ![t] = i]
          /\ match' = [match EXCEPT ![t] = "allocating"]
          /\ down' = Append(down, Note("allocating", t)) \/ UNCHANGED down
          /\ UNCHANGED <<clientVars, pool, rooms, up, noteVars, events>>
      BY <1>3 DEF MatchMember
  <2>2. sock = "up"
      BY <2>1 DEF Pooled
  <2>3. Note("allocating", t) \in Downward
      BY FreshTicket DEF Note, Downward
  <2>4. down' \in Seq(Downward)
      BY <2>1, <2>3, DownGrows DEF Typed
  <2>. QED
      BY <2>1, <2>2, <2>4, FreshTicket, ClientKept DEF Typed, SearchTypeOK
<1>4. ASSUME NEW i \in Parties, PartyClosed(i) PROVE Typed'
  <2>1. sock = "up"
      BY <1>4 DEF PartyClosed, Pooled
  <2>2. [kind |-> "closed", id |-> i] \in Downward
      BY DEF Downward
  <2>3. down' \in Seq(Downward)
      BY <1>4, <2>2, Appended DEF PartyClosed, Typed
  <2>. QED
      BY <1>4, <2>1, <2>3, ClientKept DEF PartyClosed, Typed, SearchTypeOK
<1>. QED
    BY <1>1, <1>2, <1>3, <1>4

(* A message that is taken: the parts of the client it may change. *)
LEMMA TakenTyped ==
    ASSUME Typed, Posted, NEW m, m = Head(down), down # <<>>
    PROVE  /\ m \in Downward /\ 1 \in DOMAIN down /\ m = down[1] /\ AnswerOf(m)
           /\ sock = "up"
           /\ m.kind = "ticket" \/ m.kind \in {"create", "join"} \/ m.kind = "error" =>
                m.slot \in Slots /\ start[m.slot].pc = "reply"
<1>1. m \in Downward /\ 1 \in DOMAIN down /\ m = down[1] /\ sock = "up"
    BY Popped DEF Typed, SearchTypeOK
<1>2. AnswerOf(m)
    BY <1>1 DEF Posted
<1>. QED
    BY <1>1, <1>2, DownMail DEF Answers, AnswerOf

LEMMA EndTyped ==
    ASSUME Typed, NEW p \in Slots, End(p) PROVE start' \in [Slots -> Start]
    BY FreeCall DEF End, Typed, SearchTypeOK

LEMMA AnsweredTyped ==
    ASSUME Typed, NEW m \in Downward, m.kind = "ticket", Answered(m)
    PROVE  /\ start' \in [Slots -> Start] /\ up' \in Seq(Upward)
           /\ search' \in [on : BOOLEAN, ticket : Tickets \cup {0}, allocating : BOOLEAN,
                           elapsed : 0 .. Timeout]
           /\ excused' \subseteq Tickets
<1>1. m.slot \in Slots /\ m.ticket \in Tickets
    BY DownMail DEF Answers
<1>2. start' \in [Slots -> Start]
    BY <1>1, EndTyped DEF Answered
<1>3. 0 \in 0 .. Timeout
    BY SearchAssumption
<1>4. excused' \subseteq Tickets
    BY <1>1 DEF Answered, Typed, SearchTypeOK
<1>5. up' \in Seq(Upward)
  <2>1. up' = up \/ up' = up \o Send(Removal(m.ticket))
      BY DEF Answered
  <2>2. Send(Removal(m.ticket)) \in Seq(Upward)
      BY <1>1, Withdrawals
  <2>. QED
      BY <2>1, <2>2, UpGrows DEF Typed
<1>6. search' = search \/ search' = [search EXCEPT !.on = TRUE, !.ticket = m.ticket, !.elapsed = 0]
    BY DEF Answered
<1>7. search' \in [on : BOOLEAN, ticket : Tickets \cup {0}, allocating : BOOLEAN,
                   elapsed : 0 .. Timeout]
    BY <1>1, <1>3, <1>6 DEF Typed, SearchTypeOK
<1>. QED
    BY <1>2, <1>4, <1>5, <1>7

LEMMA NoteTyped ==
    ASSUME Typed, NEW m \in Downward, Notified(m) \/ ClosedByLeader(m)
    PROVE  /\ search' \in [on : BOOLEAN, ticket : Tickets \cup {0}, allocating : BOOLEAN,
                           elapsed : 0 .. Timeout]
           /\ party' \in [id : Parties \cup {0}, leads : BOOLEAN] /\ (party'.leads => party'.id # 0)
           /\ excused' \subseteq Tickets /\ owed' \in BOOLEAN
           /\ UNCHANGED <<start, up>>
<1>1. /\ \/ search' = search
         \/ search' = [search EXCEPT !.allocating = TRUE, !.elapsed = 0]
         \/ search' = NoSearch
         \/ search' = [NoSearch EXCEPT !.allocating = search.allocating]
      /\ party' = party \/ party' = NoParty
      /\ owed' = owed \/ owed' = FALSE \/ owed' = (owed /\ ~search.on)
      /\ UNCHANGED <<start, up>>
    BY DEF Notified, ClosedByLeader, Over
<1>2. 0 \in 0 .. Timeout
    BY SearchAssumption
<1>3. search \in [on : BOOLEAN, ticket : Tickets \cup {0}, allocating : BOOLEAN,
                  elapsed : 0 .. Timeout]
    BY DEF Typed, SearchTypeOK
<1>4. NoSearch \in [on : BOOLEAN, ticket : Tickets \cup {0}, allocating : BOOLEAN,
                    elapsed : 0 .. Timeout]
    BY <1>2 DEF NoSearch
<1>5. search' \in [on : BOOLEAN, ticket : Tickets \cup {0}, allocating : BOOLEAN,
                   elapsed : 0 .. Timeout]
  <2>1. CASE search' = [NoSearch EXCEPT !.allocating = search.allocating]
      BY <1>3, <1>4, <2>1
  <2>2. CASE search' = [search EXCEPT !.allocating = TRUE, !.elapsed = 0]
      BY <1>2, <1>3, <2>2
  <2>. QED
      BY <1>1, <1>3, <1>4, <2>1, <2>2
<1>6. NoParty \in [id : Parties \cup {0}, leads : BOOLEAN] /\ ~NoParty.leads
    BY DEF NoParty
<1>7. party' \in [id : Parties \cup {0}, leads : BOOLEAN] /\ (party'.leads => party'.id # 0)
    BY <1>1, <1>6 DEF Typed, SearchTypeOK
<1>8. owed' \in BOOLEAN
    BY <1>1 DEF Typed
<1>9. search.ticket \in Tickets \cup {0} /\ excused \subseteq Tickets
    BY DEF Typed, SearchTypeOK
<1>10. excused' \subseteq Tickets
    BY <1>9 DEF Notified, ClosedByLeader, Lets, Foreign
<1>. QED
    BY <1>1, <1>5, <1>7, <1>8, <1>10

LEMMA ReceiveTyped == ASSUME Typed, Posted, Receive PROVE Typed'
<1>. DEFINE m == Head(down)
<1>1. /\ m \in Downward /\ m.kind \in {"ticket", "create", "join", "error"} => m.slot \in Slots
      /\ sock = "up"
    BY TakenTyped DEF Receive
<1>2. m \in Downward /\ sock = "up"
    BY TakenTyped DEF Receive
<1>3. /\ down' = Tail(down) /\ down' \in Seq(Downward)
      /\ UNCHANGED <<account, sock, sockUser, serverVars, quiet, events>>
    BY Popped DEF Receive, Typed
<1>. DEFINE Took == /\ start' \in [Slots -> Start] /\ up' \in Seq(Upward)
                    /\ search' \in [on : BOOLEAN, ticket : Tickets \cup {0},
                                    allocating : BOOLEAN, elapsed : 0 .. Timeout]
                    /\ party' \in [id : Parties \cup {0}, leads : BOOLEAN]
                    /\ party'.leads => party'.id # 0
                    /\ excused' \subseteq Tickets /\ owed' \in BOOLEAN
<1>. HIDE DEF m
<1>4. CASE m.kind = "ticket" /\ Answered(m)
  <2>1. Took
      BY <1>2, <1>4, AnsweredTyped DEF Answered, Typed, SearchTypeOK
  <2>. QED
      BY <1>2, <1>3, <2>1 DEF Typed, SearchTypeOK, serverVars
<1>5. CASE m.kind \in {"create", "join"} /\ Entered(m)
  <2>1. m.id \in Parties /\ m.slot \in Slots /\ 0 \notin Parties
      BY <1>1, <1>2, <1>5, DownMail DEF Parties, Answers
  <2>2. party' \in [id : Parties \cup {0}, leads : BOOLEAN] /\ (party'.leads => party'.id # 0)
      BY <1>5, <2>1 DEF Entered
  <2>3. Took
      BY <1>5, <2>1, <2>2, EndTyped DEF Entered, Typed, SearchTypeOK
  <2>. QED
      BY <1>2, <1>3, <2>3 DEF Typed, SearchTypeOK, serverVars
<1>6. CASE m.kind = "error" /\ Failed(m)
  <2>1. m.slot \in Slots
      BY <1>2, <1>6, DownMail DEF Answers
  <2>2. Took
      BY <1>6, <2>1, EndTyped DEF Failed, Typed, SearchTypeOK
  <2>. QED
      BY <1>2, <1>3, <2>2 DEF Typed, SearchTypeOK, serverVars
<1>7. CASE Notified(m) \/ ClosedByLeader(m)
  <2>1. Took
      BY <1>2, <1>7, NoteTyped DEF Typed, SearchTypeOK
  <2>. QED
      BY <1>2, <1>3, <2>1 DEF Typed, SearchTypeOK, serverVars
<1>. QED
    BY <1>4, <1>5, <1>6, <1>7 DEF Receive, m

LEMMA TypedInit == Init => Typed
<1>. SUFFICES ASSUME Init PROVE Typed
    OBVIOUS
<1>1. Anyone \in Accounts /\ Free \in Start /\ 0 \in 0 .. Timeout /\ 0 \in 0 .. MaxEvents
    BY FreeCall, SearchAssumption
<1>2. <<>> \in Seq(Upward) /\ <<>> \in Seq(Downward)
    OBVIOUS
<1>. QED
    BY <1>1, <1>2 DEF Init, Typed, SearchTypeOK, NoSearch, NoParty

LEMMA TypedNext ==
    ASSUME SearchInv, [Next]_vars
    PROVE  Typed'
<1>1. ASSUME NEW p \in Slots, Resume(p) PROVE Typed'
    BY <1>1, ConnectedTyped, RecordedTyped DEF Resume, SearchInv
<1>2. CASE \E p \in Slots : \/ StartSolo(p)
                            \/ \E op \in {"create", "join"} : EnterParty(p, op)
                            \/ \E op \in {"party", "wait"} : StartParty(p, op)
    BY <1>2, CallsTyped DEF SearchInv
<1>3. CASE UNCHANGED vars
    BY <1>3 DEF SearchInv, Typed, SearchTypeOK, vars, clientVars, serverVars, noteVars
<1>. QED
    BY <1>1, <1>2, <1>3, CancelTyped, CleanupTyped, ClientTyped, LostTyped, ServeTyped,
       ReceiveTyped, ServerTyped
    DEF Next, SearchInv

-----------------------------------------------------------------------------
(* The suspended calls. *)

LEMMA LesserCall ==
    ASSUME Typed, Lined
    PROVE  /\ \A p \in Slots : Lesser(start[p], start[p]) /\ Lesser(Free, start[p])
           /\ \A p \in Slots : Lesser(Outrun(start)[p], start[p])
<1>1. start \in [Slots -> Start] /\ \A p \in Slots : start[p] \in Start /\ CallOf(start[p])
    BY DEF Typed, SearchTypeOK, Lined
<1>2. \A p \in Slots : start[p].current \in BOOLEAN
    BY <1>1 DEF Start
<1>. QED
    BY <1>1, <1>2, OutrunCalls DEF Lesser

LEMMA LesserExcepted ==
    ASSUME Typed, Lined, NEW ends
    PROVE  /\ \A p \in Slots : Lesser(Excepted(ends)[p], start[p])
           /\ \A p \in Slots : Lesser(Outrun(Excepted(ends))[p], start[p])
<1>1. /\ start \in [Slots -> Start] /\ Excepted(ends) \in [Slots -> Start]
      /\ \A p \in Slots : Excepted(ends)[p] = Free \/ Excepted(ends)[p] = start[p]
    BY ExceptedCalls DEF Typed, SearchTypeOK
<1>2. \A p \in Slots : Lesser(Excepted(ends)[p], start[p])
    BY <1>1, LesserCall DEF Lesser
<1>3. ASSUME NEW p \in Slots PROVE Lesser(Outrun(Excepted(ends))[p], start[p])
  <2>1. CASE Excepted(ends)[p] = Free
      BY <1>1, <2>1, OutrunCalls DEF Lesser
  <2>2. CASE Excepted(ends)[p] = start[p]
    <3>1. CallOf(start[p])
        BY DEF Lined
    <3>. DEFINE calls == Excepted(ends)
    <3>2. calls \in [Slots -> Start] /\ calls[p] = start[p]
        BY <1>1, <2>2
    <3>. HIDE DEF calls
    <3>3. /\ Outrun(calls)[p].op = start[p].op /\ Outrun(calls)[p].pc = start[p].pc
          /\ Outrun(calls)[p].current = FALSE /\ Outrun(calls)[p] \in Start
          /\ CallOf(Outrun(calls)[p])
        BY <3>1, <3>2, OutrunCalls
    <3>. QED
        BY <3>3 DEF Lesser, calls
  <2>. QED
      BY <1>1, <2>1, <2>2
<1>. QED
    BY <1>2, <1>3

LEMMA LinedStep ==
    ASSUME Lined, NEW p \in Slots,
           \A q \in Slots \ {p} : Lesser(start'[q], start[q]),
           CallOf(start'[p]),
           \A q \in Slots : start'[q].pc = "connect" => sock' # "up",
           start'[p].pc = "connect" => \A q \in Slots \ {p} : start[q].pc # "connect",
           start'[p].current => \A q \in Slots \ {p} : ~start'[q].current
    PROVE  Lined'
<1>1. \A q \in Slots \ {p} : /\ CallOf(start'[q])
                             /\ start'[q].pc = "connect" => start[q].pc = "connect"
                             /\ start'[q].current => start[q].current
    BY FreeCall DEF Lesser
<1>2. \A q \in Slots : CallOf(start'[q])
    BY <1>1
<1>3. \A q \in Slots : CallOf(start[q])'
    BY <1>2 DEF CallOf, Free
<1>. QED
    BY <1>1, <1>3 DEF Lined, At

LEMMA LinedKept ==
    ASSUME Lined, \A q \in Slots : Lesser(start'[q], start[q]), sock' = "up" => sock = "up"
    PROVE  Lined'
<1>1. \A q \in Slots : /\ CallOf(start'[q])
                       /\ start'[q].pc = "connect" => start[q].pc = "connect"
                       /\ start'[q].current => start[q].current
    BY FreeCall DEF Lesser
<1>2. \A q \in Slots : CallOf(start[q])'
    BY <1>1 DEF CallOf, Free
<1>. QED
    BY <1>1, <1>2 DEF Lined, At

(* What a call of the game does to the suspended calls: with the socket as   *)
(* it is, and when it first closes another account's socket.                *)
LEMMA EnsureSame ==
    ASSUME Typed, Lined, NEW p \in Slots, NEW op \in {"solo", "create", "join"},
           Ensure(p, op), ~Switching
    PROVE  /\ \A q \in Slots \ {p} :
                /\ Lesser(start'[q], start[q])
                /\ start'[q].op = start[q].op /\ start'[q].pc = start[q].pc
                /\ IF op = "solo" THEN ~start'[q].current ELSE start'[q] = start[q]
           /\ start'[p].op = op /\ CallOf(start'[p]) /\ start'[p].current = (op = "solo")
           /\ \/ /\ sock = "up" /\ start'[p].pc = IF op = "solo" THEN "ip" ELSE "reply"
                 /\ up' = up \o Sent(p, op)
              \/ /\ sock # "up" /\ start'[p].pc = "connect" /\ up' = up
                 /\ \A q \in Slots : ~At(q, "connect")
           /\ sock' = sock /\ UNCHANGED <<search, party, excused, serverVars, down>>
<1>. DEFINE r == [op |-> op, pc |-> "connect", current |-> op = "solo", user |-> account]
            others == IF op = "solo" THEN Outrun(start) ELSE start
<1>1. start \in [Slots -> Start] /\ account \in Accounts
    BY DEF Typed, SearchTypeOK
<1>2. /\ others \in [Slots -> Start]
      /\ \A q \in Slots : /\ Lesser(others[q], start[q])
                          /\ others[q].op = start[q].op /\ others[q].pc = start[q].pc
                          /\ op = "solo" => ~others[q].current
                          /\ op # "solo" => others[q] = start[q]
    BY <1>1, OutrunCalls, LesserCall
<1>3. /\ r \in Start /\ r.op = op /\ r.pc = "connect" /\ r.current = (op = "solo")
      /\ Proceeding(r) \in Start /\ Proceeding(r).op = op
      /\ Proceeding(r).current = (op = "solo")
      /\ Proceeding(r).pc = IF op = "solo" THEN "ip" ELSE "reply"
  <2>1. (op = "solo") \in BOOLEAN
      OBVIOUS
  <2>2. r.op = op /\ r.pc = "connect" /\ r.current = (op = "solo")
      OBVIOUS
  <2>3. r \in Start /\ Proceeding(r) \in Start
      BY <1>1, <2>1, CallTyped
  <2>4. /\ Proceeding(r).op = op /\ Proceeding(r).current = (op = "solo")
        /\ Proceeding(r).pc = IF op = "solo" THEN "ip" ELSE "reply"
      BY DEF Proceeding
  <2>. QED
      BY <2>2, <2>3, <2>4
<1>4. CallOf(r) /\ CallOf(Proceeding(r))
    BY <1>3 DEF CallOf, Calls, Searches
<1>. HIDE DEF r, others
<1>5. CASE /\ sock = "up" /\ sockUser = account
           /\ start' = [others EXCEPT ![p] = Proceeding(r)]
           /\ up' = up \o Sent(p, op)
           /\ UNCHANGED <<sock, search, party, excused, serverVars, down>>
  <2>1. start'[p] = Proceeding(r) /\ \A q \in Slots \ {p} : start'[q] = others[q]
      BY <1>2, <1>5
  <2>. QED
      BY <1>2, <1>3, <1>4, <1>5, <2>1 DEF Switching
<1>6. CASE /\ sock # "up" /\ \A q \in Slots : ~At(q, "connect")
           /\ start' = [others EXCEPT ![p] = r]
           /\ UNCHANGED <<sock, search, party, excused, serverVars, up, down>>
  <2>1. start'[p] = r /\ \A q \in Slots \ {p} : start'[q] = others[q]
      BY <1>2, <1>6
  <2>. QED
      BY <1>2, <1>3, <1>4, <1>6, <2>1 DEF Switching
<1>. QED
    BY <1>5, <1>6 DEF Ensure, Switching, r, others

LEMMA EnsureSwitch ==
    ASSUME Typed, Lined, NEW p \in Slots, NEW op \in {"solo", "create", "join"},
           Ensure(p, op), Switching
    PROVE  /\ \A q \in Slots \ {p} :
                Lesser(start'[q], start[q]) /\ ~start'[q].current /\ start'[q].pc # "reply"
           /\ start'[p].op = op /\ CallOf(start'[p]) /\ ~start'[p].current
           /\ start'[p].pc = "connect" /\ \A q \in Slots : ~At(q, "connect")
           /\ Gone /\ sock' = "none" /\ search' = NoSearch /\ party' = NoParty
<1>. DEFINE r == [op |-> op, pc |-> "connect", current |-> op = "solo", user |-> account]
            calls == [Excepted({"reply"}) EXCEPT ![p] = r]
<1>1. start \in [Slots -> Start] /\ account \in Accounts
    BY DEF Typed, SearchTypeOK
<1>2. r \in Start /\ r.op = op /\ r.pc = "connect" /\ CallOf(r)
  <2>1. (op = "solo") \in BOOLEAN
      OBVIOUS
  <2>2. r \in Start
      BY <1>1, <2>1, CallTyped
  <2>. QED
      BY <2>2 DEF CallOf
<1>. HIDE DEF r
<1>3. /\ calls \in [Slots -> Start] /\ calls[p] = r
      /\ \A q \in Slots \ {p} : calls[q] = Excepted({"reply"})[q] /\ calls[q].pc # "reply"
    BY <1>1, <1>2, ExceptedCalls, FreeCall
<1>4. /\ start' = Outrun(calls) /\ Gone /\ sock' = "none"
      /\ search' = NoSearch /\ party' = NoParty /\ sock = "up"
    BY DEF Ensure, Switching, Cancelled, r
<1>. HIDE DEF calls
<1>5. \A q \in Slots \ {p} : start'[q] = Outrun(Excepted({"reply"}))[q]
    BY <1>3, <1>4 DEF Outrun
<1>6. \A q \in Slots \ {p} : Lesser(start'[q], start[q])
    BY <1>5, LesserExcepted
<1>7. \A q \in Slots \ {p} : ~start'[q].current /\ start'[q].pc # "reply"
    BY <1>3, <1>4, OutrunCalls
<1>8. start'[p].op = op /\ start'[p].pc = "connect" /\ ~start'[p].current /\ CallOf(start'[p])
    BY <1>2, <1>3, <1>4, OutrunCalls
<1>9. \A q \in Slots : ~At(q, "connect")
    BY <1>4 DEF Lined
<1>. QED
    BY <1>4, <1>6, <1>7, <1>8, <1>9

LEMMA CallsLined ==
    ASSUME Typed, Lined, NEW p \in Slots
    PROVE  /\ StartSolo(p) => Lined'
           /\ \A op \in {"create", "join"} : EnterParty(p, op) => Lined'
           /\ \A op \in {"party", "wait"} : StartParty(p, op) => Lined'
<1>1. ASSUME NEW op \in {"solo", "create", "join"}, Ensure(p, op) PROVE Lined'
  <2>1. CASE Switching
      BY <1>1, <2>1, EnsureSwitch, LinedStep DEF At
  <2>2. CASE ~Switching
    <3>1. \A q \in Slots : start'[q].pc = "connect" => sock' # "up"
        BY <1>1, <2>2, EnsureSame DEF Lined, At
    <3>2. start'[p].pc = "connect" => \A q \in Slots \ {p} : start[q].pc # "connect"
        BY <1>1, <2>2, EnsureSame DEF At
    <3>3. /\ \A q \in Slots \ {p} : Lesser(start'[q], start[q])
          /\ CallOf(start'[p])
        BY <1>1, <2>2, EnsureSame
    <3>4. start'[p].current => \A q \in Slots \ {p} : ~start'[q].current
        BY <1>1, <2>2, EnsureSame
    <3>. QED
        BY <3>1, <3>2, <3>3, <3>4, LinedStep
  <2>. QED
      BY <2>1, <2>2
<1>2. ASSUME NEW op \in {"party", "wait"}, StartParty(p, op) PROVE Lined'
  <2>1. start' = [start EXCEPT ![p] = [Free EXCEPT !.op = op, !.pc = "ip"]] /\ sock' = sock
      BY <1>2 DEF StartParty
  <2>2. /\ start'[p].op = op /\ start'[p].pc = "ip" /\ ~start'[p].current
        /\ \A q \in Slots \ {p} : start'[q] = start[q]
      BY <2>1 DEF Free, Typed, SearchTypeOK
  <2>3. CallOf(start'[p])
      BY <2>2 DEF CallOf, Searches
  <2>. QED
      BY <2>1, <2>2, <2>3, LesserCall, LinedStep DEF Lined, At
<1>. QED
    BY <1>1, <1>2 DEF StartSolo, EnterParty, CanCall
LEMMA ResumeLined ==
    ASSUME Typed, Lined, NEW p \in Slots
    PROVE  Connected(p) \/ Recorded(p) => Lined'
<1>1. start \in [Slots -> Start] /\ CallOf(start[p]) /\ start[p] \in Start
    BY DEF Typed, SearchTypeOK, Lined
<1>2. ASSUME Connected(p) PROVE Lined'
  <2>. DEFINE r == start[p]
  <2>1. r.pc = "connect" /\ r.op \in {"solo", "create", "join"} /\ (r.current => r.op = "solo")
      BY <1>1, <1>2 DEF Connected, At, CallOf
  <2>2. \A q \in Slots \ {p} : start[q].pc # "connect"
      BY <2>1 DEF Lined, At
  <2>3. CASE sock' = "up" /\ start' = [start EXCEPT ![p] = Proceeding(r)]
    <3>1. /\ Proceeding(r).op = r.op /\ Proceeding(r).current = r.current
          /\ Proceeding(r).pc = IF r.op = "solo" THEN "ip" ELSE "reply"
        BY <1>1 DEF Proceeding, Start
    <3>2. start'[p] = Proceeding(r) /\ \A q \in Slots \ {p} : start'[q] = start[q]
        BY <1>1, <2>3
    <3>3. CallOf(start'[p])
        BY <2>1, <3>1, <3>2 DEF CallOf, Searches, Calls
    <3>4. start'[p].current => \A q \in Slots \ {p} : ~start'[q].current
        BY <3>1, <3>2 DEF Lined
    <3>. QED
        BY <2>1, <2>2, <3>1, <3>2, <3>3, <3>4, LesserCall, LinedStep
  <2>4. CASE sock' = "none" /\ End(p)
      BY <1>1, <2>4, LesserCall, LinedKept DEF End
  <2>. QED
      BY <1>2, <2>3, <2>4 DEF Connected
<1>3. ASSUME Recorded(p) PROVE Lined'
  <2>1. CASE End(p)
      BY <1>1, <1>3, <2>1, LesserCall, LinedKept DEF End, Recorded
  <2>2. CASE start[p].op # "wait" /\ start' = [start EXCEPT ![p].pc = "reply"]
    <3>1. start[p].op \in {"solo", "party"} /\ (start[p].current => start[p].op = "solo")
        BY <1>1, <1>3, <2>2 DEF Recorded, At, CallOf, Searches
    <3>2. /\ start'[p].op = start[p].op /\ start'[p].pc = "reply"
          /\ start'[p].current = start[p].current
          /\ \A q \in Slots \ {p} : start'[q] = start[q]
        BY <1>1, <2>2 DEF Start
    <3>3. CallOf(start'[p])
        BY <3>1, <3>2 DEF CallOf, Calls, Searches
    <3>4. start'[p].current => \A q \in Slots \ {p} : ~start'[q].current
        BY <3>2 DEF Lined
    <3>5. \A q \in Slots : start'[q].pc = "connect" => sock' # "up"
        BY <1>3, <3>2 DEF Recorded, Lined, At
    <3>. QED
        BY <3>2, <3>3, <3>4, <3>5, LesserCall, LinedStep
  <2>. QED
      BY <1>3, <2>1, <2>2 DEF Recorded
<1>. QED
    BY <1>2, <1>3

LEMMA ReceiveCalls ==
    ASSUME Typed, Posted, Receive
    PROVE  \/ start' = start
           \/ /\ Head(down).kind \in {"ticket", "create", "join", "error"}
              /\ Head(down).slot \in Slots /\ start[Head(down).slot].pc = "reply"
              /\ start' = [start EXCEPT ![Head(down).slot] = Free]
<1>. DEFINE m == Head(down)
<1>1. m.kind \in {"ticket", "create", "join", "error"} =>
        m.slot \in Slots /\ start[m.slot].pc = "reply"
    BY TakenTyped DEF Receive
<1>. QED
    BY <1>1 DEF Receive, Answered, Entered, Failed, Notified, ClosedByLeader, End

LEMMA LinedNext ==
    ASSUME SearchInv, [Next]_vars
    PROVE  Lined'
<1>1. Typed /\ Lined /\ Posted /\ start \in [Slots -> Start]
    BY DEF SearchInv, Typed, SearchTypeOK
<1>2. ASSUME NEW p \in Slots, Resume(p) PROVE Lined'
    BY <1>1, <1>2, ResumeLined DEF Resume
<1>3. CASE \E p \in Slots : \/ StartSolo(p)
                            \/ \E op \in {"create", "join"} : EnterParty(p, op)
                            \/ \E op \in {"party", "wait"} : StartParty(p, op)
    BY <1>1, <1>3, CallsLined
<1>4. CASE Cancel
    BY <1>1, <1>4, LesserCall, LinedKept DEF Cancel, Cancelled
<1>5. CASE Cleanup
    BY <1>1, <1>5, LesserExcepted, LinedKept DEF Cleanup, Cancelled
<1>6. CASE Tick
  <2>1. start' = start \/ start' = Outrun(start)
      BY <1>6 DEF Tick, Ticks, TimedOut, Abandoned, Cancelled
  <2>. QED
      BY <1>1, <1>6, <2>1, LesserCall, LinedKept DEF Tick
<1>7. ASSUME NEW closed \in BOOLEAN, Lost(closed) PROVE Lined'
  <2>1. /\ start' = Excepted({"reply"}) \/ start' = Outrun(Excepted({"reply"}))
        /\ sock' = "down"
      BY <1>7 DEF Lost
  <2>. QED
      BY <1>1, <2>1, LesserExcepted, LinedKept
<1>8. CASE Receive
  <2>1. \A q \in Slots : start'[q] = start[q] \/ start'[q] = Free
      BY <1>1, <1>8, ReceiveCalls
  <2>. QED
      BY <1>1, <1>8, <2>1, LesserCall, LinedKept DEF Receive
<1>9. CASE UNCHANGED <<start, sock>>
    BY <1>1, <1>9, LesserCall, LinedKept
<1>10. CASE \/ SwitchAccount \/ LeaveParty \/ Serve \/ MatchMember
            \/ \E t \in Tickets : Match(t) \/ Outcome(t)
            \/ \E i \in Parties : PartyClosed(i)
            \/ UNCHANGED vars
  <2>1. UNCHANGED <<start, sock>>
      BY <1>10 DEF SwitchAccount, LeaveParty, Serve, MatchMember, Match, Outcome, PartyClosed,
             vars, clientVars
  <2>. QED
      BY <1>9, <2>1
<1>. QED
    BY <1>2, <1>3, <1>4, <1>5, <1>6, <1>7, <1>8, <1>10 DEF Next

-----------------------------------------------------------------------------
(* The server. *)

LEMMA PooledNext ==
    ASSUME SearchInv, [Next]_vars
    PROVE  Pooled'
<1>1. Typed /\ Lined /\ Posted /\ Pooled
    BY DEF SearchInv
<1>2. ASSUME Gone PROVE Pooled'
    BY <1>1, <1>2, GoneTyped DEF Pooled
<1>3. ASSUME UNCHANGED serverVars, sock' = "up" \/ sock' = sock \/ sock # "up" PROVE Pooled'
    BY <1>1, <1>3 DEF Pooled, serverVars
<1>4. ASSUME NEW p \in Slots, NEW op \in {"solo", "create", "join"}, Ensure(p, op) PROVE Pooled'
    BY <1>1, <1>2, <1>3, <1>4, EnsureSame, EnsureSwitch
<1>5. CASE \E p \in Slots : \/ StartSolo(p)
                            \/ \E op \in {"create", "join"} : EnterParty(p, op)
    BY <1>4, <1>5 DEF StartSolo, EnterParty
<1>6. ASSUME NEW p \in Slots, Connected(p) PROVE Pooled'
  <2>1. sock # "up"
      BY <1>1, <1>6 DEF Connected, Lined
  <2>. QED
      BY <1>3, <1>6, <2>1 DEF Connected
<1>7. CASE Cleanup \/ \E closed \in BOOLEAN : Lost(closed)
    BY <1>2, <1>7 DEF Cleanup, Lost
<1>8. ASSUME NEW p \in Slots, Recorded(p) PROVE Pooled'
    BY <1>3, <1>8 DEF Recorded
<1>9. ASSUME NEW p \in Slots, NEW op \in {"party", "wait"}, StartParty(p, op) PROVE Pooled'
    BY <1>3, <1>9 DEF StartParty
<1>10. CASE Cancel \/ SwitchAccount \/ LeaveParty \/ Tick \/ Receive \/ UNCHANGED vars
    BY <1>3, <1>10 DEF Cancel, SwitchAccount, LeaveParty, Tick, Receive, vars, clientVars
<1>11. CASE Serve
  <2>1. sock = "up" /\ sock' = sock
      BY <1>1, <1>11 DEF Serve, clientVars, Typed, SearchTypeOK
  <2>2. UNCHANGED <<owner, match>>
        \/ \E t \in NextTicket : owner' = [owner EXCEPT ![t] = sockUser] /\ match' = match
    BY <1>11 DEF Serve, Add, Remove, Leave, Enter, Refused, serverVars
  <2>3. \A t \in Tickets : owner'[t] = "nobody" => match'[t] = "none"
      BY <1>1, <2>2, FreshTicket DEF Pooled, Typed, SearchTypeOK
  <2>. QED
      BY <2>1, <2>3 DEF Pooled
<1>12. ASSUME NEW t \in Tickets, Match(t) PROVE Pooled'
  <2>1. owner[t] # "nobody"
      BY <1>1, <1>12, SearchAssumption DEF Match, Typed, SearchTypeOK
  <2>. QED
      BY <1>1, <1>12, <2>1 DEF Match, Pooled, clientVars, Typed, SearchTypeOK
<1>13. ASSUME NEW t \in Tickets, Outcome(t) PROVE Pooled'
    BY <1>1, <1>13 DEF Outcome, Pooled, clientVars, Typed, SearchTypeOK
<1>14. CASE MatchMember
  <2>1. PICK t \in NextTicket : /\ owner' = [owner EXCEPT ![t] = sockUser]
                                /\ match' = [match EXCEPT ![t] = "allocating"]
                                /\ UNCHANGED <<clientVars, rooms>>
      BY <1>14 DEF MatchMember
  <2>. QED
      BY <1>1, <2>1, FreshTicket DEF Pooled, clientVars, Typed, SearchTypeOK
<1>15. ASSUME NEW i \in Parties, PartyClosed(i) PROVE Pooled'
    BY <1>1, <1>15 DEF PartyClosed, Pooled, clientVars, Typed, SearchTypeOK
<1>. QED
    BY <1>5, <1>6, <1>7, <1>8, <1>9, <1>10, <1>11, <1>12, <1>13, <1>14, <1>15 DEF Next, Resume

-----------------------------------------------------------------------------
(* The traffic. *)

(* Tickets given out keep their owner's existence and their room, matches    *)
(* formed stay formed.                                                      *)
Onward ==
    /\ \A t \in Tickets : owner[t] # "nobody" => owner'[t] # "nobody" /\ room'[t] = room[t]
    /\ \A t \in Tickets : match[t] # "none" => match'[t] # "none"

Kept(p) == start'[p].pc = start[p].pc /\ start'[p].op = start[p].op

(* The requests and answers under way after a step were under way before,    *)
(* k and l places further, and their calls still wait.                      *)
LEMMA PostedFrame ==
    ASSUME Typed, Posted, Onward, NEW k \in {0, 1}, NEW l \in {0, 1},
           up' \in Seq(Upward), down' \in Seq(Downward),
           \A i \in DOMAIN up' : Asks(up'[i]) =>
                i + k \in DOMAIN up /\ up[i + k] = up'[i] /\ Kept(up'[i].slot),
           \A i \in DOMAIN down' :
                \/ i + l \in DOMAIN down /\ down[i + l] = down'[i]
                   /\ (Answers(down'[i]) => Kept(down'[i].slot))
                \/ /\ ~Answers(down'[i])
                   /\ down'[i].kind \in {"allocating", "ready", "failed"} =>
                        match'[down'[i].ticket] # "none"
    PROVE  Posted'
<1>1. ASSUME NEW i \in DOMAIN up' PROVE AskOf(up[i])'
    BY <1>1 DEF Posted, AskOf, Asks, Kept
<1>2. ASSUME NEW i \in DOMAIN down' PROVE AnswerOf(down[i])'
  <2>1. down'[i] \in Downward
      BY <1>2
  <2>2. CASE i + l \in DOMAIN down /\ down[i + l] = down'[i]
             /\ (Answers(down'[i]) => Kept(down'[i].slot))
    <3>1. AnswerOf(down'[i])
        BY <2>2 DEF Posted
    <3>. QED
        BY <2>1, <2>2, <3>1, DownMail DEF AnswerOf, Answers, Kept, Onward
  <2>3. CASE /\ ~Answers(down'[i])
             /\ down'[i].kind \in {"allocating", "ready", "failed"} =>
                  match'[down'[i].ticket] # "none"
      BY <2>3 DEF AnswerOf, Answers
  <2>. QED
      BY <2>2, <2>3
<1>3. \A i, j \in DOMAIN up' : Asks(up'[i]) /\ Asks(up'[j]) /\ up'[i].slot = up'[j].slot => i = j
  <2>1. SUFFICES ASSUME NEW i \in DOMAIN up', NEW j \in DOMAIN up',
                        Asks(up'[i]), Asks(up'[j]), up'[i].slot = up'[j].slot
                 PROVE  i + k = j + k /\ i \in Int /\ j \in Int
      OBVIOUS
  <2>. QED
      BY <2>1 DEF Posted
<1>4. \A i, j \in DOMAIN down' :
         Answers(down'[i]) /\ Answers(down'[j]) /\ down'[i].slot = down'[j].slot => i = j
  <2>1. SUFFICES ASSUME NEW i \in DOMAIN down', NEW j \in DOMAIN down',
                        Answers(down'[i]), Answers(down'[j]), down'[i].slot = down'[j].slot
                 PROVE  i + l = j + l /\ i \in Int /\ j \in Int
      OBVIOUS
  <2>. QED
      BY <2>1 DEF Posted
<1>5. \A i \in DOMAIN up', j \in DOMAIN down' :
         Asks(up'[i]) /\ Answers(down'[j]) => up'[i].slot # down'[j].slot
    BY DEF Posted
<1>. QED
    BY <1>1, <1>2, <1>3, <1>4, <1>5 DEF Posted, Asks, Answers

(* A call begins to wait. *)
LEMMA PostedAsk ==
    ASSUME Typed, Posted, UNCHANGED <<serverVars, down>>, NEW m \in Upward,
           Asks(m), up' = Append(up, m), start[m.slot].pc # "reply",
           \A q \in Slots \ {m.slot} : Kept(q),
           start'[m.slot].pc = "reply",
           m.kind = "add" => start'[m.slot].op = IF m.party THEN "party" ELSE "solo",
           m.kind # "add" => start'[m.slot].op = m.kind
    PROVE  Posted'
<1>1. /\ DOMAIN up = 1 .. Len(up) /\ DOMAIN up' = 1 .. Len(up) + 1 /\ Len(up) \in Nat
      /\ \A i \in DOMAIN up : up'[i] = up[i] /\ up[i] \in Upward
      /\ up'[Len(up) + 1] = m
    BY Appended DEF Typed
<1>2. \A i \in DOMAIN up' : i \in DOMAIN up \/ i = Len(up) + 1
    BY <1>1
<1>3. \A i \in DOMAIN up : Asks(up[i]) => up[i].slot # m.slot /\ up[i].slot \in Slots
    BY <1>1, UpMail DEF Posted, AskOf
<1>4. \A i \in DOMAIN down : down[i] \in Downward
    BY DEF Typed
<1>5. \A i \in DOMAIN down : Answers(down[i]) => down[i].slot # m.slot /\ down[i].slot \in Slots
    BY <1>4, DownMail DEF Posted, AnswerOf
<1>6. ASSUME NEW i \in DOMAIN up' PROVE AskOf(up[i])'
  <2>1. CASE i \in DOMAIN up
    <3>1. AskOf(up[i])
        BY <2>1 DEF Posted
    <3>. QED
        BY <1>1, <1>3, <2>1, <3>1 DEF AskOf, Asks, Kept
  <2>2. CASE i = Len(up) + 1
      BY <1>1, <2>2 DEF AskOf, Asks
  <2>. QED
      BY <1>2, <2>1, <2>2
<1>7. ASSUME NEW i \in DOMAIN down' PROVE AnswerOf(down[i])'
  <2>1. AnswerOf(down[i]) /\ i \in DOMAIN down
      BY DEF Posted
  <2>. QED
      BY <1>5, <2>1 DEF AnswerOf, Answers, Kept, serverVars
<1>8. \A i, j \in DOMAIN up' : Asks(up'[i]) /\ Asks(up'[j]) /\ up'[i].slot = up'[j].slot => i = j
    BY <1>1, <1>2, <1>3 DEF Posted
<1>9. \A i \in DOMAIN up', j \in DOMAIN down :
         Asks(up'[i]) /\ Answers(down[j]) => up'[i].slot # down[j].slot
    BY <1>1, <1>2, <1>5 DEF Posted
<1>. QED
    BY <1>6, <1>7, <1>8, <1>9 DEF Posted, Asks, Answers

(* A request is answered. *)
LEMMA PostedAnswer ==
    ASSUME Typed, Posted, Onward, start' = start, up # <<>>, up' = Tail(up),
           NEW m, m = Head(up), Asks(m),
           NEW n \in Downward, down' = Append(down, n), Answers(n), n.slot = m.slot,
           n.kind \in {"create", "join"} => n.kind = m.kind,
           n.kind = "ticket" => /\ m.kind = "add" /\ owner'[n.ticket] # "nobody"
                                /\ m.party => room'[n.ticket] # 0
    PROVE  Posted'
<1>1. /\ DOMAIN down = 1 .. Len(down) /\ DOMAIN down' = 1 .. Len(down) + 1 /\ Len(down) \in Nat
      /\ \A i \in DOMAIN down : down'[i] = down[i] /\ down[i] \in Downward
      /\ down'[Len(down) + 1] = n
    BY Appended DEF Typed
<1>2. \A i \in DOMAIN down' : i \in DOMAIN down \/ i = Len(down) + 1
    BY <1>1
<1>3. /\ m = up[1] /\ 1 \in DOMAIN up /\ DOMAIN up' = 1 .. Len(up) - 1 /\ m \in Upward
      /\ \A i \in DOMAIN up' : i + 1 \in DOMAIN up /\ up'[i] = up[i + 1]
    BY Popped DEF Typed
<1>4. AskOf(m)
    BY <1>3 DEF Posted
<1>5. \A i \in DOMAIN up' : Asks(up'[i]) => up'[i].slot # m.slot
  <2>1. ASSUME NEW i \in DOMAIN up', Asks(up'[i]), up'[i].slot = m.slot PROVE i + 1 = 1
      BY <1>3, <2>1 DEF Posted
  <2>. QED
      BY <1>3, <2>1
<1>6. \A i \in DOMAIN down : Answers(down[i]) => down[i].slot # m.slot
    BY <1>3 DEF Posted
<1>7. ASSUME NEW i \in DOMAIN down' PROVE AnswerOf(down[i])'
  <2>1. CASE i \in DOMAIN down
    <3>1. AnswerOf(down[i]) /\ down[i] \in Downward
        BY <1>1, <2>1 DEF Posted
    <3>. QED
        BY <1>1, <2>1, <3>1, DownMail DEF AnswerOf, Answers, Onward
  <2>2. CASE i = Len(down) + 1
    <3>1. n.kind \in {"ticket", "create", "join", "error"}
        BY DEF Answers
    <3>. QED
        BY <1>1, <1>4, <2>2, <3>1 DEF AnswerOf, AskOf, Answers
  <2>. QED
      BY <1>2, <2>1, <2>2
<1>8. ASSUME NEW i \in DOMAIN up' PROVE AskOf(up[i])'
    BY <1>3, <1>8 DEF Posted, AskOf, Asks
<1>9. \A i, j \in DOMAIN up' : Asks(up'[i]) /\ Asks(up'[j]) /\ up'[i].slot = up'[j].slot => i = j
  <2>1. SUFFICES ASSUME NEW i \in DOMAIN up', NEW j \in DOMAIN up',
                        Asks(up'[i]), Asks(up'[j]), up'[i].slot = up'[j].slot
                 PROVE  i + 1 = j + 1
      BY <1>3
  <2>. QED
      BY <1>3, <2>1 DEF Posted
<1>10. \A i, j \in DOMAIN down' :
         Answers(down'[i]) /\ Answers(down'[j]) /\ down'[i].slot = down'[j].slot => i = j
    BY <1>1, <1>2, <1>6 DEF Posted
<1>11. \A i \in DOMAIN up', j \in DOMAIN down' :
         Asks(up'[i]) /\ Answers(down'[j]) => up'[i].slot # down'[j].slot
    BY <1>1, <1>2, <1>3, <1>5 DEF Posted
<1>. QED
    BY <1>7, <1>8, <1>9, <1>10, <1>11 DEF Posted, Asks, Answers

(* Steps that send nothing that asks for an answer. *)
LEMMA PostedQuiet ==
    ASSUME Typed, Posted, UNCHANGED <<serverVars, down>>,
           NEW s \in Seq(Upward), up' = up \o s, \A i \in DOMAIN s : ~Asks(s[i]),
           \A q \in Slots : start[q].pc = "reply" => Kept(q)
    PROVE  Posted'
<1>1. /\ DOMAIN up = 1 .. Len(up) /\ DOMAIN s = 1 .. Len(s)
      /\ DOMAIN up' = 1 .. Len(up) + Len(s) /\ Len(up) \in Nat /\ Len(s) \in Nat
      /\ \A i \in 1 .. Len(up) : up'[i] = up[i]
      /\ \A i \in 1 .. Len(s) : up'[Len(up) + i] = s[i]
    BY Joined DEF Typed
<1>2. up' \in Seq(Upward) /\ down' \in Seq(Downward)
    BY UpGrows DEF Typed
<1>3. ASSUME NEW i \in DOMAIN up', Asks(up'[i])
      PROVE  i + 0 \in DOMAIN up /\ up[i + 0] = up'[i] /\ Kept(up'[i].slot)
  <2>1. CASE i \in 1 .. Len(up)
    <3>1. up'[i] = up[i] /\ up[i] \in Upward /\ AskOf(up[i])
        BY <1>1, <2>1 DEF Typed, Posted
    <3>2. up[i].slot \in Slots /\ start[up[i].slot].pc = "reply"
        BY <1>3, <3>1, UpMail DEF AskOf
    <3>. QED
        BY <1>1, <2>1, <3>1, <3>2
  <2>2. CASE i \notin 1 .. Len(up)
    <3>1. i - Len(up) \in 1 .. Len(s) /\ Len(up) + (i - Len(up)) = i
        BY <1>1, <2>2
    <3>2. up'[i] = s[i - Len(up)]
        BY <1>1, <3>1
    <3>. QED
        BY <1>1, <1>3, <3>1, <3>2
  <2>. QED
      BY <2>1, <2>2
<1>4. ASSUME NEW i \in DOMAIN down'
      PROVE  /\ i + 0 \in DOMAIN down /\ down[i + 0] = down'[i]
             /\ Answers(down'[i]) => Kept(down'[i].slot)
  <2>1. i \in DOMAIN down /\ down'[i] = down[i] /\ down[i] \in Downward /\ AnswerOf(down[i]) /\ i \in Int
      BY DEF Typed, Posted
  <2>2. Answers(down[i]) => down[i].slot \in Slots /\ start[down[i].slot].pc = "reply"
      BY <2>1, DownMail DEF AnswerOf
  <2>. QED
      BY <2>1, <2>2
<1>5. Onward
    BY DEF Onward, serverVars
<1>. QED
    BY <1>2, <1>3, <1>4, <1>5, PostedFrame

LEMMA PostedStill ==
    ASSUME Typed, Posted, UNCHANGED <<serverVars, down, up>>,
           \A q \in Slots : start[q].pc = "reply" => Kept(q)
    PROVE  Posted'
<1>1. <<>> \in Seq(Upward) /\ up' = up \o <<>> /\ DOMAIN <<>> = {}
    BY DEF Typed
<1>. QED
    BY <1>1, PostedQuiet

LEMMA PostedGone == ASSUME Typed, Gone PROVE Posted'
<1>1. up' = <<>> /\ down' = <<>> /\ DOMAIN <<>> = {}
    BY GoneTyped
<1>. QED
    BY <1>1 DEF Posted

LEMMA OutrunKeeps ==
    ASSUME Typed, start' = Outrun(start)
    PROVE  \A q \in Slots : Kept(q)
    BY OutrunCalls DEF Kept, Typed, SearchTypeOK

LEMMA CallsPosted ==
    ASSUME Typed, Lined, Posted, NEW p \in Slots
    PROVE  /\ StartSolo(p) => Posted'
           /\ \A op \in {"create", "join"} : EnterParty(p, op) => Posted'
           /\ \A op \in {"party", "wait"} : StartParty(p, op) => Posted'
<1>1. ASSUME NEW op \in {"solo", "create", "join"}, Ensure(p, op), At(p, "idle") PROVE Posted'
  <2>1. CASE Switching
      BY <1>1, <2>1, EnsureSwitch, PostedGone
  <2>2. CASE ~Switching
    <3>1. \A q \in Slots \ {p} : Kept(q)
        BY <1>1, <2>2, EnsureSame DEF Kept
    <3>2. UNCHANGED <<serverVars, down>>
        BY <1>1, <2>2, EnsureSame
    <3>3. start[p].pc = "idle"
        BY <1>1 DEF At
    <3>4. CASE up' = up
        BY <3>1, <3>2, <3>3, <3>4, PostedStill
    <3>5. CASE sock = "up" /\ up' = up \o Sent(p, op) /\ op = "solo"
      <4>1. up' = up
          BY <3>5, SentTyped, UpSame
      <4>. QED
          BY <3>4, <4>1
    <3>6. CASE sock = "up" /\ start'[p].pc = "reply" /\ up' = up \o Sent(p, op) /\ op # "solo"
      <4>. DEFINE m == [kind |-> op, slot |-> p]
      <4>1. m \in Upward /\ up' = up \o <<m>>
          BY <3>6, SentTyped
      <4>2. up' = Append(up, m)
          BY <4>1, Appended DEF Typed
      <4>3. start'[p].op = op
          BY <1>1, <2>2, EnsureSame
      <4>4. m.kind = op /\ m.slot = p /\ Asks(m) /\ op \in {"create", "join"}
          BY <3>6 DEF Asks
      <4>. HIDE DEF m
      <4>. QED
          BY <3>1, <3>2, <3>3, <3>6, <4>1, <4>2, <4>3, <4>4, PostedAsk
    <3>. QED
        BY <1>1, <2>2, <3>4, <3>5, <3>6, EnsureSame
  <2>. QED
      BY <2>1, <2>2
<1>2. ASSUME NEW op \in {"party", "wait"}, StartParty(p, op) PROVE Posted'
  <2>1. start[p].pc = "idle" /\ \A q \in Slots \ {p} : start'[q] = start[q]
      BY <1>2 DEF StartParty, CanCall, At, Typed, SearchTypeOK
  <2>. QED
      BY <1>2, <2>1, PostedStill DEF StartParty, Kept
<1>. QED
    BY <1>1, <1>2 DEF StartSolo, EnterParty, CanCall

LEMMA ResumePosted ==
    ASSUME Typed, Lined, Posted, NEW p \in Slots
    PROVE  Connected(p) \/ Recorded(p) => Posted'
<1>1. start \in [Slots -> Start] /\ CallOf(start[p]) /\ start[p] \in Start
    BY DEF Typed, SearchTypeOK, Lined
<1>2. ASSUME Connected(p) PROVE Posted'
  <2>1. start[p].pc = "connect" /\ start[p].op \in {"solo", "create", "join"}
      BY <1>1, <1>2 DEF Connected, At, CallOf
  <2>2. UNCHANGED <<serverVars, down>> /\ \A q \in Slots \ {p} : Kept(q)
      BY <1>1, <1>2 DEF Connected, End, Kept
  <2>3. CASE up' = up
      BY <2>1, <2>2, <2>3, PostedStill
  <2>4. CASE start' = [start EXCEPT ![p] = Proceeding(@)] /\ up' = up \o Sent(p, start[p].op)
    <3>1. CASE start[p].op = "solo"
      <4>1. up' = up
          BY <2>4, <3>1, SentTyped, UpSame
      <4>. QED
          BY <2>3, <4>1
    <3>2. CASE start[p].op # "solo"
      <4>. DEFINE m == [kind |-> start[p].op, slot |-> p]
      <4>1. m \in Upward /\ up' = up \o <<m>>
          BY <2>1, <2>4, <3>2, SentTyped
      <4>2. up' = Append(up, m)
          BY <4>1, Appended DEF Typed
      <4>3. start'[p].op = start[p].op /\ start'[p].pc = "reply"
          BY <1>1, <2>4, <3>2 DEF Proceeding, Start
      <4>4. m.kind = start[p].op /\ m.slot = p /\ Asks(m) /\ m.kind # "add"
          BY <2>1, <3>2 DEF Asks
      <4>. HIDE DEF m
      <4>. QED
          BY <2>1, <2>2, <4>1, <4>2, <4>3, <4>4, PostedAsk
    <3>. QED
        BY <3>1, <3>2
  <2>. QED
      BY <1>2, <2>3, <2>4 DEF Connected
<1>3. ASSUME Recorded(p) PROVE Posted'
  <2>1. start[p].pc = "ip" /\ start[p].op \in Searches /\ UNCHANGED <<serverVars, down>>
      BY <1>1, <1>3 DEF Recorded, At, CallOf
  <2>2. \A q \in Slots \ {p} : Kept(q)
      BY <1>1, <1>3 DEF Recorded, End, Kept
  <2>3. CASE up' = up
      BY <2>1, <2>2, <2>3, PostedStill
  <2>. DEFINE m == [kind |-> "add", slot |-> p, id |-> IF start[p].op = "party" THEN party.id ELSE 0,
                    party |-> start[p].op = "party"]
  <2>4. CASE start[p].op # "wait" /\ up' = Append(up, m) /\ start' = [start EXCEPT ![p].pc = "reply"]
    <3>1. m \in Upward
        BY DEF Upward, Typed, SearchTypeOK
    <3>2. start'[p].op = start[p].op /\ start'[p].pc = "reply"
        BY <1>1, <2>4 DEF Start
    <3>3. /\ m.kind = "add" /\ m.slot = p /\ Asks(m)
          /\ start[p].op = IF m.party THEN "party" ELSE "solo"
        BY <2>1, <2>4 DEF Asks, Searches
    <3>4. up' = Append(up, m)
        BY <2>4
    <3>. HIDE DEF m
    <3>. QED
        BY <2>1, <2>2, <3>1, <3>2, <3>3, <3>4, PostedAsk
  <2>. QED
      BY <1>3, <2>3, <2>4 DEF Recorded
<1>. QED
    BY <1>2, <1>3

LEMMA ClientPosted ==
    ASSUME Typed, Lined, Posted
    PROVE  Cancel \/ Cleanup \/ SwitchAccount \/ LeaveParty \/ Tick
             \/ (\E closed \in BOOLEAN : Lost(closed)) => Posted'
<1>1. CASE Cancel
    BY <1>1, Withdrawals, OutrunKeeps, PostedQuiet DEF Cancel, Cancelled
<1>2. CASE Cleanup \/ \E closed \in BOOLEAN : Lost(closed)
    BY <1>2, PostedGone DEF Cleanup, Lost
<1>3. CASE SwitchAccount
    BY <1>3, PostedStill DEF SwitchAccount, Kept
<1>4. CASE LeaveParty
    BY <1>4, Withdrawals, PostedQuiet DEF LeaveParty, Kept
<1>5. CASE Tick
  <2>1. UNCHANGED <<serverVars, down>>
      BY <1>5 DEF Tick
  <2>2. /\ start' = start \/ start' = Outrun(start)
        /\ up' = up \/ up' = up \o Leaving \/ up' = up \o Cancelling
      BY <1>5 DEF Tick, Ticks, TimedOut, Abandoned, Cancelled
  <2>3. \A q \in Slots : Kept(q)
      BY <2>2, OutrunKeeps DEF Kept
  <2>. QED
      BY <2>1, <2>2, <2>3, Withdrawals, PostedQuiet, PostedStill
<1>. QED
    BY <1>1, <1>2, <1>3, <1>4, <1>5

LEMMA ServePosted ==
    ASSUME Typed, Posted, Pooled, Serve
    PROVE  Posted' /\ Onward
<1>. DEFINE m == Head(up)
<1>1. /\ up # <<>> /\ m \in Upward /\ up' = Tail(up) /\ up' \in Seq(Upward) /\ m = up[1]
      /\ DOMAIN up' = 1 .. Len(up) - 1 /\ Len(up) \in Nat
      /\ \A i \in DOMAIN up' : i + 1 \in DOMAIN up /\ up'[i] = up[i + 1]
    BY Popped DEF Serve, Typed
<1>2. start' = start
    BY DEF Serve, clientVars
<1>3. \A i \in DOMAIN down : i + 0 \in DOMAIN down /\ down[i + 0] = down[i]
    BY DEF Typed
<1>4. ASSUME UNCHANGED down, Onward PROVE Posted'
    BY <1>1, <1>2, <1>3, <1>4, PostedFrame DEF Kept, Typed
<1>5. ASSUME UNCHANGED <<owner, room, match>> PROVE Onward
    BY <1>5 DEF Onward
<1>. HIDE DEF m
<1>6. CASE Remove(m) \/ Leave(m)
    BY <1>4, <1>5, <1>6 DEF Remove, Leave
<1>7. ASSUME Asks(m), Refused(m) PROVE Posted' /\ Onward
  <2>. DEFINE n == [kind |-> "error", slot |-> m.slot]
  <2>1. n \in Downward /\ Answers(n) /\ n.slot = m.slot /\ n.kind = "error"
      BY <1>1, <1>7, UpMail DEF Downward, Answers
  <2>2. down' = Append(down, n) /\ Onward
      BY <1>5, <1>7 DEF Refused, serverVars
  <2>. HIDE DEF n
  <2>. QED
      BY <1>1, <1>2, <1>7, <2>1, <2>2, PostedAnswer DEF m
<1>8. CASE m.kind = "add" /\ Add(m)
  <2>1. Asks(m)
      BY <1>8 DEF Asks
  <2>2. m.slot \in Slots /\ m.id \in Parties \cup {0}
      BY <1>1, <1>8, <2>1, UpMail
  <2>3. ASSUME NEW t \in NextTicket,
               m.party => m.id # 0,
               owner' = [owner EXCEPT ![t] = sockUser],
               room' = [room EXCEPT ![t] = m.id],
               down' = Append(down, [kind |-> "ticket", slot |-> m.slot, ticket |-> t]),
               match' = match
        PROVE  Posted' /\ Onward
    <3>. DEFINE n == [kind |-> "ticket", slot |-> m.slot, ticket |-> t]
    <3>1. t \in Tickets /\ owner[t] = "nobody" /\ sockUser # "nobody"
        BY FreshTicket
    <3>2. n \in Downward /\ Answers(n) /\ n.slot = m.slot /\ n.kind = "ticket" /\ n.ticket = t
        BY <2>2, <3>1 DEF Downward, Answers
    <3>3. Onward
        BY <2>3, <3>1 DEF Onward, Typed, SearchTypeOK
    <3>4. owner'[t] = sockUser /\ room'[t] = m.id
        BY <2>3, <3>1 DEF Typed, SearchTypeOK
    <3>5. down' = Append(down, n)
        BY <2>3
    <3>. HIDE DEF n
    <3>. QED
        BY <1>1, <1>2, <1>8, <2>1, <2>3, <3>1, <3>2, <3>3, <3>4, <3>5, PostedAnswer DEF m
  <2>. QED
      BY <1>7, <1>8, <2>1, <2>3 DEF Add
<1>9. CASE m.kind \in {"create", "join"} /\ Enter(m)
  <2>1. Asks(m)
      BY <1>9 DEF Asks
  <2>2. m.slot \in Slots
      BY <1>1, <2>1, UpMail
  <2>3. ASSUME NEW i \in NextRoom,
               down' = Append(down, [kind |-> m.kind, slot |-> m.slot, id |-> i]),
               UNCHANGED <<owner, room, match>>
        PROVE  Posted' /\ Onward
    <3>. DEFINE n == [kind |-> m.kind, slot |-> m.slot, id |-> i]
    <3>1. i \in Parties
        BY DEF NextRoom
    <3>2. n \in Downward /\ Answers(n) /\ n.slot = m.slot /\ n.kind = m.kind /\ n.kind # "ticket"
        BY <1>9, <2>2, <3>1 DEF Downward, Answers
    <3>3. down' = Append(down, n)
        BY <2>3
    <3>. HIDE DEF n
    <3>. QED
        BY <1>1, <1>2, <1>5, <2>1, <2>3, <3>2, <3>3, PostedAnswer DEF m
  <2>. QED
      BY <1>7, <1>9, <2>1, <2>3 DEF Enter
<1>. QED
    BY <1>6, <1>8, <1>9 DEF Serve, m

(* The server sends a notification. *)
LEMMA PostedNote ==
    ASSUME Typed, Posted, Onward, UNCHANGED <<start, up>>,
           NEW n \in Downward, ~Answers(n), down' = down \/ down' = Append(down, n),
           n.kind \in {"allocating", "ready", "failed"} => match'[n.ticket] # "none"
    PROVE  Posted'
<1>1. /\ DOMAIN down = 1 .. Len(down) /\ DOMAIN Append(down, n) = 1 .. Len(down) + 1
      /\ Len(down) \in Nat /\ \A i \in DOMAIN down : Append(down, n)[i] = down[i]
      /\ Append(down, n)[Len(down) + 1] = n
    BY Appended DEF Typed
<1>2. down' \in Seq(Downward) /\ up' \in Seq(Upward)
    BY DownGrows DEF Typed
<1>3. ASSUME NEW i \in DOMAIN down'
      PROVE  \/ i + 0 \in DOMAIN down /\ down[i + 0] = down'[i] /\ (Answers(down'[i]) => Kept(down'[i].slot))
             \/ down'[i] = n
    BY <1>1 DEF Kept
<1>4. ASSUME NEW i \in DOMAIN up', Asks(up'[i])
      PROVE  i + 0 \in DOMAIN up /\ up[i + 0] = up'[i] /\ Kept(up'[i].slot)
    BY <1>4 DEF Kept, Typed
<1>. QED
    BY <1>2, <1>3, <1>4, PostedFrame

LEMMA ServerPosted ==
    ASSUME Typed, Posted, Pooled
    PROVE  /\ \A t \in Tickets : Match(t) \/ Outcome(t) => Posted' /\ Onward
           /\ MatchMember => Posted' /\ Onward
           /\ \A i \in Parties : PartyClosed(i) => Posted' /\ Onward
<1>1. \A t \in Tickets, kind \in {"allocating", "ready", "failed"} :
         /\ Note(kind, t) \in Downward /\ ~Answers(Note(kind, t))
         /\ Note(kind, t).ticket = t
    BY DEF Note, Downward, Answers
<1>2. ASSUME NEW t \in Tickets, Match(t) PROVE Posted' /\ Onward
  <2>1. /\ match' = [match EXCEPT ![t] = "allocating"] /\ UNCHANGED <<owner, room, start, up>>
        /\ down' = down \/ down' = Append(down, Note("allocating", t))
      BY <1>2 DEF Match, Push, clientVars
  <2>2. match'[t] = "allocating" /\ Onward
      BY <2>1 DEF Onward, Typed, SearchTypeOK
  <2>. QED
      BY <1>1, <2>1, <2>2, PostedNote
<1>3. ASSUME NEW t \in Tickets, Outcome(t) PROVE Posted' /\ Onward
  <2>1. PICK kind \in {"ready", "failed"} : Push(t, Note(kind, t))
      BY <1>3 DEF Outcome
  <2>2. /\ match' = [match EXCEPT ![t] = "over"] /\ UNCHANGED <<owner, room, start, up>>
        /\ down' = down \/ down' = Append(down, Note(kind, t))
      BY <1>3, <2>1 DEF Outcome, Push, clientVars
  <2>3. match'[t] = "over" /\ Onward
      BY <2>2 DEF Onward, Typed, SearchTypeOK
  <2>. QED
      BY <1>1, <2>2, <2>3, PostedNote
<1>4. ASSUME MatchMember PROVE Posted' /\ Onward
  <2>1. PICK t \in NextTicket, i \in Parties :
          /\ owner' = [owner EXCEPT ![t] = sockUser]
          /\ room' = [room EXCEPT ![t] = i]
          /\ match' = [match EXCEPT ![t] = "allocating"]
          /\ down' = Append(down, Note("allocating", t)) \/ UNCHANGED down
          /\ UNCHANGED <<start, up>>
      BY <1>4 DEF MatchMember, clientVars
  <2>2. t \in Tickets /\ owner[t] = "nobody"
      BY FreshTicket
  <2>3. match'[t] = "allocating" /\ Onward
      BY <2>1, <2>2 DEF Onward, Typed, SearchTypeOK
  <2>. QED
      BY <1>1, <2>1, <2>2, <2>3, PostedNote
<1>5. ASSUME NEW i \in Parties, PartyClosed(i) PROVE Posted' /\ Onward
  <2>. DEFINE n == [kind |-> "closed", id |-> i]
  <2>1. n \in Downward /\ ~Answers(n) /\ n.kind = "closed"
      BY DEF Downward, Answers
  <2>2. down' = Append(down, n) /\ UNCHANGED <<start, up, owner, room, match>>
      BY <1>5 DEF PartyClosed, clientVars
  <2>3. Onward
      BY <2>2 DEF Onward
  <2>. HIDE DEF n
  <2>. QED
      BY <2>1, <2>2, <2>3, PostedNote
<1>. QED
    BY <1>2, <1>3, <1>4, <1>5

LEMMA ReceivePosted ==
    ASSUME Typed, Posted, Receive
    PROVE  Posted'
<1>. DEFINE m == Head(down)
<1>1. /\ down # <<>> /\ m \in Downward /\ down' = Tail(down) /\ m = down[1] /\ 1 \in DOMAIN down
      /\ DOMAIN down' = 1 .. Len(down) - 1 /\ Len(down) \in Nat /\ down' \in Seq(Downward)
      /\ \A i \in DOMAIN down' : i + 1 \in DOMAIN down /\ down'[i] = down[i + 1]
    BY Popped DEF Receive, Typed
<1>2. up' = up \/ (m.kind = "ticket" /\ up' = up \o Send(Removal(m.ticket)))
    BY DEF Receive, Answered, Entered, Failed, Notified, ClosedByLeader
<1>3. Onward
    BY DEF Onward, Receive, serverVars
<1>4. \/ start' = start
      \/ Answers(m) /\ m.slot \in Slots /\ start' = [start EXCEPT ![m.slot] = Free]
    BY ReceiveCalls DEF Answers
<1>. HIDE DEF m
<1>5. \A i \in DOMAIN down' : Answers(down'[i]) => Kept(down'[i].slot)
  <2>1. SUFFICES ASSUME NEW i \in DOMAIN down', Answers(down'[i]), start' # start
                 PROVE  Kept(down'[i].slot)
      BY DEF Kept
  <2>2. down'[i].slot # m.slot
    <3>1. ASSUME down'[i].slot = m.slot PROVE i + 1 = 1
        BY <1>1, <1>4, <2>1, <3>1 DEF Posted
    <3>. QED
        BY <1>1, <3>1
  <2>3. down'[i].slot \in Slots
      BY <1>1, <2>1, DownMail
  <2>. QED
      BY <1>4, <2>1, <2>2, <2>3 DEF Kept, Typed, SearchTypeOK
<1>6. \A i \in DOMAIN up : Asks(up[i]) => Kept(up[i].slot)
  <2>1. SUFFICES ASSUME NEW i \in DOMAIN up, Asks(up[i]), start' # start
                 PROVE  Kept(up[i].slot)
      BY DEF Kept
  <2>2. up[i].slot # m.slot
      BY <1>1, <1>4, <2>1 DEF Posted
  <2>3. up[i].slot \in Slots
      BY <2>1, UpMail DEF Typed
  <2>. QED
      BY <1>4, <2>1, <2>2, <2>3 DEF Kept, Typed, SearchTypeOK
<1>7. /\ up' \in Seq(Upward)
      /\ \A i \in DOMAIN up' : Asks(up'[i]) =>
           i + 0 \in DOMAIN up /\ up[i + 0] = up'[i] /\ Kept(up'[i].slot)
  <2>1. CASE up' = up
      BY <1>6, <2>1 DEF Typed
  <2>2. CASE m.kind = "ticket" /\ up' = up \o Send(Removal(m.ticket))
    <3>. DEFINE s == Send(Removal(m.ticket))
    <3>1. s \in Seq(Upward) /\ \A i \in DOMAIN s : ~Asks(s[i])
        BY <1>1, <2>2, DownMail, Withdrawals
    <3>2. up' = up \o s
        BY <2>2
    <3>. HIDE DEF s
    <3>3. /\ DOMAIN up = 1 .. Len(up) /\ DOMAIN s = 1 .. Len(s)
          /\ DOMAIN up' = 1 .. Len(up) + Len(s) /\ Len(up) \in Nat /\ Len(s) \in Nat
          /\ \A i \in 1 .. Len(up) : up'[i] = up[i]
          /\ \A i \in 1 .. Len(s) : up'[Len(up) + i] = s[i]
        BY <3>1, <3>2, Joined DEF Typed
    <3>4. ASSUME NEW i \in DOMAIN up', Asks(up'[i]) PROVE i \in DOMAIN up
      <4>1. SUFFICES ASSUME i \notin 1 .. Len(up) PROVE FALSE
          BY <3>3
      <4>2. i - Len(up) \in 1 .. Len(s) /\ Len(up) + (i - Len(up)) = i
          BY <3>3, <4>1
      <4>3. up'[i] = s[i - Len(up)]
          BY <3>3, <4>2
      <4>. QED
          BY <3>1, <3>3, <3>4, <4>2, <4>3
    <3>5. up' \in Seq(Upward)
        BY <3>1, <3>2, UpGrows
    <3>. QED
        BY <1>6, <3>3, <3>4, <3>5
  <2>. QED
      BY <1>2, <2>1, <2>2
<1>. QED
    BY <1>1, <1>3, <1>5, <1>7, PostedFrame

LEMMA PostedNext ==
    ASSUME SearchInv, [Next]_vars
    PROVE  Posted'
<1>1. Typed /\ Lined /\ Posted /\ Pooled
    BY DEF SearchInv
<1>2. CASE UNCHANGED vars
    BY <1>1, <1>2, PostedStill DEF vars, clientVars, Kept
<1>. QED
    BY <1>1, <1>2, CallsPosted, ResumePosted, ClientPosted, ServePosted, ServerPosted, ReceivePosted
    DEF Next, Resume

-----------------------------------------------------------------------------
(* The ticket of the search. *)

LEMMA NamedKept ==
    ASSUME Typed, Named, Onward,
           search' = search \/ (search'.ticket = search.ticket /\ search'.on = search.on
                                /\ search'.allocating = search.allocating),
           excused \subseteq excused',
           \A t \in pool' : t \in pool \/ owner[t] = "nobody",
           search.ticket # 0 => \A p \in Slots : start'[p].current => start[p].current
    PROVE  Named'
<1>1. search.ticket \in Tickets \cup {0}
    BY DEF Typed, SearchTypeOK
<1>2. /\ search'.ticket = search.ticket /\ search'.on = search.on
      /\ search'.allocating = search.allocating
    OBVIOUS
<1>3. CASE search.ticket = 0
    BY <1>2, <1>3 DEF Named
<1>4. CASE search.ticket \in Tickets
    BY <1>2, <1>4 DEF Named, Onward
<1>. QED
    BY <1>1, <1>3, <1>4

LEMMA NamedNone == ASSUME search'.ticket = 0 PROVE Named'
    BY DEF Named

Withdraws(m, t) ==
    \/ m.kind = "remove" /\ m.ticket = t /\ m.id = room[t]
    \/ m.kind = "leave" /\ m.id = room[t]

LEMMA AccountedStep ==
    ASSUME NEW t \in pool \ excused, TicketsAccounted, room'[t] = room[t],
           \A i \in DOMAIN up : Withdraws(up[i], t) => \E j \in DOMAIN up' : up'[j] = up[i],
           \A i \in DOMAIN down : down[i].kind = "ticket" /\ down[i].ticket = t =>
                (\E j \in DOMAIN down' : down'[j] = down[i]) \/ Held(t)' \/ Withdrawn(t)',
           search.on /\ search.ticket = t => Held(t)' \/ Withdrawn(t)'
    PROVE  Held(t)' \/ Withdrawn(t)'
<1>1. CASE search.on /\ search.ticket = t
    BY <1>1
<1>2. CASE \E i \in DOMAIN down : down[i].kind = "ticket" /\ down[i].ticket = t
    BY <1>2 DEF Held
<1>3. CASE \E i \in DOMAIN up : Withdraws(up[i], t)
    BY <1>3 DEF Withdrawn, Withdraws
<1>. QED
    BY <1>1, <1>2, <1>3 DEF TicketsAccounted, Held, Withdrawn, Withdraws

(* Requests are added to those under way, the answers stay. *)
LEMMA UpKept ==
    ASSUME Typed, NEW s \in Seq(Upward), up' = up \o s
    PROVE  /\ \A i \in DOMAIN up : \E j \in DOMAIN up' : up'[j] = up[i]
           /\ \A i \in DOMAIN s : \E j \in DOMAIN up' : up'[j] = s[i]
<1>1. /\ DOMAIN up = 1 .. Len(up) /\ DOMAIN s = 1 .. Len(s)
      /\ DOMAIN up' = 1 .. Len(up) + Len(s) /\ Len(up) \in Nat /\ Len(s) \in Nat
      /\ \A i \in 1 .. Len(up) : up'[i] = up[i]
      /\ \A i \in 1 .. Len(s) : up'[Len(up) + i] = s[i]
    BY Joined DEF Typed
<1>2. ASSUME NEW i \in DOMAIN s PROVE \E j \in DOMAIN up' : up'[j] = s[i]
  <2>1. Len(up) + i \in DOMAIN up' /\ up'[Len(up) + i] = s[i]
      BY <1>1
  <2>. QED
      BY <2>1
<1>. QED
    BY <1>1, <1>2

LEMMA DownKept ==
    ASSUME Typed, NEW n \in Downward, down' = down \/ down' = Append(down, n)
    PROVE  \A i \in DOMAIN down : \E j \in DOMAIN down' : down'[j] = down[i]
<1>1. /\ DOMAIN down = 1 .. Len(down) /\ DOMAIN Append(down, n) = 1 .. Len(down) + 1
      /\ Len(down) \in Nat /\ \A i \in DOMAIN down : Append(down, n)[i] = down[i]
    BY Appended DEF Typed
<1>. QED
    BY <1>1

(* A step that keeps the search and the messages that account for tickets. *)
LEMMA AccountedKept ==
    ASSUME Typed, Followed, Onward, pool' \subseteq pool, excused \subseteq excused',
           search'.on = search.on, search'.ticket = search.ticket,
           \A i \in DOMAIN up : \E j \in DOMAIN up' : up'[j] = up[i],
           \A i \in DOMAIN down : \E j \in DOMAIN down' : down'[j] = down[i],
           \A t \in pool : owner[t] # "nobody"
    PROVE  TicketsAccounted'
<1>1. SUFFICES ASSUME NEW t \in pool' \ excused' PROVE Held(t)' \/ Withdrawn(t)'
    BY DEF TicketsAccounted
<1>2. t \in pool \ excused /\ room'[t] = room[t]
    BY <1>1 DEF Onward, Typed, SearchTypeOK
<1>3. search.on /\ search.ticket = t => Held(t)'
    BY DEF Held
<1>. QED
    BY <1>2, <1>3, AccountedStep DEF Followed, Named

LEMMA PoolOwned == ASSUME Typed PROVE \A t \in pool : owner[t] # "nobody" /\ match[t] = "none" /\ t # 0
    BY SearchAssumption DEF Typed, SearchTypeOK, Tickets

(* A search that ends: its ticket is withdrawn, or not in the pool, or        *)
(* excused.                                                                 *)
LEMMA AccountedEnd ==
    ASSUME Typed, Followed, UNCHANGED <<serverVars, down>>, excused \subseteq excused',
           NEW s \in Seq(Upward), up' = up \o s,
           search.ticket \in pool \ excused' =>
                \E i \in DOMAIN s : Withdraws(s[i], search.ticket)
    PROVE  TicketsAccounted'
<1>1. SUFFICES ASSUME NEW t \in pool' \ excused' PROVE Held(t)' \/ Withdrawn(t)'
    BY DEF TicketsAccounted
<1>2. t \in pool \ excused /\ t \in pool \ excused' /\ room' = room /\ down' = down
    BY <1>1 DEF serverVars
<1>3. \A i \in DOMAIN down : \E j \in DOMAIN down' : down'[j] = down[i]
    BY <1>2
<1>4. ASSUME search.on, search.ticket = t PROVE Withdrawn(t)'
  <2>1. PICK i \in DOMAIN s : Withdraws(s[i], t)
      BY <1>2, <1>4
  <2>2. PICK j \in DOMAIN up' : up'[j] = s[i]
      BY UpKept
  <2>. QED
      BY <1>2, <2>1, <2>2 DEF Withdrawn, Withdraws
<1>. QED
    BY <1>2, <1>3, <1>4, UpKept, AccountedStep DEF Followed, Named

LEMMA FollowedGone ==
    ASSUME Gone, search'.ticket = 0
    PROVE  Followed'
<1>1. pool' = {}
    BY DEF Gone
<1>2. TicketsAccounted'
    BY <1>1 DEF TicketsAccounted
<1>. QED
    BY <1>2 DEF Followed, Named

(* A client step that keeps the search. *)
LEMMA FollowedKept ==
    ASSUME Typed, Followed, UNCHANGED <<serverVars, down>>, excused \subseteq excused',
           NEW s \in Seq(Upward), up' = up \o s,
           search'.on = search.on, search'.ticket = search.ticket,
           search'.allocating = search.allocating,
           search.ticket # 0 => \A p \in Slots : start'[p].current => start[p].current
    PROVE  Followed'
<1>1. Onward /\ pool' = pool /\ down' = down
    BY DEF Onward, serverVars
<1>2. Named'
    BY <1>1, NamedKept DEF Followed, Named
<1>3. \A i \in DOMAIN down : \E j \in DOMAIN down' : down'[j] = down[i]
    BY <1>1
<1>4. TicketsAccounted'
    BY <1>1, <1>3, UpKept, PoolOwned, AccountedKept
<1>. QED
    BY <1>2, <1>4 DEF Followed, Named

LEMMA FollowedStill ==
    ASSUME Typed, Followed, UNCHANGED <<serverVars, down, up, search>>, excused \subseteq excused',
           search.ticket # 0 => \A p \in Slots : start'[p].current => start[p].current
    PROVE  Followed'
<1>1. <<>> \in Seq(Upward) /\ up' = up \o <<>>
    BY UpSame
<1>. QED
    BY <1>1, FollowedKept

LEMMA FollowedEnd ==
    ASSUME Typed, Followed, UNCHANGED <<serverVars, down>>, excused \subseteq excused',
           NEW s \in Seq(Upward), up' = up \o s,
           search.ticket \in pool \ excused' =>
                \E i \in DOMAIN s : Withdraws(s[i], search.ticket),
           search'.ticket = 0
    PROVE  Followed'
    BY AccountedEnd DEF Followed, Named

(* cancel_matchmaking withdraws the ticket of the search, or excuses it. *)
LEMMA FollowedCancel ==
    ASSUME Typed, Followed, Cancelled(start), up' = up \o Cancelling, UNCHANGED <<serverVars, down>>
    PROVE  Followed'
<1>1. /\ search'.ticket = 0 /\ excused \subseteq excused'
      /\ search.on /\ Misdirected(search.ticket) => search.ticket \in excused'
    BY DEF Cancelled, NoSearch
<1>2. Cancelling \in Seq(Upward)
    BY Withdrawals
<1>3. ASSUME search.ticket \in pool \ excused'
      PROVE  \E i \in DOMAIN Cancelling : Withdraws(Cancelling[i], search.ticket)
  <2>1. search.ticket # 0 /\ search.on /\ sock = "up"
      BY <1>3, PoolOwned DEF Followed, Typed, SearchTypeOK, Named
  <2>2. Removal(search.ticket).id = room[search.ticket]
      BY <1>1, <1>3, <2>1 DEF Misdirected
  <2>3. PICK i \in DOMAIN Cancelling : Cancelling[i] = Removal(search.ticket)
      BY <2>1, Withdrawals
  <2>4. Cancelling[i].kind = "remove" /\ Cancelling[i].ticket = search.ticket
      BY <2>3 DEF Removal
  <2>. QED
      BY <2>2, <2>3, <2>4 DEF Withdraws
<1>. QED
    BY <1>1, <1>2, <1>3, FollowedEnd

LEMMA CallsFollowed ==
    ASSUME Typed, Lined, Followed, NEW p \in Slots
    PROVE  /\ StartSolo(p) => Followed'
           /\ \A op \in {"create", "join"} : EnterParty(p, op) => Followed'
           /\ \A op \in {"party", "wait"} : StartParty(p, op) => Followed'
<1>1. ASSUME NEW op \in {"solo", "create", "join"}, Ensure(p, op),
             op = "solo" => search.ticket = 0
      PROVE Followed'
  <2>1. CASE Switching
    <3>1. search'.ticket = 0
        BY <1>1, <2>1, EnsureSwitch DEF NoSearch
    <3>. QED
        BY <1>1, <2>1, <3>1, EnsureSwitch, FollowedGone
  <2>2. CASE ~Switching
    <3>1. /\ UNCHANGED <<search, excused, serverVars, down>>
          /\ up' = up \/ up' = up \o Sent(p, op)
          /\ op # "solo" => ~start'[p].current /\ \A q \in Slots \ {p} : start'[q] = start[q]
        BY <1>1, <2>2, EnsureSame
    <3>2. search.ticket # 0 => \A q \in Slots : start'[q].current => start[q].current
        BY <1>1, <3>1
    <3>3. Sent(p, op) \in Seq(Upward)
        BY <1>1, SentTyped
    <3>. QED
        BY <3>1, <3>2, <3>3, FollowedKept, FollowedStill
  <2>. QED
      BY <2>1, <2>2
<1>2. ASSUME NEW op \in {"party", "wait"}, StartParty(p, op) PROVE Followed'
  <2>1. start' = [start EXCEPT ![p] = [Free EXCEPT !.op = op, !.pc = "ip"]]
      BY <1>2 DEF StartParty
  <2>2. \A q \in Slots : start'[q].current => start[q].current
      BY <2>1 DEF Free, Typed, SearchTypeOK
  <2>. QED
      BY <1>2, <2>2, FollowedStill DEF StartParty
<1>3. ~search.on => search.ticket = 0
    BY DEF Followed, Named
<1>. QED
    BY <1>1, <1>2, <1>3 DEF StartSolo, EnterParty

LEMMA ResumeFollowed ==
    ASSUME Typed, Lined, Followed, NEW p \in Slots
    PROVE  Connected(p) \/ Recorded(p) => Followed'
<1>1. start \in [Slots -> Start] /\ CallOf(start[p]) /\ start[p] \in Start
    BY DEF Typed, SearchTypeOK, Lined
<1>2. ASSUME Connected(p) PROVE Followed'
  <2>1. start[p].op \in {"solo", "create", "join"}
      BY <1>1, <1>2 DEF Connected, At, CallOf
  <2>2. \A q \in Slots : start'[q].current => start[q].current
    <3>1. Proceeding(start[p]).current = start[p].current
        BY <1>1 DEF Proceeding, Start
    <3>2. CASE start' = [start EXCEPT ![p] = Proceeding(@)]
        BY <1>1, <3>1, <3>2
    <3>3. CASE End(p)
        BY <1>1, <3>3, FreeCall DEF End
    <3>. QED
        BY <1>2, <3>2, <3>3 DEF Connected
  <2>3. /\ UNCHANGED <<search, excused, serverVars, down>>
        /\ up' = up \/ up' = up \o Sent(p, start[p].op)
      BY <1>2 DEF Connected
  <2>4. Sent(p, start[p].op) \in Seq(Upward)
      BY <2>1, SentTyped
  <2>. QED
      BY <2>2, <2>3, <2>4, FollowedKept, FollowedStill
<1>3. ASSUME Recorded(p) PROVE Followed'
  <2>1. UNCHANGED <<serverVars, down>>
      BY <1>3 DEF Recorded
  <2>2. CASE start[p].op = "wait"
    <3>1. /\ search'.ticket = 0 /\ up' = up /\ excused' = excused \cup ({search.ticket} \ {0})
        BY <1>3, <2>2 DEF Recorded, Typed, SearchTypeOK
    <3>2. search.ticket \notin pool \ excused'
        BY <3>1, PoolOwned
    <3>3. <<>> \in Seq(Upward) /\ up' = up \o <<>>
        BY <3>1, UpSame
    <3>. QED
        BY <2>1, <3>1, <3>2, <3>3, FollowedEnd
  <2>3. CASE start[p].op # "wait"
    <3>1. \A q \in Slots : start'[q].current => start[q].current
        BY <1>1, <1>3, <2>3, FreeCall DEF Recorded, End, Start
    <3>2. UNCHANGED <<search, excused>>
        BY <1>3, <2>3 DEF Recorded
    <3>. DEFINE m == [kind |-> "add", slot |-> p,
                      id |-> IF start[p].op = "party" THEN party.id ELSE 0,
                      party |-> start[p].op = "party"]
    <3>3. m \in Upward
        BY DEF Upward, Typed, SearchTypeOK
    <3>4. up' = up \/ up' = Append(up, m)
        BY <1>3, <2>3 DEF Recorded
    <3>. HIDE DEF m
    <3>5. <<m>> \in Seq(Upward) /\ Append(up, m) = up \o <<m>>
        BY <3>3, Appended DEF Typed
    <3>. QED
        BY <2>1, <3>1, <3>2, <3>4, <3>5, FollowedKept, FollowedStill
  <2>. QED
      BY <2>2, <2>3
<1>. QED
    BY <1>2, <1>3

LEMMA ClientFollowed ==
    ASSUME Typed, Lined, Followed
    PROVE  Cancel \/ Cleanup \/ SwitchAccount \/ LeaveParty \/ Tick
             \/ (\E closed \in BOOLEAN : Lost(closed)) => Followed'
<1>1. CASE Cancel
    BY <1>1, FollowedCancel DEF Cancel
<1>2. CASE Cleanup
    BY <1>2, FollowedGone DEF Cleanup, Cancelled, NoSearch
<1>3. ASSUME NEW closed \in BOOLEAN, Lost(closed) PROVE Followed'
  <2>1. search' = NoSearch \/ search' = [NoSearch EXCEPT !.allocating = search.allocating]
      BY <1>3 DEF Lost, Over
  <2>2. search'.ticket = 0
      BY <2>1 DEF NoSearch
  <2>. QED
      BY <1>3, <2>2, FollowedGone DEF Lost
<1>4. CASE SwitchAccount
    BY <1>4, FollowedStill DEF SwitchAccount, noteVars
<1>5. CASE LeaveParty
    BY <1>5, Withdrawals, FollowedKept DEF LeaveParty, noteVars
<1>6. CASE Tick
  <2>1. UNCHANGED <<serverVars, down>>
      BY <1>6 DEF Tick
  <2>2. CASE Ticks
    <3>1. /\ search'.on = search.on /\ search'.ticket = search.ticket
          /\ search'.allocating = search.allocating
        BY <2>2 DEF Ticks, Typed, SearchTypeOK
    <3>2. <<>> \in Seq(Upward) /\ up' = up \o <<>>
        BY <2>2, UpSame DEF Ticks
    <3>. QED
        BY <2>1, <2>2, <3>1, <3>2, FollowedKept DEF Ticks
  <2>3. CASE search.allocating /\ Abandoned
    <3>1. search.ticket \notin pool \ excused
        BY <2>3, PoolOwned DEF Followed, Named
    <3>. QED
        BY <2>1, <2>3, <3>1, Withdrawals, FollowedEnd DEF Abandoned, NoSearch
  <2>4. CASE Cancelled(start) /\ up' = up \o Cancelling
      BY <2>1, <2>4, FollowedCancel
  <2>. QED
      BY <1>6, <2>2, <2>3, <2>4 DEF Tick, TimedOut
<1>. QED
    BY <1>1, <1>2, <1>3, <1>4, <1>5, <1>6

LEMMA ServeFollowed ==
    ASSUME Typed, Posted, Pooled, Followed, Serve
    PROVE  Followed'
<1>. DEFINE m == Head(up)
<1>1. /\ up # <<>> /\ m \in Upward /\ up' = Tail(up) /\ m = up[1]
      /\ DOMAIN up = 1 .. Len(up) /\ DOMAIN up' = 1 .. Len(up) - 1 /\ Len(up) \in Nat
      /\ \A i \in DOMAIN up' : up'[i] = up[i + 1]
    BY Popped DEF Serve, Typed
<1>2. UNCHANGED <<search, start, excused>> /\ Onward
    BY ServePosted DEF Serve, clientVars, noteVars
<1>. HIDE DEF m
<1>3. ASSUME NEW t \in pool \ excused, ~Withdraws(m, t),
             \A i \in DOMAIN down : \E j \in DOMAIN down' : down'[j] = down[i]
      PROVE  Held(t)' \/ Withdrawn(t)'
  <2>1. ASSUME NEW i \in DOMAIN up, Withdraws(up[i], t) PROVE \E j \in DOMAIN up' : up'[j] = up[i]
    <3>1. i # 1
        BY <1>1, <1>3, <2>1
    <3>2. i - 1 \in DOMAIN up' /\ (i - 1) + 1 = i
        BY <1>1, <3>1
    <3>. QED
        BY <1>1, <3>2
  <2>2. search.on /\ search.ticket = t => Held(t)'
      BY <1>2 DEF Held
  <2>3. room'[t] = room[t]
      BY <1>2, PoolOwned DEF Onward, Typed, SearchTypeOK
  <2>. QED
      BY <1>3, <2>1, <2>2, <2>3, AccountedStep DEF Followed, Named
<1>4. ASSUME pool' \subseteq pool, TicketsAccounted' PROVE Followed'
    BY <1>2, <1>4, NamedKept DEF Followed, Named
<1>5. CASE \/ m.kind = "remove" /\ Remove(m)
           \/ m.kind = "leave" /\ Leave(m)
  <2>1. UNCHANGED down /\ pool' \subseteq pool /\ \A t \in pool' : ~Withdraws(m, t)
      BY <1>5 DEF Remove, Leave, Withdraws
  <2>. QED
      BY <1>2, <1>3, <1>4, <2>1 DEF TicketsAccounted
<1>6. CASE \/ m.kind = "add" /\ Add(m)
           \/ m.kind \in {"create", "join"} /\ Enter(m)
  <2>1. \A t \in pool : ~Withdraws(m, t)
      BY <1>6 DEF Withdraws
  <2>2. m.slot \in Slots
      BY <1>1, <1>6, UpMail DEF Asks
  <2>3. ASSUME Refused(m) PROVE Followed'
    <3>1. [kind |-> "error", slot |-> m.slot] \in Downward
        BY <2>2 DEF Downward
    <3>2. \A i \in DOMAIN down : \E j \in DOMAIN down' : down'[j] = down[i]
        BY <2>3, <3>1, DownKept DEF Refused
    <3>3. pool' = pool
        BY <2>3 DEF Refused, serverVars
    <3>. QED
        BY <1>2, <1>3, <1>4, <2>1, <3>2, <3>3 DEF TicketsAccounted
  <2>4. ASSUME NEW i \in NextRoom, pool' = pool,
               down' = Append(down, [kind |-> m.kind, slot |-> m.slot, id |-> i]),
               m.kind \in {"create", "join"}
        PROVE  Followed'
    <3>1. [kind |-> m.kind, slot |-> m.slot, id |-> i] \in Downward
        BY <2>2, <2>4 DEF Downward, NextRoom
    <3>2. \A j \in DOMAIN down : \E k \in DOMAIN down' : down'[k] = down[j]
        BY <2>4, <3>1, DownKept
    <3>. QED
        BY <1>2, <1>3, <1>4, <2>1, <2>4, <3>2 DEF TicketsAccounted
  <2>5. ASSUME NEW t \in NextTicket, pool' = pool \cup {t},
               down' = Append(down, [kind |-> "ticket", slot |-> m.slot, ticket |-> t])
        PROVE  Followed'
    <3>. DEFINE n == [kind |-> "ticket", slot |-> m.slot, ticket |-> t]
    <3>1. t \in Tickets /\ owner[t] = "nobody" /\ t \notin pool
        BY FreshTicket
    <3>2. n \in Downward /\ down' = Append(down, n) /\ n.kind = "ticket" /\ n.ticket = t
        BY <2>2, <2>5, <3>1 DEF Downward
    <3>. HIDE DEF n
    <3>3. \A j \in DOMAIN down : \E k \in DOMAIN down' : down'[k] = down[j]
        BY <3>2, DownKept
    <3>4. Len(down) + 1 \in DOMAIN down' /\ down'[Len(down) + 1] = n
        BY <3>2, Appended DEF Typed
    <3>5. Held(t)'
        BY <3>2, <3>4 DEF Held
    <3>6. TicketsAccounted'
        BY <1>2, <1>3, <2>1, <2>5, <3>3, <3>5 DEF TicketsAccounted
    <3>7. Named'
        BY <1>2, <2>5, <3>1, NamedKept DEF Followed, Named
    <3>. QED
        BY <3>6, <3>7 DEF Followed, Named
  <2>6. CASE Add(m)
      BY <2>3, <2>5, <2>6 DEF Add
  <2>7. CASE m.kind \in {"create", "join"} /\ Enter(m)
      BY <2>3, <2>4, <2>7 DEF Enter
  <2>. QED
      BY <1>6, <2>6, <2>7
<1>. QED
    BY <1>5, <1>6 DEF Serve, m

LEMMA ServerFollowed ==
    ASSUME Typed, Posted, Pooled, Followed
    PROVE  /\ \A t \in Tickets : Match(t) \/ Outcome(t) => Followed'
           /\ MatchMember => Followed'
           /\ \A i \in Parties : PartyClosed(i) => Followed'
<1>1. ASSUME Onward, UNCHANGED <<search, start, excused, up>>, pool' \subseteq pool,
             NEW n \in Downward, down' = down \/ down' = Append(down, n)
      PROVE  Followed'
  <2>1. Named'
      BY <1>1, NamedKept DEF Followed, Named
  <2>2. TicketsAccounted'
      BY <1>1, DownKept, PoolOwned, AccountedKept
  <2>. QED
      BY <2>1, <2>2 DEF Followed, Named
<1>2. \A t \in Tickets, kind \in {"allocating", "ready", "failed"} : Note(kind, t) \in Downward
    BY DEF Note, Downward
<1>3. ASSUME NEW t \in Tickets, Match(t) PROVE Followed'
  <2>1. down' = down \/ down' = Append(down, Note("allocating", t))
      BY <1>3 DEF Match, Push
  <2>2. UNCHANGED <<search, start, excused, up>> /\ pool' \subseteq pool
      BY <1>3 DEF Match, clientVars, noteVars
  <2>. QED
      BY <1>1, <1>2, <1>3, <2>1, <2>2, ServerPosted
<1>4. ASSUME NEW t \in Tickets, Outcome(t) PROVE Followed'
  <2>1. PICK kind \in {"ready", "failed"} : down' = down \/ down' = Append(down, Note(kind, t))
      BY <1>4 DEF Outcome, Push
  <2>2. UNCHANGED <<search, start, excused, up>> /\ pool' \subseteq pool
      BY <1>4 DEF Outcome, clientVars, noteVars
  <2>. QED
      BY <1>1, <1>2, <1>4, <2>1, <2>2, ServerPosted
<1>5. ASSUME MatchMember PROVE Followed'
  <2>1. PICK t \in NextTicket : /\ down' = Append(down, Note("allocating", t)) \/ UNCHANGED down
                                /\ UNCHANGED <<clientVars, pool, up, noteVars>>
      BY <1>5 DEF MatchMember
  <2>2. t \in Tickets
      BY FreshTicket
  <2>3. UNCHANGED <<search, start, excused, up>> /\ pool' \subseteq pool
      BY <2>1 DEF clientVars, noteVars
  <2>. QED
      BY <1>1, <1>2, <1>5, <2>1, <2>2, <2>3, ServerPosted
<1>6. ASSUME NEW i \in Parties, PartyClosed(i) PROVE Followed'
  <2>1. [kind |-> "closed", id |-> i] \in Downward
      BY DEF Downward
  <2>2. /\ down' = Append(down, [kind |-> "closed", id |-> i])
        /\ UNCHANGED <<search, start, excused, up>> /\ pool' \subseteq pool
      BY <1>6 DEF PartyClosed, clientVars, noteVars
  <2>. QED
      BY <1>1, <1>6, <2>1, <2>2, ServerPosted
<1>. QED
    BY <1>3, <1>4, <1>5, <1>6

LEMMA ReceiveAccounted ==
    ASSUME Typed, Followed, down # <<>>, down' = Tail(down), UNCHANGED serverVars,
           NEW t \in pool \ excused,
           \A i \in DOMAIN up : \E j \in DOMAIN up' : up'[j] = up[i],
           Head(down).kind = "ticket" /\ Head(down).ticket = t => Held(t)' \/ Withdrawn(t)',
           search.on /\ search.ticket = t => Held(t)' \/ Withdrawn(t)'
    PROVE  Held(t)' \/ Withdrawn(t)'
<1>1. /\ Head(down) = down[1] /\ DOMAIN down' = 1 .. Len(down) - 1 /\ Len(down) \in Nat
      /\ DOMAIN down = 1 .. Len(down) /\ \A i \in DOMAIN down' : down'[i] = down[i + 1]
    BY Popped DEF Typed
<1>2. ASSUME NEW i \in DOMAIN down, down[i].kind = "ticket", down[i].ticket = t
      PROVE  (\E j \in DOMAIN down' : down'[j] = down[i]) \/ Held(t)' \/ Withdrawn(t)'
  <2>1. CASE i = 1
      BY <1>1, <1>2, <2>1
  <2>2. CASE i # 1
    <3>1. i - 1 \in DOMAIN down' /\ (i - 1) + 1 = i
        BY <1>1, <2>2
    <3>. QED
        BY <1>1, <3>1
  <2>. QED
      BY <2>1, <2>2
<1>. QED
    BY <1>2, AccountedStep DEF Followed, serverVars, Named

LEMMA AnsweredFollowed ==
    ASSUME Typed, Lined, Posted, Followed, down # <<>>, down' = Tail(down), UNCHANGED serverVars,
           Head(down).kind = "ticket", Answered(Head(down))
    PROVE  Followed'
<1>. DEFINE m == Head(down)
            r == start[m.slot]
<1>1. /\ m \in Downward /\ AnswerOf(m) /\ sock = "up" /\ m.slot \in Slots /\ m.ticket \in Tickets
      /\ m.kind = "ticket"
    BY TakenTyped, DownMail
<1>2. /\ r.op \in {"solo", "party"} /\ owner[m.ticket] # "nobody"
      /\ r.op = "party" => room[m.ticket] # 0
    BY <1>1 DEF AnswerOf
<1>3. /\ start' = [start EXCEPT ![m.slot] = Free] /\ start \in [Slots -> Start]
      /\ \A p \in Slots : start'[p].current => start[p].current /\ p # m.slot
    BY <1>1, FreeCall DEF Answered, End, Typed, SearchTypeOK
<1>4. excused \subseteq excused' /\ Onward /\ pool' = pool /\ room' = room
    BY DEF Answered, Onward, serverVars
<1>5. CASE r.op = "solo" /\ ~r.current
  <2>1. /\ up' = up \o Send(Removal(m.ticket)) /\ search' = search
        /\ Misdirected(m.ticket) => m.ticket \in excused'
      BY <1>5 DEF Answered
  <2>2. Named'
      BY <1>3, <1>4, <2>1, NamedKept DEF Followed, Named
  <2>3. ASSUME NEW t \in pool \ excused', m.ticket = t PROVE Withdrawn(t)'
    <3>1. Removal(t).id = room[t] /\ Removal(t).kind = "remove" /\ Removal(t).ticket = t
      <4>1. ~Misdirected(t) /\ t # 0
          BY <2>1, <2>3, PoolOwned
      <4>. QED
          BY <4>1 DEF Misdirected, Removal
    <3>2. Send(Removal(t)) = <<Removal(t)>> /\ Send(Removal(t)) \in Seq(Upward)
        BY <1>1, <2>3, Withdrawals DEF Send
    <3>3. \E j \in DOMAIN up' : up'[j] = Removal(t)
      <4>1. 1 \in DOMAIN Send(Removal(t)) /\ Send(Removal(t))[1] = Removal(t)
          BY <3>2
      <4>2. up' = up \o Send(Removal(t))
          BY <2>1, <2>3
      <4>3. \A i \in DOMAIN Send(Removal(t)) : \E j \in DOMAIN up' : up'[j] = Send(Removal(t))[i]
          BY <3>2, <4>2, UpKept
      <4>. QED
          BY <4>1, <4>3
    <3>. QED
        BY <1>4, <3>1, <3>3 DEF Withdrawn
  <2>4. \A t : search.on /\ search.ticket = t => Held(t)'
      BY <2>1 DEF Held
  <2>5. \A i \in DOMAIN up : \E j \in DOMAIN up' : up'[j] = up[i]
      BY <1>1, <2>1, Withdrawals, UpKept
  <2>6. TicketsAccounted'
    <3>1. SUFFICES ASSUME NEW t \in pool' \ excused' PROVE Held(t)' \/ Withdrawn(t)'
        BY DEF TicketsAccounted
    <3>. QED
        BY <1>4, <2>3, <2>4, <2>5, ReceiveAccounted
  <2>. QED
      BY <2>2, <2>6 DEF Followed, Named
<1>6. CASE ~(r.op = "solo" /\ ~r.current)
  <2>1. /\ search' = [search EXCEPT !.on = TRUE, !.ticket = m.ticket, !.elapsed = 0] /\ up' = up
        /\ search.allocating => m.ticket \in excused'
        /\ r.op = "party" \/ (search.ticket # 0 /\ room[search.ticket] # 0) =>
             search.ticket = 0 \/ search.ticket \in excused'
      BY <1>6 DEF Answered
  <2>2. /\ search'.on /\ search'.ticket = m.ticket /\ search'.allocating = search.allocating
      BY <2>1 DEF Typed, SearchTypeOK
  <2>3. Named'
    <3>1. room'[m.ticket] # 0 \/ \A p \in Slots : ~start'[p].current
      <4>1. CASE r.op = "party"
          BY <1>2, <1>4, <4>1
      <4>2. CASE r.current
          BY <1>1, <1>3, <4>2 DEF Lined
      <4>. QED
          BY <1>2, <1>6, <4>1, <4>2
    <3>2. owner'[m.ticket] # "nobody"
        BY <1>2 DEF serverVars
    <3>. QED
        BY <2>1, <2>2, <3>1, <3>2 DEF Named
  <2>4. ASSUME NEW t \in pool \ excused', search.on, search.ticket = t PROVE FALSE
    <3>1. t # 0 /\ r.op # "party" /\ room[t] = 0
        BY <2>1, <2>4, PoolOwned
    <3>2. r.current
        BY <1>2, <1>6, <3>1
    <3>. QED
        BY <1>1, <2>4, <3>1, <3>2 DEF Followed, Named
  <2>5. \A t : m.ticket = t => Held(t)'
      BY <2>2 DEF Held
  <2>6. \A i \in DOMAIN up : \E j \in DOMAIN up' : up'[j] = up[i]
      BY <2>1
  <2>7. TicketsAccounted'
    <3>1. SUFFICES ASSUME NEW t \in pool' \ excused' PROVE Held(t)' \/ Withdrawn(t)'
        BY DEF TicketsAccounted
    <3>. QED
        BY <1>4, <2>4, <2>5, <2>6, ReceiveAccounted
  <2>. QED
      BY <2>3, <2>7 DEF Followed, Named
<1>. QED
    BY <1>5, <1>6

(* Any other message: the search goes on, or ends with its ticket excused or *)
(* out of the pool.                                                         *)
LEMMA TakenFollowed ==
    ASSUME Typed, Followed, down # <<>>, down' = Tail(down), UNCHANGED <<serverVars, up>>,
           Head(down).kind # "ticket",
           \A p \in Slots : start'[p].current => start[p].current,
           excused \subseteq excused',
           \/ search' = search
           \/ /\ search.ticket \notin pool \ excused'
              /\ \/ search'.ticket = 0
                 \/ search'.on = search.on /\ search'.ticket = search.ticket
    PROVE  Followed'
<1>1. Onward /\ pool' = pool /\ room' = room /\ owner' = owner
    BY DEF Onward, serverVars
<1>2. Named'
  <2>1. CASE search' = search
      BY <1>1, <2>1, NamedKept DEF Followed, Named
  <2>2. CASE search'.ticket = 0
      BY <2>2, NamedNone
  <2>3. CASE /\ search.ticket \notin pool \ excused'
             /\ search'.on = search.on /\ search'.ticket = search.ticket
      BY <1>1, <2>3 DEF Followed, Named
  <2>. QED
      BY <2>1, <2>2, <2>3
<1>3. TicketsAccounted'
  <2>1. SUFFICES ASSUME NEW t \in pool' \ excused' PROVE Held(t)' \/ Withdrawn(t)'
      BY DEF TicketsAccounted
  <2>2. search.on /\ search.ticket = t => Held(t)'
      BY <1>1, <2>1 DEF Held
  <2>. QED
      BY <1>1, <2>1, <2>2, ReceiveAccounted
<1>. QED
    BY <1>2, <1>3 DEF Followed, Named

LEMMA ReceiveFollowed ==
    ASSUME Typed, Lined, Posted, Followed, Receive
    PROVE  Followed'
<1>. DEFINE m == Head(down)
<1>1. /\ m \in Downward /\ AnswerOf(m) /\ down # <<>> /\ down' = Tail(down)
      /\ UNCHANGED <<account, sock, sockUser, serverVars, quiet, events>>
    BY TakenTyped DEF Receive
<1>2. \A p \in Slots : start'[p].current => start[p].current
    BY ReceiveCalls, FreeCall DEF Typed, SearchTypeOK
<1>. HIDE DEF m
<1>3. CASE m.kind = "ticket" /\ Answered(m)
    BY <1>1, <1>3, AnsweredFollowed DEF m
<1>4. CASE m.kind \in {"create", "join", "error"} /\ (Entered(m) \/ Failed(m))
    BY <1>1, <1>2, <1>4, TakenFollowed DEF Entered, Failed, m
<1>5. CASE m.kind \in {"allocating", "ready", "failed"} /\ Notified(m)
  <2>1. CASE ~search.on
      BY <1>1, <1>2, <1>5, <2>1, TakenFollowed DEF Notified, m
  <2>2. CASE search.on
    <3>1. m.ticket \in Tickets /\ match[m.ticket] # "none"
        BY <1>1, <1>5, DownMail DEF AnswerOf
    <3>2. excused \subseteq excused' /\ (Foreign(m) => search.ticket \in excused')
        BY <1>5, <2>2 DEF Notified, Lets
    <3>3. search.ticket \notin pool \ excused'
        BY <3>1, <3>2, PoolOwned DEF Foreign
    <3>4. \/ search' = [search EXCEPT !.allocating = TRUE, !.elapsed = 0]
          \/ search' = NoSearch
        BY <1>5, <2>2 DEF Notified
    <3>5. search'.ticket = 0 \/ (search'.on = search.on /\ search'.ticket = search.ticket)
      <4>1. CASE search' = NoSearch
          BY <4>1 DEF NoSearch
      <4>2. CASE search' = [search EXCEPT !.allocating = TRUE, !.elapsed = 0]
          BY <4>2 DEF Typed, SearchTypeOK
      <4>. QED
          BY <3>4, <4>1, <4>2
    <3>6. UNCHANGED up /\ m.kind # "ticket"
        BY <1>5 DEF Notified
    <3>. QED
        BY <1>1, <1>2, <3>2, <3>3, <3>5, <3>6, TakenFollowed DEF m
  <2>. QED
      BY <2>1, <2>2
<1>6. CASE m.kind = "closed" /\ ClosedByLeader(m)
  <2>1. CASE party.id # m.id
      BY <1>1, <1>2, <1>6, <2>1, TakenFollowed DEF ClosedByLeader, m
  <2>2. CASE party.id = m.id
    <3>1. /\ search' = [NoSearch EXCEPT !.allocating = search.allocating] /\ UNCHANGED up
          /\ excused' = IF search.on THEN excused \cup ({search.ticket} \ {0}) ELSE excused
        BY <1>6, <2>2 DEF ClosedByLeader, Over
    <3>2. search'.ticket = 0
        BY <3>1 DEF NoSearch
    <3>3. search.ticket \notin pool \ excused'
        BY <3>1, PoolOwned DEF Followed, Named
    <3>4. m.kind # "ticket" /\ excused \subseteq excused'
        BY <1>6, <3>1
    <3>. QED
        BY <1>1, <1>2, <3>1, <3>2, <3>3, <3>4, TakenFollowed DEF m
  <2>. QED
      BY <2>1, <2>2
<1>. QED
    BY <1>3, <1>4, <1>5, <1>6 DEF Receive, m

LEMMA FollowedNext ==
    ASSUME SearchInv, [Next]_vars
    PROVE  Followed'
<1>1. Typed /\ Lined /\ Posted /\ Pooled /\ Followed
    BY DEF SearchInv
<1>2. CASE UNCHANGED vars
    BY <1>1, <1>2, FollowedStill DEF vars, clientVars, noteVars
<1>. QED
    BY <1>1, <1>2, CallsFollowed, ResumeFollowed, ClientFollowed, ServeFollowed, ServerFollowed,
       ReceiveFollowed
    DEF Next, Resume

-----------------------------------------------------------------------------
(* What the game hears. *)

LEMMA QuietKept ==
    ASSUME Quieted, quiet' => quiet, ~search.on => ~search'.on,
           \A p \in Slots : Lesser(start'[p], start[p])
    PROVE  Quieted'
    BY FreeCall DEF Quieted, Lesser

(* A promising call goes on as it was. *)
LEMMA PromiseKept ==
    ASSUME Promised, owed' /\ ~search'.on => owed /\ ~search.on,
           sock' = "none" => sock = "none",
           \A p \in Slots : Promising(start[p]) /\ owed' /\ ~search'.on =>
              /\ start'[p].op = start[p].op /\ start'[p].current = start[p].current
              /\ start'[p].pc = start[p].pc \/ sock' # "none"
    PROVE  Promised'
    BY DEF Promised, Promising

LEMMA StillHeard ==
    ASSUME Heard, Typed, Lined, UNCHANGED <<start, sock, quiet, owed>>, search'.on = search.on
    PROVE  Heard'
<1>1. Quieted'
    BY LesserCall, QuietKept DEF Heard, Quieted, Promised
<1>2. Promised'
    BY PromiseKept DEF Heard, Promised, Quieted
<1>. QED
    BY <1>1, <1>2 DEF Heard, Quieted, Promised

LEMMA CallsHeard ==
    ASSUME Typed, Lined, Heard, NEW p \in Slots
    PROVE  /\ StartSolo(p) => Heard'
           /\ \A op \in {"create", "join"} : EnterParty(p, op) => Heard'
           /\ \A op \in {"party", "wait"} : StartParty(p, op) => Heard'
<1>1. At(p, "idle") => start[p].op = "none" /\ ~Promising(start[p])
    BY FreeCall DEF At, Lined, CallOf, Promising
<1>2. ASSUME StartSolo(p) PROVE Heard'
  <2>1. ~quiet' /\ owed' = ~Switching /\ Ensure(p, "solo")
      BY <1>2 DEF StartSolo
  <2>2. ~Switching => Promising(start[p])'
    <3>1. ASSUME ~Switching
          PROVE  /\ start'[p].op = "solo" /\ start'[p].current /\ sock' = sock
                 /\ sock = "up" \/ start'[p].pc = "connect"
        BY <2>1, <3>1, EnsureSame
    <3>. QED
        BY <3>1 DEF Promising
  <2>. QED
      BY <2>1, <2>2 DEF Heard, Quieted, Promised
<1>3. ASSUME NEW op \in {"create", "join"}, EnterParty(p, op) PROVE Heard'
  <2>1. quiet' = quiet /\ owed' = (owed /\ ~Switching) /\ Ensure(p, op) /\ At(p, "idle")
      BY <1>3 DEF EnterParty, CanCall
  <2>2. CASE Switching
    <3>1. ~search'.on /\ ~owed'
      <4>1. search' = NoSearch
          BY <2>1, <2>2, EnsureSwitch
      <4>. QED
          BY <2>1, <2>2, <4>1 DEF NoSearch
    <3>2. \A q \in Slots : quiet => start'[q].op \notin {"party", "wait"} /\ ~start'[q].current
      <4>1. start'[p].op = op /\ ~start'[p].current
          BY <2>1, <2>2, EnsureSwitch
      <4>2. \A q \in Slots \ {p} : Lesser(start'[q], start[q])
          BY <2>1, <2>2, EnsureSwitch
      <4>. QED
          BY <4>1, <4>2, FreeCall DEF Heard, Lesser, Quieted, Promised
    <3>. QED
        BY <2>1, <3>1, <3>2 DEF Heard, Quieted, Promised
  <2>3. CASE ~Switching
    <3>1. /\ start'[p].op = op /\ ~start'[p].current /\ \A q \in Slots \ {p} : start'[q] = start[q]
          /\ sock' = sock /\ search' = search
        BY <2>1, <2>3, EnsureSame
    <3>2. Promised'
        BY <1>1, <2>1, <3>1, PromiseKept DEF Heard, Promised, Quieted
    <3>3. Quieted'
        BY <2>1, <3>1 DEF Heard, Quieted, Promised
    <3>. QED
        BY <3>2, <3>3 DEF Heard, Quieted, Promised
  <2>. QED
      BY <2>2, <2>3
<1>4. ASSUME NEW op \in {"party", "wait"}, StartParty(p, op) PROVE Heard'
  <2>1. /\ start'[p] = [Free EXCEPT !.op = op, !.pc = "ip"] /\ sock' = sock /\ ~quiet'
        /\ op = "party" => sock = "up"
      BY <1>4 DEF StartParty, Typed, SearchTypeOK
  <2>2. start'[p].op = op
      BY <2>1 DEF Free
  <2>3. Promising(start[p])'
      BY <2>1, <2>2 DEF Promising
  <2>. QED
      BY <2>1, <2>3 DEF Heard, Quieted, Promised
<1>. QED
    BY <1>2, <1>3, <1>4

LEMMA ResumeHeard ==
    ASSUME Typed, Lined, Heard, NEW p \in Slots
    PROVE  Connected(p) \/ Recorded(p) => Heard'
<1>1. start \in [Slots -> Start] /\ CallOf(start[p]) /\ start[p] \in Start
    BY DEF Typed, SearchTypeOK, Lined
<1>2. ASSUME Connected(p) PROVE Heard'
  <2>1. /\ start[p].pc = "connect" /\ start[p].op \in {"solo", "create", "join"}
        /\ UNCHANGED <<search, quiet>>
      BY <1>1, <1>2 DEF Connected, At, CallOf
  <2>2. CASE /\ sock' = "up" /\ start' = [start EXCEPT ![p] = Proceeding(@)] /\ owed' = owed
    <3>1. /\ start'[p].op = start[p].op /\ start'[p].current = start[p].current
          /\ \A q \in Slots \ {p} : start'[q] = start[q]
        BY <1>1, <2>2 DEF Proceeding, Start
    <3>2. Promised'
        BY <2>1, <2>2, <3>1, PromiseKept DEF Heard, Promised, Quieted
    <3>3. Quieted'
        BY <2>1, <3>1 DEF Heard, Quieted, Promised
    <3>. QED
        BY <3>2, <3>3 DEF Heard, Quieted, Promised
  <2>3. CASE ~owed' /\ End(p)
    <3>1. \A q \in Slots : Lesser(start'[q], start[q])
        BY <1>1, <2>3, LesserCall DEF End
    <3>2. Quieted'
        BY <2>1, <3>1, QuietKept DEF Heard, Quieted, Promised
    <3>. QED
        BY <2>3, <3>2 DEF Heard, Quieted, Promised
  <2>. QED
      BY <1>2, <2>2, <2>3 DEF Connected
<1>3. ASSUME Recorded(p) PROVE Heard'
  <2>1. /\ start[p].pc = "ip" /\ start[p].op \in Searches /\ UNCHANGED <<sock, quiet>>
      BY <1>1, <1>3 DEF Recorded, At, CallOf
  <2>2. CASE start[p].op = "wait"
    <3>1. search'.on /\ ~quiet
        BY <1>3, <2>2 DEF Recorded, Heard, Typed, SearchTypeOK, Quieted, Promised
    <3>. QED
        BY <2>1, <3>1 DEF Heard, Quieted, Promised
  <2>3. CASE start[p].op # "wait" /\ sock = "up"
    <3>1. start' = [start EXCEPT ![p].pc = "reply"] /\ UNCHANGED <<search, owed>>
        BY <1>3, <2>3 DEF Recorded
    <3>2. /\ start'[p].op = start[p].op /\ start'[p].current = start[p].current
          /\ \A q \in Slots \ {p} : start'[q] = start[q]
        BY <1>1, <3>1 DEF Start
    <3>3. Promised'
        BY <2>1, <2>3, <3>1, <3>2, PromiseKept DEF Heard, Promised, Quieted
    <3>4. Quieted'
        BY <2>1, <3>1, <3>2 DEF Heard, Quieted, Promised
    <3>. QED
        BY <3>3, <3>4 DEF Heard, Quieted, Promised
  <2>4. CASE start[p].op # "wait" /\ sock # "up"
    <3>1. /\ start' = [start EXCEPT ![p] = Free] /\ search' = search
          /\ owed' = (owed /\ sock # "down")
        BY <1>3, <2>4 DEF Recorded, End
    <3>2. \A q \in Slots : Lesser(start'[q], start[q])
        BY <1>1, <3>1, LesserCall
    <3>3. Quieted'
        BY <2>1, <3>1, <3>2, QuietKept DEF Heard, Quieted, Promised
    <3>4. ASSUME owed' PROVE ~Promising(start[p])
      <4>1. sock = "none"
          BY <2>4, <3>1, <3>4 DEF Typed, SearchTypeOK
      <4>. QED
          BY <2>1, <2>4, <4>1 DEF Promising
    <3>5. \A q \in Slots \ {p} : start'[q] = start[q]
        BY <1>1, <3>1
    <3>6. Promised'
        BY <2>1, <3>1, <3>4, <3>5, PromiseKept DEF Heard, Promised, Quieted
    <3>. QED
        BY <3>3, <3>6 DEF Heard, Quieted, Promised
  <2>. QED
      BY <2>2, <2>3, <2>4
<1>. QED
    BY <1>2, <1>3

(* A cancel asked for by the game while no party call is suspended. *)
LEMMA CancelHeard ==
    ASSUME Typed, Lined, AskedCancel, ~search'.on,
           \A p \in Slots : Lesser(start'[p], start[p]) /\ ~start'[p].current
    PROVE  Heard'
<1>1. ASSUME quiet', NEW p \in Slots PROVE start'[p].op \notin {"party", "wait"}
  <2>1. At(p, "idle") \/ start[p].op \notin {"party", "wait"}
      BY <1>1 DEF AskedCancel, Suspended
  <2>2. At(p, "idle") => start[p].op = "none"
      BY FreeCall DEF Lined, CallOf, At
  <2>. QED
      BY <2>1, <2>2, FreeCall DEF Lesser
<1>. QED
    BY <1>1 DEF AskedCancel, Heard, Quieted, Promised

LEMMA ClientHeard ==
    ASSUME Typed, Lined, Heard
    PROVE  Cancel \/ Cleanup \/ SwitchAccount \/ LeaveParty \/ Tick
             \/ (\E closed \in BOOLEAN : Lost(closed)) => Heard'
<1>. start \in [Slots -> Start]
    BY DEF Typed, SearchTypeOK
<1>1. CASE Cancel
  <2>1. start' = Outrun(start) /\ ~search'.on /\ AskedCancel
      BY <1>1 DEF Cancel, Cancelled, NoSearch
  <2>. QED
      BY <2>1, LesserCall, OutrunCalls, CancelHeard
<1>2. CASE Cleanup
  <2>. PICK ends : Cancelled(Excepted(ends))
      BY <1>2 DEF Cleanup
  <2>. DEFINE calls == Excepted(ends)
  <2>1. start' = Outrun(calls) /\ ~search'.on /\ AskedCancel
      BY <1>2 DEF Cleanup, Cancelled, NoSearch
  <2>2. calls \in [Slots -> Start] /\ \A p \in Slots : Lesser(Outrun(calls)[p], start[p])
      BY ExceptedCalls, LesserExcepted
  <2>. HIDE DEF calls
  <2>. QED
      BY <2>1, <2>2, OutrunCalls, CancelHeard
<1>3. CASE SwitchAccount \/ LeaveParty
    BY <1>3, StillHeard DEF SwitchAccount, LeaveParty, noteVars
<1>4. CASE Tick
  <2>1. UNCHANGED <<sock, quiet>> /\ search.on
      BY <1>4 DEF Tick
  <2>2. CASE Ticks
    <3>1. search'.on = search.on
        BY <2>2 DEF Ticks, Typed, SearchTypeOK
    <3>. QED
        BY <2>1, <2>2, <3>1, StillHeard DEF Ticks
  <2>3. CASE TimedOut
      BY <2>1, <2>3 DEF TimedOut, Heard, Quieted, Promised
  <2>. QED
      BY <1>4, <2>2, <2>3 DEF Tick
<1>5. ASSUME NEW closed \in BOOLEAN, Lost(closed) PROVE Heard'
  <2>1. /\ owed' = (owed /\ ~search.on /\ \A p \in Slots : ~At(p, "reply")) /\ quiet' = quiet
        /\ sock' = "down"
      BY <1>5 DEF Lost
  <2>2. search' = NoSearch \/ search' = [NoSearch EXCEPT !.allocating = search.allocating]
      BY <1>5 DEF Lost, Over
  <2>3. ~search'.on
      BY <2>2 DEF NoSearch
  <2>4. start' = Outrun(Excepted({"reply"})) \/ start' = Excepted({"reply"})
      BY <1>5 DEF Lost
  <2>5. Quieted'
      BY <2>1, <2>3, <2>4, LesserExcepted, QuietKept DEF Heard, Quieted, Promised
  <2>6. ASSUME owed', NEW p \in Slots PROVE start'[p] = start[p]
    <3>1. start' = Excepted({"reply"}) /\ start[p].pc # "reply"
        BY <1>5, <2>1, <2>6 DEF Lost, At
    <3>. QED
        BY <3>1, ExceptedCalls
  <2>7. Promised'
      BY <2>1, <2>3, <2>6, PromiseKept DEF Heard, Promised, Quieted
  <2>. QED
      BY <2>5, <2>7 DEF Heard, Quieted, Promised
<1>. QED
    BY <1>1, <1>2, <1>3, <1>4, <1>5

LEMMA ReceiveHeard ==
    ASSUME Typed, Lined, Posted, Heard, Receive
    PROVE  Heard'
<1>. DEFINE m == Head(down)
<1>1. /\ m \in Downward /\ AnswerOf(m) /\ UNCHANGED <<sock, quiet>>
      /\ m.kind \in {"ticket", "create", "join", "error"} => m.slot \in Slots
    BY TakenTyped DEF Receive
<1>2. start \in [Slots -> Start]
    BY DEF Typed, SearchTypeOK
<1>3. \A q \in Slots : Lesser(start'[q], start[q])
    BY <1>2, ReceiveCalls, LesserCall
<1>. HIDE DEF m
<1>4. ASSUME m.slot \in Slots, End(m.slot), ~Promising(start[m.slot]), search' = search, owed' = owed
      PROVE  Heard'
  <2>1. \A q \in Slots \ {m.slot} : start'[q] = start[q]
      BY <1>2, <1>4 DEF End
  <2>2. Promised'
      BY <1>1, <1>4, <2>1, PromiseKept DEF Heard, Promised, Quieted
  <2>3. Quieted'
      BY <1>1, <1>3, <1>4, QuietKept DEF Heard, Quieted, Promised
  <2>. QED
      BY <2>2, <2>3 DEF Heard, Quieted, Promised
<1>5. ASSUME ~owed', ~search.on => ~search'.on PROVE Heard'
  <2>1. Quieted'
      BY <1>1, <1>3, <1>5, QuietKept DEF Heard, Quieted, Promised
  <2>. QED
      BY <1>5, <2>1 DEF Heard, Quieted, Promised
<1>6. ASSUME UNCHANGED <<start, owed>>, search'.on = search.on PROVE Heard'
    BY <1>1, <1>6, StillHeard
<1>7. CASE m.kind = "ticket" /\ Answered(m)
  <2>. DEFINE r == start[m.slot]
  <2>1. r.op \in {"solo", "party"} /\ m.slot \in Slots
      BY <1>1, <1>7 DEF AnswerOf
  <2>2. CASE r.op = "solo" /\ ~r.current
    <3>1. End(m.slot) /\ search' = search /\ owed' = owed
        BY <1>7, <2>2 DEF Answered
    <3>2. ~Promising(r)
        BY <2>2 DEF Promising
    <3>. QED
        BY <1>4, <2>1, <3>1, <3>2
  <2>3. CASE ~(r.op = "solo" /\ ~r.current)
    <3>1. search' = [search EXCEPT !.on = TRUE, !.ticket = m.ticket, !.elapsed = 0]
        BY <1>7, <2>3 DEF Answered
    <3>2. search'.on
        BY <3>1 DEF Typed, SearchTypeOK
    <3>3. ~quiet
        BY <2>1, <2>3 DEF Heard, Quieted, Promised
    <3>. QED
        BY <1>1, <3>2, <3>3 DEF Heard, Quieted, Promised
  <2>. QED
      BY <2>2, <2>3
<1>8. CASE m.kind \in {"create", "join"} /\ Entered(m)
  <2>1. m.slot \in Slots /\ start[m.slot].op \in {"create", "join"}
      BY <1>1, <1>8 DEF AnswerOf
  <2>2. ~Promising(start[m.slot])
      BY <2>1 DEF Promising
  <2>. QED
      BY <1>4, <1>8, <2>1, <2>2 DEF Entered
<1>9. CASE Failed(m)
    BY <1>5, <1>9 DEF Failed
<1>10. CASE Notified(m)
  <2>1. CASE ~search.on
      BY <1>6, <1>10, <2>1 DEF Notified
  <2>2. CASE search.on /\ m.kind = "allocating"
    <3>1. /\ search' = [search EXCEPT !.allocating = TRUE, !.elapsed = 0]
          /\ UNCHANGED <<start, owed>>
        BY <1>10, <2>2 DEF Notified
    <3>2. search'.on = search.on
        BY <3>1 DEF Typed, SearchTypeOK
    <3>. QED
        BY <1>6, <3>1, <3>2
  <2>3. CASE search.on /\ m.kind # "allocating"
      BY <1>5, <1>10, <2>3 DEF Notified
  <2>. QED
      BY <2>1, <2>2, <2>3
<1>11. CASE ClosedByLeader(m)
  <2>1. CASE party.id # m.id
      BY <1>6, <1>11, <2>1 DEF ClosedByLeader
  <2>2. CASE party.id = m.id
    <3>1. /\ search' = [NoSearch EXCEPT !.allocating = search.allocating]
          /\ owed' = (owed /\ ~search.on) /\ start' = start
        BY <1>11, <2>2 DEF ClosedByLeader, Over
    <3>2. ~search'.on
        BY <3>1 DEF NoSearch
    <3>3. Promised'
        BY <1>1, <3>1, <3>2, PromiseKept DEF Heard, Promised, Quieted
    <3>4. Quieted'
        BY <1>1, <1>3, <3>2, QuietKept DEF Heard, Quieted, Promised
    <3>. QED
        BY <3>3, <3>4 DEF Heard, Quieted, Promised
  <2>. QED
      BY <2>1, <2>2
<1>. QED
    BY <1>7, <1>8, <1>9, <1>10, <1>11 DEF Receive, m

LEMMA HeardNext ==
    ASSUME SearchInv, [Next]_vars
    PROVE  Heard'
<1>1. Typed /\ Lined /\ Posted /\ Heard
    BY DEF SearchInv
<1>2. CASE \/ Serve \/ MatchMember
           \/ \E t \in Tickets : Match(t) \/ Outcome(t)
           \/ \E i \in Parties : PartyClosed(i)
           \/ UNCHANGED vars
  <2>1. UNCHANGED <<start, sock, search, quiet, owed>>
      BY <1>2 DEF Serve, MatchMember, Match, Outcome, PartyClosed, vars, clientVars, noteVars
  <2>. QED
      BY <1>1, <2>1, StillHeard
<1>. QED
    BY <1>1, <1>2, CallsHeard, ResumeHeard, ClientHeard, ReceiveHeard DEF Next, Resume

-----------------------------------------------------------------------------
LEMMA InvInit == Init => SearchInv
<1>. SUFFICES ASSUME Init PROVE SearchInv
    OBVIOUS
<1>1. Typed
    BY TypedInit
<1>2. /\ up = <<>> /\ down = <<>> /\ DOMAIN up = {} /\ DOMAIN down = {} /\ pool = {}
      /\ search.ticket = 0 /\ ~search.on /\ ~owed
      /\ \A p \in Slots : start[p] = Free
      /\ \A t \in Tickets : match[t] = "none"
      /\ \A i \in Parties : rooms[i] = "none"
    BY DEF Init, NoSearch
<1>3. Lined
    BY <1>2, FreeCall DEF Lined, At
<1>4. Pooled /\ Posted
    BY <1>2 DEF Pooled, Posted
<1>5. Followed
    BY <1>2 DEF Followed, TicketsAccounted, Named
<1>6. Heard
    BY <1>2, FreeCall DEF Heard, Quieted, Promised
<1>. QED
    BY <1>1, <1>3, <1>4, <1>5, <1>6 DEF SearchInv

LEMMA InvNext == SearchInv /\ [Next]_vars => SearchInv'
    BY TypedNext, LinedNext, PooledNext, PostedNext, FollowedNext, HeardNext DEF SearchInv

LEMMA InvHolds == Spec => []SearchInv
    BY InvInit, InvNext, PTL DEF Spec

(* Every reachable state of the client, the server and the traffic between   *)
(* them is well typed, and without a connection nothing is queued or sent.   *)
THEOREM SearchTypeCorrect == Spec => []SearchTypeOK
<1>1. SearchInv => SearchTypeOK
    BY DEF SearchInv, Typed
<1>. QED
    BY <1>1, InvHolds, PTL

(* No ghost ticket (matchmaker_api_client.gd:90): a ticket in the pool is    *)
(* the one a search waits on, is on its way to the client or is being        *)
(* withdrawn, however starts, cancels, lost sockets and answers interleave,  *)
(* but for the losses the property names.                                   *)
THEOREM TicketsHold == Spec => []TicketsAccounted
<1>1. SearchInv => TicketsAccounted
    BY DEF SearchInv, Followed, Named
<1>. QED
    BY <1>1, InvHolds, PTL

(* The game's last word holds, and a search it asked for is on, under way or *)
(* has ended with a signal (match_found, matchmaking_failed and the others   *)
(* of matchmaker_api_client.gd).                                            *)
THEOREM UserHolds == Spec => []UserIsAnswered
<1>1. SearchInv => UserIsAnswered
  <2>1. SUFFICES ASSUME SearchInv PROVE UserIsAnswered
      OBVIOUS
  <2>2. ASSUME NEW p \in Slots, Promising(start[p]) PROVE p \in Suspended(Searches)
    <3>1. start[p].op \in Searches
        BY <2>2 DEF Promising, Searches
    <3>2. ~At(p, "idle")
        BY <2>1, <3>1, FreeCall DEF SearchInv, Lined, CallOf, At, Searches
    <3>. QED
        BY <3>1, <3>2 DEF Suspended
  <2>. QED
      BY <2>1, <2>2 DEF SearchInv, Heard, UserIsAnswered, Quieted, Promised
<1>. QED
    BY <1>1, InvHolds, PTL

=============================================================================
