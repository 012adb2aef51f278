------------------------------- MODULE Limits -------------------------------
(***************************************************************************)
(* The limits the runtime keeps in memory and the requests they guard:     *)
(* friend requests by id or name (the hook of friends_limits.go) and by    *)
(* code (friend_code.go), party chat and its block check (chat_limits.go,  *)
(* block_list.go), and crash reports with their window and daily caps      *)
(* (crash_report.go).                                                      *)
(*                                                                         *)
(* A request is a process with one action per Nakama call; what it does    *)
(* between two calls belongs to the first of them.  Time is counted in     *)
(* ticks, and a moment is kept as the ticks elapsed since, up to the age   *)
(* where it no longer counts.                                              *)
(***************************************************************************)
EXTENDS Integers, FiniteSets, Sequences

CONSTANTS
    Users,
    Callers,        \* users who send the requests
    Members,        \* active members of the party whose chat is followed
    AddLimit, AddWindow,        \* friendCodeRateLimitCount and its window
    PendingCap,                 \* maxPendingOutgoingFriendRequests
    ReportLimit, ReportWindow,  \* crashReportUserLimit and its window
    ServerCap, GlobalCap,       \* reports a day from servers, and from players
    DayLength,                  \* ticks in a day
    NSlots,         \* requests that can be in flight at once
    None,           \* no user: a game server
    MaxEvents       \* bound: requests, other players' changes, restarts

ASSUME LimitsAssumption ==
    /\ IsFiniteSet(Users) /\ Callers \subseteq Users /\ Members \subseteq Users /\ None \notin Users
    /\ {AddLimit, PendingCap, ReportLimit, ServerCap, GlobalCap} \subseteq Nat \ {0}
    /\ {AddWindow, ReportWindow, DayLength} \subseteq Nat \ {0} /\ ReportWindow < DayLength
    /\ NSlots \in Nat /\ MaxEvents \in Nat

VARIABLES
    invites,        \* friend requests: <<sender, receiver>>
    friends,        \* mutual friends, both ways round
    blocks,         \* <<who blocks, whom>>
    stamps,         \* kind of request -> user -> ages of the calls it counts, oldest first
    dayKnown,       \* the daily counters are those of this day
    counters,       \* reports counted today, from servers and from players
    hour,           \* ticks of this day
    proc,           \* the requests
    accepts,        \* kind -> user -> ages of the calls that were let through
    reported,       \* user -> age of the reservation -> reports stored
    kept,           \* reports reserved this day and not given back
    crossed,        \* reservations of an earlier day given back this day
    mixed,          \* user -> reservations given back in place of another
    events          \* requests, changes and restarts so far

socialVars == <<invites, friends, blocks>>
addVars == <<stamps, accepts>>
reportVars == <<dayKnown, counters, hour, reported, kept, crossed, mixed>>
vars == <<socialVars, addVars, reportVars, proc, events>>

Slots == 1 .. NSlots
Kinds == {"add", "chat", "report"}
Sources == {"server", "player"}
Window == [k \in Kinds |-> IF k = "report" THEN ReportWindow ELSE AddWindow]
Limit == [k \in Kinds |-> IF k = "report" THEN ReportLimit ELSE AddLimit]
Cap == [s \in Sources |-> IF s = "server" THEN ServerCap ELSE GlobalCap]
Ages == 0 .. ReportWindow
SourceOf(u) == IF u = None THEN "server" ELSE "player"

Process == [op : {"none", "add", "chat", "report"},
            pc : {"idle", "incoming", "resolve", "count", "add", "channel", "roster",
                  "lists", "deliver", "store"},
            u : Users \cup {None},
            ids : SUBSET Users, names : SUBSET Users,   \* whom to add, by id or by name
            new : Nat,              \* of those, how many are new requests
            seen : Nat,             \* the pending list when it was let on to the add
            todo : SUBSET Users,    \* members whose block lists are still to read
            blockers : SUBSET Users,\* members who had blocked the sender from the start
            open : BOOLEAN,         \* a check failed and let the message pass
            age : 0 .. ReportWindow + 1,    \* ticks since the reservation
            today : BOOLEAN]        \* the reservation is of this day

Idle == [op |-> "none", pc |-> "idle", u |-> None, ids |-> {}, names |-> {}, new |-> 0,
         seen |-> 0, todo |-> {}, blockers |-> {}, open |-> FALSE, age |-> 0,
         today |-> FALSE]

At(p, pc) == proc[p].pc = pc
Set(p, r) == proc' = [proc EXCEPT ![p] = r]
Stop(p) == Set(p, Idle)
InBound == events < MaxEvents /\ events' = events + 1

CanBegin(p) == At(p, "idle") /\ (\A q \in 1 .. p - 1 : ~At(q, "idle")) /\ InBound

-----------------------------------------------------------------------------
(* The sliding window: friendsLimiter and the per-user half of              *)
(* crashReportLimiter.  Calls are stamped in order, so that the stale       *)
(* stamps are the first ones: as many as precede one in the window.         *)

Stale(ages, k) == CHOOSE n \in 0 .. Len(ages) :
                     /\ \A i \in 1 .. n : ages[i] > Window[k]
                     /\ n < Len(ages) => ages[n + 1] <= Window[k]

Within(ages, k) == SubSeq(ages, Stale(ages, k) + 1, Len(ages))
Full(k, u) == Len(Within(stamps[k][u], k)) >= Limit[k]

(* An accepted call is stamped, after stale stamps are dropped; a refused   *)
(* one only drops them.                                                     *)
Stamped(k, u) == stamps' = [stamps EXCEPT ![k][u] = Append(Within(@, k), 0)]

(* Mutant: a refused call is stamped like an accepted one. *)
PrunedStamped(k, u) == Stamped(k, u)

Pruned(k, u) == stamps' = [stamps EXCEPT ![k][u] = Within(@, k)]

Accepted(k, u) == accepts' = [accepts EXCEPT ![k][u] = Append(@, 0)]

(* Let through to label pc, or refused. *)
Limited(p, k, r) ==
    LET u == r.u IN
    IF Full(k, u) THEN Pruned(k, u) /\ Stop(p) /\ UNCHANGED accepts
                  ELSE Stamped(k, u) /\ Accepted(k, u) /\ Set(p, r)

-----------------------------------------------------------------------------
(* Friend requests. *)

Incoming(u) == {v \in Users : <<v, u>> \in invites}
Pending(u) == Cardinality({v \in Users : <<u, v>> \in invites})

(* Of the targets of a request, those it adds to the pending list: names    *)
(* are new requests whatever they are, ids unless they invited the caller.  *)
Asking(r) == Cardinality(r.names) + Cardinality(r.ids \ Incoming(r.u))

LetOn(p) == Set(p, [proc[p] EXCEPT !.pc = "add", !.seen = Pending(proc[p].u)])

AddBegin(p, u, ids, names) ==
    /\ CanBegin(p) /\ ids \cup names # {} /\ ids \cap names = {} /\ u \notin ids \cup names
    /\ Set(p, [Idle EXCEPT !.op = "add", !.pc = "incoming", !.u = u, !.ids = ids, !.names = names])
    /\ UNCHANGED <<socialVars, addVars, reportVars>>

(* The hook: an add of somebody who invited the caller is an accept, exempt *)
(* from both limits.                                                        *)
AddIncoming(p) ==
    LET r == proc[p]
        new == Asking(r)
    IN
    /\ At(p, "incoming")
    /\ \/ IF new = 0 THEN LetOn(p) /\ UNCHANGED addVars
                     ELSE Limited(p, "add", [r EXCEPT !.pc = "count", !.new = new])
       \/ r.ids # {} /\ Stop(p) /\ UNCHANGED addVars
    /\ UNCHANGED <<socialVars, reportVars, events>>

(* add_friend_by_code counts the attempt before it looks the code up. *)
CodeBegin(p, u) ==
    /\ CanBegin(p)
    /\ Limited(p, "add", [Idle EXCEPT !.op = "add", !.pc = "resolve", !.u = u, !.new = 1])
    /\ UNCHANGED <<socialVars, reportVars>>

(* Mutant: the cap is left to the hook, which a runtime call does not fire. *)
CodeResolveUncapped(p) ==
    /\ At(p, "resolve")
    /\ \/ \E v \in Users \ {proc[p].u} :
            Set(p, [proc[p] EXCEPT !.pc = "add", !.ids = {v}, !.seen = Pending(proc[p].u)])
       \/ Stop(p)
    /\ UNCHANGED <<socialVars, addVars, reportVars, events>>

(* The code names a player, or nobody, or the caller, or the lookup fails. *)
CodeResolve(p) ==
    /\ At(p, "resolve")
    /\ \/ \E v \in Users \ {proc[p].u} : Set(p, [proc[p] EXCEPT !.pc = "count", !.ids = {v}])
       \/ Stop(p)
    /\ UNCHANGED <<socialVars, addVars, reportVars, events>>

(* Over the cap, or the list could not be read: the request is refused. *)
AddCount(p) ==
    LET r == proc[p] IN
    /\ At(p, "count")
    /\ \/ Pending(r.u) + r.new <= PendingCap /\ LetOn(p)
       \/ Stop(p)
    /\ UNCHANGED <<socialVars, addVars, reportVars, events>>

Blocked(u, v) == {<<u, v>>, <<v, u>>} \cap blocks # {}

(* Nakama's friend add: one transaction for all targets. *)
AddLand(p) ==
    LET r == proc[p]
        targets == {v \in r.ids \cup r.names : ~Blocked(r.u, v) /\ <<r.u, v>> \notin friends}
        mutual == targets \cap Incoming(r.u)
    IN
    /\ At(p, "add") /\ Stop(p)
    /\ \/ /\ invites' = (invites \cup ({r.u} \X (targets \ mutual))) \ (mutual \X {r.u})
          /\ friends' = friends \cup ({r.u} \X mutual) \cup (mutual \X {r.u})
       \/ UNCHANGED <<invites, friends>>
    /\ UNCHANGED <<blocks, addVars, reportVars, events>>

-----------------------------------------------------------------------------
(* Other players: they invite, answer, withdraw, block and unblock. *)

Invite(u, v) ==
    /\ u # v /\ ~Blocked(u, v) /\ <<u, v>> \notin friends \cup invites /\ <<v, u>> \notin invites
    /\ InBound
    /\ invites' = invites \cup {<<u, v>>}
    /\ UNCHANGED <<friends, blocks, addVars, reportVars, proc>>

(* FriendsDelete takes whatever row there is: an invitation either way, a   *)
(* friendship, or a block of the caller's own.  unblock_user is this call.  *)
FriendsDelete(u, v) ==
    /\ {<<u, v>>, <<v, u>>} \cap (invites \cup friends) # {} \/ <<u, v>> \in blocks
    /\ InBound
    /\ invites' = invites \ {<<u, v>>, <<v, u>>}
    /\ friends' = friends \ {<<u, v>>, <<v, u>>}
    /\ blocks' = blocks \ {<<u, v>>}
    /\ proc' = [q \in Slots |-> IF proc[q].u = v THEN [proc[q] EXCEPT !.blockers = @ \ {u}] ELSE proc[q]]
    /\ UNCHANGED <<addVars, reportVars>>

(* block_user replaces any row between the two. *)
Block(u, v) ==
    /\ <<u, v>> \notin blocks
    /\ InBound
    /\ blocks' = blocks \cup {<<u, v>>}
    /\ invites' = invites \ {<<u, v>>, <<v, u>>}
    /\ friends' = friends \ {<<u, v>>, <<v, u>>}
    /\ UNCHANGED <<addVars, reportVars, proc>>

-----------------------------------------------------------------------------
(* Party chat. *)

BlockersOf(u) == {v \in Members \ {u} : <<v, u>> \in blocks}

ChatBegin(p, u) ==
    /\ CanBegin(p) /\ u \in Members
    /\ Set(p, [Idle EXCEPT !.op = "chat", !.pc = "channel", !.u = u, !.blockers = BlockersOf(u)])
    /\ UNCHANGED <<socialVars, addVars, reportVars>>

FailsOpen(p) == Set(p, [proc[p] EXCEPT !.pc = "deliver", !.open = TRUE])

(* A channel that cannot be looked up passes as one that is not a party's. *)
ChatChannel(p) ==
    LET r == proc[p] IN
    /\ At(p, "channel")
    /\ \/ Limited(p, "chat", [r EXCEPT !.pc = "roster"])
       \/ FailsOpen(p) /\ UNCHANGED addVars
    /\ UNCHANGED <<socialVars, reportVars, events>>

ChatRoster(p) ==
    LET others == Members \ {proc[p].u} IN
    /\ At(p, "roster")
    /\ \/ Set(p, [proc[p] EXCEPT !.pc = IF others = {} THEN "deliver" ELSE "lists", !.todo = others])
       \/ FailsOpen(p)
    /\ UNCHANGED <<socialVars, addVars, reportVars, events>>

(* Mutant: the first list without a block of the sender decides. *)
ChatListFirst(p, v) ==
    /\ At(p, "lists") /\ v \in proc[p].todo
    /\ IF <<v, proc[p].u>> \in blocks THEN Stop(p) ELSE Set(p, [proc[p] EXCEPT !.pc = "deliver"])
    /\ UNCHANGED <<socialVars, addVars, reportVars, events>>

(* One member's block list after another. *)
ChatList(p, v) ==
    LET r == [proc[p] EXCEPT !.todo = @ \ {v}] IN
    /\ At(p, "lists") /\ v \in proc[p].todo
    /\ \/ IF <<v, r.u>> \in blocks THEN Stop(p)
          ELSE Set(p, IF r.todo = {} THEN [r EXCEPT !.pc = "deliver"] ELSE r)
       \/ FailsOpen(p)
    /\ UNCHANGED <<socialVars, addVars, reportVars, events>>

ChatDeliver(p) ==
    /\ At(p, "deliver")
    /\ Stop(p)
    /\ UNCHANGED <<socialVars, addVars, reportVars, events>>

-----------------------------------------------------------------------------
(* Crash reports. *)

(* The first reservation of a day finds its counters empty. *)
Today == IF dayKnown THEN counters ELSE [s \in Sources |-> 0]

(* reserve counts a report against every cap that applies, or none. *)
ReportBegin(p, u) ==
    LET s == SourceOf(u)
        full == Today[s] >= Cap[s]
        refused == full \/ (u # None /\ Full("report", u))
    IN
    /\ CanBegin(p)
    /\ dayKnown' = TRUE
    /\ counters' = [Today EXCEPT ![s] = IF refused THEN @ ELSE @ + 1]
    /\ kept' = [kept EXCEPT ![s] = IF refused THEN @ ELSE @ + 1]
    /\ IF refused THEN Stop(p)
                  ELSE Set(p, [Idle EXCEPT !.op = "report", !.pc = "store", !.u = u, !.today = TRUE])
    /\ IF u = None \/ full THEN UNCHANGED stamps
       ELSE IF refused THEN Pruned("report", u) ELSE Stamped("report", u)
    /\ UNCHANGED <<socialVars, accepts, hour, reported, crossed, mixed>>

Store(p) ==
    LET r == proc[p] IN
    /\ At(p, "store")
    /\ reported' = IF r.u = None \/ r.age > ReportWindow THEN reported
                   ELSE [reported EXCEPT ![r.u][r.age] = @ + 1]
    /\ Stop(p)
    /\ UNCHANGED <<socialVars, addVars, dayKnown, counters, hour, kept, crossed, mixed, events>>

(* Mutant: a report that was not stored keeps its place in the counter. *)
ReleaseWindowOnly(p) ==
    LET u == proc[p].u IN
    /\ At(p, "store") /\ Stop(p)
    /\ kept' = [kept EXCEPT ![SourceOf(u)] = IF proc[p].today THEN @ - 1 ELSE @]
    /\ IF u = None THEN UNCHANGED stamps
       ELSE stamps' = [stamps EXCEPT !["report"][u] = IF @ = <<>> THEN @ ELSE SubSeq(@, 1, Len(@) - 1)]
    /\ UNCHANGED <<socialVars, accepts, dayKnown, counters, hour, reported, crossed, mixed, events>>

(* A report that could not be stored is given back: one of whatever day the *)
(* counter is at, and the caller's last stamp, whosever it is.              *)
Release(p) ==
    LET r == proc[p]
        u == r.u
        s == SourceOf(u)
        ages == stamps["report"][u]
        own == ages # <<>> /\ ages[Len(ages)] = r.age
    IN
    /\ At(p, "store") /\ Stop(p)
    /\ counters' = [counters EXCEPT ![s] = IF @ > 0 THEN @ - 1 ELSE @]
    /\ kept' = [kept EXCEPT ![s] = IF r.today THEN @ - 1 ELSE @]
    /\ crossed' = [crossed EXCEPT ![s] = IF r.today \/ ~dayKnown THEN @ ELSE @ + 1]
    /\ IF u = None THEN UNCHANGED <<stamps, mixed>>
       ELSE /\ stamps' = [stamps EXCEPT !["report"][u] = IF @ = <<>> THEN @ ELSE SubSeq(@, 1, Len(@) - 1)]
            /\ mixed' = [mixed EXCEPT ![u] = IF own \/ ages = <<>> THEN @ ELSE @ + 1]
    /\ UNCHANGED <<socialVars, accepts, dayKnown, hour, reported, events>>

-----------------------------------------------------------------------------
(* Time, and the loss of everything the runtime holds in memory. *)

Aged(ages, cap) == [i \in DOMAIN ages |-> IF ages[i] < cap THEN ages[i] + 1 ELSE cap]

Tick ==
    LET midnight == hour + 1 = DayLength IN
    /\ hour' = IF midnight THEN 0 ELSE hour + 1
    /\ dayKnown' = (dayKnown /\ ~midnight)
    /\ IF midnight THEN kept' = [s \in Sources |-> 0] /\ crossed' = [s \in Sources |-> 0]
                   ELSE UNCHANGED <<kept, crossed>>
    /\ stamps' = [k \in Kinds |-> [u \in Users |-> Aged(stamps[k][u], Window[k] + 1)]]
    /\ accepts' = [k \in Kinds |-> [u \in Users |-> Aged(accepts[k][u], Window[k] + 1)]]
    /\ reported' = [u \in Users |-> [a \in Ages |-> IF a = 0 THEN 0 ELSE reported[u][a - 1]]]
    /\ proc' = [p \in Slots |-> IF ~At(p, "store") THEN proc[p]
                                ELSE [proc[p] EXCEPT !.age = IF @ <= ReportWindow THEN @ + 1 ELSE @,
                                                     !.today = @ /\ ~midnight]]
    /\ UNCHANGED <<socialVars, counters, mixed, events>>

NoAges == [u \in Users |-> <<>>]
NoReports == [u \in Users |-> [a \in Ages |-> 0]]
Zero == [s \in Sources |-> 0]

Restart ==
    /\ InBound
    /\ stamps' = [k \in Kinds |-> NoAges] /\ accepts' = [k \in Kinds |-> NoAges]
    /\ reported' = NoReports /\ mixed' = [u \in Users |-> 0]
    /\ dayKnown' = FALSE /\ counters' = Zero /\ kept' = Zero /\ crossed' = Zero
    /\ proc' = [p \in Slots |-> Idle]
    /\ UNCHANGED <<socialVars, hour>>

Init ==
    /\ invites = {} /\ friends = {} /\ blocks = {}
    /\ stamps = [k \in Kinds |-> NoAges] /\ accepts = [k \in Kinds |-> NoAges]
    /\ reported = NoReports /\ mixed = [u \in Users |-> 0]
    /\ dayKnown = FALSE /\ counters = Zero /\ kept = Zero /\ crossed = Zero
    /\ proc = [p \in Slots |-> Idle] /\ hour = 0 /\ events = 0

Next ==
    \/ \E p \in Slots :
         \/ AddIncoming(p) \/ CodeResolve(p) \/ AddCount(p) \/ AddLand(p)
         \/ ChatChannel(p) \/ ChatRoster(p) \/ ChatDeliver(p) \/ Store(p) \/ Release(p)
         \/ \E v \in Members : ChatList(p, v)
         \/ \E u \in Callers : CodeBegin(p, u) \/ ChatBegin(p, u)
         \/ \E u \in Callers, ids, names \in SUBSET Users : AddBegin(p, u, ids, names)
         \/ \E u \in Callers \cup {None} : ReportBegin(p, u)
    \/ \E u \in Users \ Callers, v \in Callers : Invite(u, v) \/ FriendsDelete(u, v) \/ Block(u, v)
    \/ Tick \/ Restart

Spec == Init /\ [][Next]_vars

-----------------------------------------------------------------------------
LimitsTypeOK ==
    /\ {invites, friends, blocks} \subseteq SUBSET (Users \X Users)
    /\ \A u \in Users, v \in Users :
         /\ Cardinality({<<u, v>>, <<v, u>>} \cap invites) <= 1
         /\ {<<u, v>>, <<v, u>>} \cap friends # {} => {<<u, v>>, <<v, u>>} \cap (invites \cup blocks) = {}
    /\ \A k \in Kinds, u \in Users : Len(stamps[k][u]) <= Limit[k]
    /\ dayKnown \in BOOLEAN /\ hour \in 0 .. DayLength - 1
    /\ \A s \in Sources : counters[s] \in 0 .. Cap[s]
    /\ proc \in [Slots -> Process] /\ events \in 0 .. MaxEvents

(* "A caller can issue at most _FRIEND_CODE_RATE_LIMIT_COUNT add-by-        *)
(* username calls in any _FRIEND_CODE_RATE_LIMIT_WINDOW seconds"            *)
(* (friends_limits.go:23) and "A caller with 50 unresolved outgoing         *)
(* requests can't issue new ones" (friends_limits.go:17), by name, id or    *)
(* code: no window, both its ends counted, holds more accepted calls than   *)
(* the limit, and the pending list only grows past its cap by a request     *)
(* that was overtaken between its check and the add: the list has grown     *)
(* since the request was let on, or more of its targets are new than it     *)
(* counted, because an invitation to the caller has gone.                   *)
InAddWindow(k, u) == Cardinality({i \in DOMAIN accepts[k][u] : accepts[k][u][i] <= Window[k]})

Overtaken(r) == Pending(r.u) > r.seen \/ Asking(r) > r.new

AddsBounded ==
    [][/\ \A k \in {"add", "chat"}, u \in Users : InAddWindow(k, u)' <= AddLimit
       /\ \A u \in Callers :
            Pending(u)' > Pending(u) /\ Pending(u)' > PendingCap =>
                \E p \in Slots : At(p, "add") /\ proc[p].u = u /\ Overtaken(proc[p]) /\ At(p, "idle")']_vars

(* "the storage bound is the sum of both caps" (crash_report.go:94) and     *)
(* "release gives back a reservation whose report was not stored" (:508):   *)
(* the counters are the reports of the day, neither more nor fewer but for  *)
(* reservations of an earlier day given back in it, so a day exceeds its    *)
(* cap only by those; and a player exceeds the window only by               *)
(* reservations that took another's stamp with them.                        *)
InWindow(u) ==
    Cardinality(UNION {{a} \X (1 .. reported[u][a]) : a \in Ages})
      + Cardinality({p \in Slots : At(p, "store") /\ proc[p].u = u /\ proc[p].age <= ReportWindow})

ReportsBounded ==
    /\ \A s \in Sources : dayKnown => /\ kept[s] - crossed[s] <= counters[s]
                                      /\ counters[s] <= kept[s]
    /\ \A s \in Sources : kept[s] <= Cap[s] + crossed[s]
    /\ \A u \in Users : InWindow(u) <= ReportLimit + mixed[u]

(* "a message is refused when another active party member has blocked the  *)
(* sender" (chat_limits.go:23), but "The block check fails open" (:104):    *)
(* a message delivered with every check answered was blocked by nobody who  *)
(* had blocked its sender before it was sent and still does.                *)
BlockedUnheard ==
    \A p \in Slots : At(p, "deliver") /\ ~proc[p].open => proc[p].blockers = {}

=============================================================================
