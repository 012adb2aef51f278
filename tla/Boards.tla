------------------------------- MODULE Boards -------------------------------
(***************************************************************************)
(* One board of one game: the public listing and its cache                 *)
(* (leaderboard_public.go), the records match_end writes and the           *)
(* invalidation that follows them (match_lifecycle.go), the rank           *)
(* get_player_stats takes from the same cache (player_data.go), and the    *)
(* registry that declares the board: register_game and the start of the    *)
(* runtime (per_game_config.go, leaderboards.go).                          *)
(*                                                                         *)
(* A request is a process with one action per database statement or Nakama *)
(* call.  Time is counted in ticks; a moment is kept as the ticks elapsed  *)
(* since, up to the age where nothing tells two ages apart.                *)
(***************************************************************************)
EXTENDS Integers, FiniteSets, Sequences

CONSTANTS
    Players,        \* owner ids, which order records of equal score
    Unlistable,     \* players never listed: probes, accounts without any name
    Leaving,        \* players who may be banned or ask for a deletion
    Asked,          \* players whose stats others ask for
    Matches,
    Results,        \* match -> player -> score, as match_end clamps it to 0 and up
    FirstRecords,   \* player -> record before the first match
    FirstConfigs,   \* configurations the runtime may start with
    Configs,        \* configurations an operator registers
    TTL, StaleTTL, RetryInterval, ReadTimeout,
    PageSize, MaxPages, MaxListed,
    NSlots,         \* requests that can be in flight at once
    None,           \* no record, board, copy or moment
    MaxEvents       \* bound: requests, failed calls, bans and deletions, restarts

Operators == {"best", "set", "incr", "decr"}
Settings == [sort : {"asc", "desc"}, operator : Operators]

(* A game's configuration: its version and the board it declares, if any. *)
Config == [version : Nat, board : Settings \cup {None}]

ASSUME BoardsAssumption ==
    /\ Players \subseteq Nat /\ IsFiniteSet(Players) /\ Unlistable \cup Leaving \cup Asked \subseteq Players
    /\ \A m \in Matches : DOMAIN Results[m] \subseteq Players /\ \A u \in DOMAIN Results[m] : Results[m][u] \in Nat
    /\ FirstRecords \in [Players -> Int \cup {None}]
    /\ FirstConfigs \cup Configs \subseteq Config
    /\ {TTL, StaleTTL, RetryInterval, ReadTimeout, PageSize, MaxPages, MaxListed} \subseteq Nat \ {0}
    /\ ReadTimeout < RetryInterval /\ ReadTimeout < TTL /\ TTL < StaleTTL
    /\ NSlots \in Nat /\ MaxEvents \in Nat /\ None \notin Int \cup [player : Players, score : Int]

VARIABLES
    stored,         \* the game's row in Postgres
    cached,         \* the registry's copy of it
    board,          \* the board's settings in Nakama, or None
    record,         \* player -> record on the board
    hidden,         \* why a player may not be listed now, or "no"
    hiddenAge,      \* ticks since then
    erasing,        \* player -> deletion requests that have yet to delete the record
    erased,         \* players whose record a deletion has removed
    copy,           \* the cached listing
    copyAge,        \* ticks since its read began
    current,        \* whether it was read in the present generation
    failAge,        \* ticks since the last failed read began, if none succeeded since
    proc,           \* the requests
    ended,          \* matches whose match_end was answered with success
    attempts,       \* calls of match_end about each match
    astray,         \* registrations overlapped, or one failed though its row landed
    registered,     \* the configuration last answered as registered
    unsure,         \* a record landed though its write failed, and no invalidation since
    moved,          \* players hidden, shown again or erased since the cached read began
    events          \* requests, failures, bans, deletions and restarts so far

registryVars == <<stored, cached, board, astray, registered>>
matchVars == <<record, erased, ended, attempts, unsure>>
cacheVars == <<copy, copyAge, current, failAge, moved>>
playerVars == <<hidden, hiddenAge, erasing>>
vars == <<registryVars, matchVars, cacheVars, playerVars, proc, events>>

Slots == 1 .. NSlots
MaxAge == StaleTTL + ReadTimeout
ReadLabels == {"settings", "page", "accounts", "pending"}
Labels == ReadLabels \cup
    {"idle", "check", "record", "lock", "answer", "write", "history", "upsert", "cache", "create"}

Reasons == {"no", "banned", "queued", "nameless", "deleted"}
Row == [player : Players, score : Int]
Entry == [player : Players, score : Int, rank : Nat]

Process == [op : {"none", "list", "stats", "end", "register"}, pc : Labels,
            target : Players \cup {None},       \* whose stats
            since : 0 .. ReadTimeout,           \* ticks since the read began
            current : BOOLEAN,                  \* no invalidation since the read began
            moved : SUBSET Players,             \* hidden, shown or erased since the read began
            pages : 0 .. MaxPages, more : BOOLEAN, cursor : Row \cup {None},
            batch : Seq(Row), listed : Seq(Row),
            got : BOOLEAN,                      \* the answer is the cached listing, not an error
            match : Matches \cup {None}, left : SUBSET Players,
            recorded : BOOLEAN, failed : BOOLEAN,
            config : Config \cup {None}]

Idle == [op |-> "none", pc |-> "idle", target |-> None, since |-> 0, current |-> FALSE,
         moved |-> {}, pages |-> 0, more |-> FALSE, cursor |-> None, batch |-> <<>>,
         listed |-> <<>>, got |-> FALSE, match |-> None, left |-> {}, recorded |-> FALSE,
         failed |-> FALSE, config |-> None]

At(p, pc) == proc[p].pc = pc
Reading(p) == proc[p].pc \in ReadLabels
Set(p, r) == proc' = [proc EXCEPT ![p] = r]
InBound == events < MaxEvents /\ events' = events + 1
Fault == InBound
Older(age, cap) == IF age < cap THEN age + 1 ELSE cap

Begin(p, r) ==
    /\ At(p, "idle") /\ \A q \in 1 .. p - 1 : ~At(q, "idle")   \* slots are alike
    /\ InBound
    /\ Set(p, r)

-----------------------------------------------------------------------------
(* The order of a board: by score, then by owner. *)

Better(s, a, b) == IF s = "desc" THEN a > b ELSE a < b
Before(a, b) == \/ Better(board.sort, a.score, b.score)
                \/ a.score = b.score /\ a.player < b.player

Sorted(S) ==
    [i \in 1 .. Cardinality(S) |->
        CHOOSE r \in S : Cardinality({x \in S : Before(x, r)}) = i - 1]

Rows == {[player |-> u, score |-> record[u]] : u \in {v \in Players : record[v] # None}}

First(s, n) == SubSeq(s, 1, IF Len(s) < n THEN Len(s) ELSE n)

(* Equal scores share the place of their first; the next one takes its own: *)
(* 1, 2, 2, 4.                                                              *)
Place(s, i) ==
    CHOOSE j \in 1 .. i : /\ \A k \in j .. i : s[k].score = s[i].score
                          /\ j > 1 => s[j - 1].score # s[i].score

Ranked(s) ==
    [i \in DOMAIN s |-> [player |-> s[i].player, score |-> s[i].score, rank |-> Place(s, i)]]

(* What a record becomes when a score is written. *)
Combined(old, score) ==
    IF old = None THEN IF board.operator = "decr" THEN -score ELSE score
    ELSE
    CASE board.operator = "set" -> score
      [] board.operator = "incr" -> old + score
      [] board.operator = "decr" -> old - score
      [] OTHER -> IF Better(board.sort, score, old) THEN score ELSE old

-----------------------------------------------------------------------------
(* Requests for the listing, and for a player's stats. *)

(* A request names a board that the cached configuration declares. *)
ListBegin(p) ==
    /\ cached.board # None
    /\ Begin(p, [Idle EXCEPT !.op = "list", !.pc = "lock"])
    /\ UNCHANGED <<registryVars, matchVars, cacheVars, playerVars>>

StatsBegin(p, u) ==
    /\ Begin(p, [Idle EXCEPT !.op = "stats", !.target = u, !.pc = "check"])
    /\ UNCHANGED <<registryVars, matchVars, cacheVars, playerVars>>

(* Another player's stats are empty while their deletion is pending; a      *)
(* failed check lets them through, and so does asking for one's own.        *)
StatsCheck(p) ==
    /\ At(p, "check")
    /\ \/ hidden[proc[p].target] = "queued" /\ Set(p, Idle)
       \/ Set(p, [proc[p] EXCEPT !.pc = "record"])
    /\ UNCHANGED <<registryVars, matchVars, cacheVars, playerVars, events>>

(* Only a player with a record can have a rank: it is read with the listing. *)
StatsRecord(p) ==
    /\ At(p, "record")
    /\ \/ record[proc[p].target] # None /\ Set(p, [Idle EXCEPT !.op = "list", !.pc = "lock"])
       \/ Set(p, Idle)
    /\ UNCHANGED <<registryVars, matchVars, cacheVars, playerVars, events>>

Locked == \E p \in Slots : Reading(p)
Fresh == copy # None /\ current /\ copyAge < TTL
Answered(p, got) == Set(p, [Idle EXCEPT !.op = "list", !.pc = "answer", !.got = got])

(* get holds the entry's mutex from here to the end of a read. *)
ServeCopy(p) ==
    /\ At(p, "lock") /\ ~Locked
    /\ Fresh
    /\ Answered(p, TRUE)
    /\ UNCHANGED <<registryVars, matchVars, cacheVars, playerVars, events>>

MayRead == failAge # None => failAge >= RetryInterval

(* Mutant: a read does not take the mutex. *)
StartReadUnlocked(p) ==
    /\ At(p, "lock") /\ ~Fresh /\ MayRead
    /\ Set(p, [proc[p] EXCEPT !.pc = "settings", !.current = TRUE, !.more = TRUE])
    /\ UNCHANGED <<registryVars, matchVars, cacheVars, playerVars, events>>

StartRead(p) ==
    /\ At(p, "lock") /\ ~Locked /\ ~Fresh /\ MayRead
    /\ Set(p, [proc[p] EXCEPT !.pc = "settings", !.current = TRUE, !.more = TRUE])
    /\ UNCHANGED <<registryVars, matchVars, cacheVars, playerVars, events>>

(* The old copy stands in for a failed read, by its age when the read began. *)
FallBack(since) == copy # None /\ copyAge - since < StaleTTL

BackOff(p) ==
    /\ At(p, "lock") /\ ~Locked /\ ~Fresh /\ ~MayRead
    /\ Answered(p, FallBack(0))
    /\ UNCHANGED <<registryVars, matchVars, cacheVars, playerVars, events>>

(* Mutant: a read runs without a deadline. *)
ReadFailsUntimed(p) ==
    /\ Reading(p) /\ proc[p].since < ReadTimeout
    /\ Fault
    /\ failAge' = proc[p].since
    /\ Answered(p, FallBack(proc[p].since))
    /\ UNCHANGED <<registryVars, matchVars, playerVars, copy, copyAge, current, moved>>

(* A call fails, the board was never created, or the deadline passes. *)
ReadFails(p) ==
    /\ Reading(p)
    /\ \/ proc[p].since < ReadTimeout /\ ~(At(p, "settings") /\ board = None) /\ Fault
       \/ (proc[p].since = ReadTimeout \/ (At(p, "settings") /\ board = None)) /\ UNCHANGED events
    /\ failAge' = proc[p].since
    /\ Answered(p, FallBack(proc[p].since))
    /\ UNCHANGED <<registryVars, matchVars, playerVars, copy, copyAge, current, moved>>

ReadSettings(p) ==
    /\ At(p, "settings") /\ board # None
    /\ Set(p, [proc[p] EXCEPT !.pc = "page"])
    /\ UNCHANGED <<registryVars, matchVars, cacheVars, playerVars, events>>

(* Mutant: the copy is stamped with the moment the read ended. *)
StoreStampedLate(p, listed) ==
    LET entries == Ranked(First(listed, MaxListed)) IN
    /\ copy' = entries /\ copyAge' = 0 /\ current' = proc[p].current
    /\ failAge' = None /\ moved' = proc[p].moved
    /\ Answered(p, TRUE)

(* Mutant: the copy takes the generation of the moment the read ended. *)
StoreAsCurrent(p, listed) ==
    LET entries == Ranked(First(listed, MaxListed)) IN
    /\ copy' = entries /\ copyAge' = proc[p].since /\ current' = TRUE
    /\ failAge' = None /\ moved' = proc[p].moved
    /\ Answered(p, TRUE)

(* A copy carries the moment and the generation in which its read began. *)
Store(p, listed) ==
    LET entries == Ranked(First(listed, MaxListed)) IN
    /\ copy' = entries /\ copyAge' = proc[p].since /\ current' = proc[p].current
    /\ failAge' = None /\ moved' = proc[p].moved
    /\ Answered(p, TRUE)

(* Another page, unless the listing is full, the board ran out or the page  *)
(* limit is reached.                                                        *)
Collect(p, listed, more, pages) ==
    IF more /\ pages < MaxPages /\ Len(listed) < MaxListed
    THEN /\ Set(p, [proc[p] EXCEPT !.pc = "page", !.listed = listed, !.batch = <<>>])
         /\ UNCHANGED cacheVars
    ELSE Store(p, listed)

(* A page starts after the last record of the one before, wherever the      *)
(* records of that page are now.                                            *)
ReadPage(p) ==
    LET c == proc[p].cursor
        rest == Sorted({r \in Rows : c = None \/ Before(c, r)})
        batch == First(rest, PageSize)
        more == Len(rest) > PageSize
        pages == proc[p].pages + 1
    IN
    /\ At(p, "page")
    /\ IF batch = <<>>
       THEN Store(p, proc[p].listed)
       ELSE /\ Set(p, [proc[p] EXCEPT !.pc = "accounts", !.batch = batch, !.more = more,
                                      !.pages = pages, !.cursor = batch[Len(batch)]])
            /\ UNCHANGED cacheVars
    /\ UNCHANGED <<registryVars, matchVars, playerVars, events>>

(* What is left of a page, which is in the board's order. *)
Kept(s, S) == Sorted({s[i] : i \in {j \in DOMAIN s : s[j].player \in S}})

ReadAccounts(p) ==
    LET shown == {u \in Players \ Unlistable : hidden[u] \in {"no", "queued"}} IN
    /\ At(p, "accounts")
    /\ Set(p, [proc[p] EXCEPT !.pc = "pending", !.batch = Kept(@, shown)])
    /\ UNCHANGED <<registryVars, matchVars, cacheVars, playerVars, events>>

ReadPending(p) ==
    LET kept == Kept(proc[p].batch, {u \in Players : hidden[u] # "queued"}) IN
    /\ At(p, "pending")
    /\ Collect(p, proc[p].listed \o kept, proc[p].more, proc[p].pages)
    /\ UNCHANGED <<registryVars, matchVars, playerVars, events>>

Respond(p) ==
    /\ At(p, "answer")
    /\ Set(p, Idle)
    /\ UNCHANGED <<registryVars, matchVars, cacheVars, playerVars, events>>

-----------------------------------------------------------------------------
(* A game server reports the end of a match. *)

(* It tries again after a failure, or while a call it gave up on still runs. *)
EndBegin(p, m) ==
    /\ m \notin ended
    /\ Begin(p, [Idle EXCEPT !.op = "end", !.match = m, !.left = DOMAIN Results[m], !.pc = "write"])
    /\ attempts' = [attempts EXCEPT ![m] = @ + 1]
    /\ UNCHANGED <<registryVars, record, erased, ended, unsure, cacheVars, playerVars>>

Written(p, u, ok) ==
    LET r == [proc[p] EXCEPT !.left = @ \ {u}, !.recorded = @ \/ ok, !.failed = @ \/ ~ok]
    IN  Set(p, IF r.left = {} THEN [r EXCEPT !.pc = "history"] ELSE r)

(* Mutant: a failed write is only logged. *)
WriteRecordBestEffort(p, u) ==
    /\ At(p, "write") /\ u \in proc[p].left
    /\ \/ /\ board # None
          /\ record' = [record EXCEPT ![u] = Combined(@, Results[proc[p].match][u])]
          /\ Written(p, u, TRUE) /\ UNCHANGED <<unsure, events>>
       \/ Fault /\ Set(p, [proc[p] EXCEPT !.left = @ \ {u}, !.pc = IF proc[p].left = {u} THEN "history" ELSE @])
          /\ UNCHANGED <<record, unsure>>
    /\ UNCHANGED <<registryVars, erased, ended, attempts, cacheVars, playerVars>>

(* A write fails, or lands and fails all the same. *)
WriteRecord(p, u) ==
    LET land == record' = [record EXCEPT ![u] = Combined(@, Results[proc[p].match][u])] IN
    /\ At(p, "write") /\ u \in proc[p].left
    /\ \/ board # None /\ land /\ Written(p, u, TRUE) /\ UNCHANGED <<unsure, events>>
       \/ board # None /\ land /\ Written(p, u, FALSE) /\ unsure' = TRUE /\ Fault
       \/ /\ Written(p, u, FALSE)
          /\ IF board = None THEN UNCHANGED events ELSE Fault
          /\ UNCHANGED <<record, unsure>>
    /\ UNCHANGED <<registryVars, erased, ended, attempts, cacheVars, playerVars>>

(* Every copy, and every read under way, becomes one of an older generation. *)
Invalidated(r) == [q \in Slots |-> [r[q] EXCEPT !.current = FALSE]]

(* The history rows of all players are one write; the invalidation comes    *)
(* after it, and the answer after that.                                     *)
WriteHistory(p) ==
    LET invalidates == proc[p].recorded IN
    /\ At(p, "history")
    /\ \E ok \in BOOLEAN :
         /\ IF ok THEN UNCHANGED events ELSE Fault
         /\ ended' = IF ok /\ ~proc[p].failed THEN ended \cup {proc[p].match} ELSE ended
    /\ proc' = LET r == [proc EXCEPT ![p] = Idle] IN IF invalidates THEN Invalidated(r) ELSE r
    /\ current' = (current /\ ~invalidates)
    /\ unsure' = (unsure /\ ~invalidates)
    /\ UNCHANGED <<registryVars, record, erased, attempts, copy, copyAge, failAge, moved, playerVars>>

-----------------------------------------------------------------------------
(* The registry. *)

RegisterBegin(p, c) ==
    /\ Begin(p, [Idle EXCEPT !.op = "register", !.config = c, !.pc = "upsert"])
    /\ astray' = (astray \/ \E q \in Slots : proc[q].op = "register")
    /\ UNCHANGED <<stored, cached, board, registered, matchVars, cacheVars, playerVars>>

(* The row, then the copy of it. *)
Upsert(p) ==
    /\ At(p, "upsert")
    /\ \/ /\ stored' = proc[p].config
          /\ \/ Set(p, [proc[p] EXCEPT !.pc = "cache"]) /\ UNCHANGED <<astray, events>>
             \/ Set(p, Idle) /\ astray' = TRUE /\ Fault
       \/ Set(p, Idle) /\ Fault /\ UNCHANGED <<stored, astray>>
    /\ UNCHANGED <<cached, board, registered, matchVars, cacheVars, playerVars>>

PutCache(p) ==
    /\ At(p, "cache")
    /\ cached' = proc[p].config
    /\ Set(p, [proc[p] EXCEPT !.pc = "create"])
    /\ UNCHANGED <<stored, board, astray, registered, matchVars, cacheVars, playerVars, events>>

(* Nakama leaves a board that exists as it is. *)
Created(c) == IF board = None THEN c.board ELSE board

(* Mutant: a board that could not be created is only logged. *)
CreateBoardBestEffort(p) ==
    /\ At(p, "create")
    /\ \/ board' = Created(proc[p].config) /\ UNCHANGED events
       \/ Fault /\ UNCHANGED board
    /\ registered' = proc[p].config
    /\ Set(p, Idle)
    /\ UNCHANGED <<stored, cached, astray, matchVars, cacheVars, playerVars>>

(* A board that cannot be created fails the call; the configuration stays. *)
CreateBoard(p) ==
    /\ At(p, "create")
    /\ \/ board' = Created(proc[p].config) /\ registered' = proc[p].config /\ UNCHANGED events
       \/ Fault /\ UNCHANGED <<board, registered>>
    /\ Set(p, Idle)
    /\ UNCHANGED <<stored, cached, astray, matchVars, cacheVars, playerVars>>

(* The runtime starts again: what it held in memory is gone, the registry   *)
(* is read from its table and the boards it declares are created, as far    *)
(* as that succeeds.                                                        *)
Restart ==
    /\ InBound
    /\ proc' = [p \in Slots |-> Idle]
    /\ copy' = None /\ copyAge' = 0 /\ current' = FALSE /\ failAge' = None /\ moved' = {}
    /\ cached' = stored /\ astray' = FALSE
    /\ board' \in {board, Created(stored)}
    /\ unsure' = FALSE
    /\ erasing' = [u \in Players |-> 0]
    /\ UNCHANGED <<stored, registered, record, erased, ended, attempts, hidden, hiddenAge>>

-----------------------------------------------------------------------------
(* Players and time. *)

Moved(u) ==
    /\ moved' = moved \cup {u}
    /\ proc' = [p \in Slots |-> IF Reading(p) THEN [proc[p] EXCEPT !.moved = @ \cup {u}] ELSE proc[p]]

Hides(u, why) ==
    /\ hidden' = [hidden EXCEPT ![u] = why]
    /\ hiddenAge' = [hiddenAge EXCEPT ![u] = 0]

cacheKept == <<copy, copyAge, current, failAge>>

Ban(u) ==
    /\ hidden[u] = "no"
    /\ Hides(u, "banned")
    /\ Moved(u) /\ InBound
    /\ UNCHANGED <<erasing, registryVars, matchVars, cacheKept>>

Unban(u) ==
    /\ hidden[u] = "banned"
    /\ Hides(u, "no")
    /\ Moved(u) /\ InBound
    /\ UNCHANGED <<erasing, registryVars, matchVars, cacheKept>>

(* The player asks for the deletion of the account.  The queue row hides    *)
(* them; the request goes on to the board, unless the write of the row      *)
(* failed though it landed.                                                 *)
RequestDeletion(u) ==
    /\ \/ hidden[u] \in {"no", "nameless"} /\ Hides(u, "queued")
       \/ hidden[u] = "queued" /\ UNCHANGED <<hidden, hiddenAge>>
    /\ \/ erasing' = [erasing EXCEPT ![u] = @ + 1]
       \/ UNCHANGED erasing
    /\ Moved(u) /\ InBound
    /\ UNCHANGED <<registryVars, matchVars, cacheKept>>

Erase(u) ==
    /\ record' = [record EXCEPT ![u] = None]
    /\ erased' = erased \cup {u}

(* The request deletes the player's record, which a failure leaves behind.  *)
(* No cached copy is invalidated.                                           *)
EraseRecord(u) ==
    /\ erasing[u] > 0
    /\ erasing' = [erasing EXCEPT ![u] = @ - 1]
    /\ \/ Erase(u) /\ UNCHANGED events
       \/ Fault /\ UNCHANGED <<record, erased>>
    /\ Moved(u)
    /\ UNCHANGED <<hidden, hiddenAge, registryVars, ended, attempts, unsure, cacheKept>>

(* The queue row goes, because the player cancels or the cron gives the     *)
(* deletion up.  Nothing brings the record back, and the name only the next *)
(* sign-in, unless the request failed to clear it or the record has one of  *)
(* its own.                                                                 *)
CancelDeletion(u) ==
    /\ hidden[u] = "queued"
    /\ \E why \in {"no", "nameless"} : Hides(u, why)
    /\ Moved(u) /\ InBound
    /\ UNCHANGED <<erasing, registryVars, matchVars, cacheKept>>

Rename(u) ==
    /\ hidden[u] = "nameless"
    /\ Hides(u, "no")
    /\ Moved(u) /\ InBound
    /\ UNCHANGED <<erasing, registryVars, matchVars, cacheKept>>

(* The account is deleted with its records: by the cron when its days of    *)
(* grace are over, or by the player at once.                                *)
HardDelete(u) ==
    /\ hidden[u] \in {"no", "nameless", "queued"}
    /\ Hides(u, "deleted") /\ Erase(u)
    /\ Moved(u) /\ InBound
    /\ UNCHANGED <<erasing, registryVars, ended, attempts, unsure, cacheKept>>

PlayerStep(u) ==
    \/ Ban(u) \/ Unban(u) \/ RequestDeletion(u) \/ EraseRecord(u)
    \/ CancelDeletion(u) \/ Rename(u) \/ HardDelete(u)

(* No read outlives its deadline. *)
Tick ==
    /\ \A p \in Slots : Reading(p) => proc[p].since < ReadTimeout
    /\ proc' = [p \in Slots |-> IF Reading(p) THEN [proc[p] EXCEPT !.since = @ + 1] ELSE proc[p]]
    /\ copyAge' = IF copy = None THEN 0 ELSE Older(copyAge, MaxAge)
    /\ failAge' = IF failAge = None THEN None ELSE Older(failAge, RetryInterval)
    /\ hiddenAge' = [u \in Players |-> IF hidden[u] = "no" THEN 0 ELSE Older(hiddenAge[u], MaxAge)]
    /\ UNCHANGED <<registryVars, matchVars, hidden, erasing, copy, current, moved, events>>

-----------------------------------------------------------------------------
Init ==
    /\ stored \in FirstConfigs /\ cached = stored /\ board = stored.board
    /\ record = IF board = None THEN [u \in Players |-> None] ELSE FirstRecords
    /\ hidden = [u \in Players |-> "no"] /\ hiddenAge = [u \in Players |-> 0]
    /\ erasing = [u \in Players |-> 0] /\ erased = {}
    /\ copy = None /\ copyAge = 0 /\ current = FALSE /\ failAge = None /\ moved = {}
    /\ proc = [p \in Slots |-> Idle]
    /\ ended = {} /\ attempts = [m \in Matches |-> 0]
    /\ astray = FALSE /\ registered = None /\ unsure = FALSE /\ events = 0

Take(p) == ServeCopy(p) \/ StartRead(p) \/ BackOff(p)
ReadStep(p) == ReadFails(p) \/ ReadSettings(p) \/ ReadPage(p) \/ ReadAccounts(p) \/ ReadPending(p)
StatsStep(p) == StatsCheck(p) \/ StatsRecord(p)

Next ==
    \/ \E p \in Slots :
         \/ ListBegin(p) \/ Take(p) \/ ReadStep(p) \/ StatsStep(p) \/ Respond(p)
         \/ WriteHistory(p) \/ Upsert(p) \/ PutCache(p) \/ CreateBoard(p)
         \/ \E u \in Asked : StatsBegin(p, u)
         \/ \E u \in Players : WriteRecord(p, u)
         \/ \E m \in Matches : EndBegin(p, m)
         \/ \E c \in Configs : RegisterBegin(p, c)
    \/ \E u \in Leaving : PlayerStep(u)
    \/ Restart \/ Tick

Spec == Init /\ [][Next]_vars

(* Time passes and a read's deadline is kept, though none of its calls need *)
(* ever answer; Go's mutex hands itself to a waiter that has waited long.   *)
Fairness ==
    /\ WF_vars(Tick)
    /\ \A p \in Slots : /\ WF_vars(proc[p].since = ReadTimeout /\ ReadFails(p))
                       /\ WF_vars(StatsStep(p)) /\ SF_vars(Take(p))

FairSpec == Spec /\ Fairness

-----------------------------------------------------------------------------
BoardsTypeOK ==
    /\ stored \in Config /\ cached \in Config /\ board \in Settings \cup {None}
    /\ record \in [Players -> Int \cup {None}]
    /\ hidden \in [Players -> Reasons] /\ hiddenAge \in [Players -> 0 .. MaxAge]
    /\ erasing \in [Players -> Nat] /\ erased \subseteq Players
    /\ copy \in Seq(Entry) \cup {None} /\ copyAge \in 0 .. MaxAge /\ current \in BOOLEAN
    /\ failAge \in 0 .. RetryInterval \cup {None} /\ moved \subseteq Players
    /\ proc \in [Slots -> Process] /\ Cardinality({p \in Slots : Reading(p)}) <= 1
    /\ ended \subseteq Matches /\ attempts \in [Matches -> Nat]
    /\ astray \in BOOLEAN /\ registered \in Config \cup {None} /\ unsure \in BOOLEAN
    /\ events \in 0 .. MaxEvents

(* "match_end calls it after writing scores: a finished match shows on the *)
(* website, in the game, and in get_player_stats' rank on the next         *)
(* request" (leaderboard_public.go:320-322): whatever reads, writes and    *)
(* invalidations overlapped, a copy of the present generation has the      *)
(* records as they are on the board now, in its order, each player once    *)
(* and with a rank one above the number of listed players with a better    *)
(* score; and when nobody was hidden, shown or erased since its read       *)
(* began, it leaves out only who may not be listed or is past the page     *)
(* limit.  A deletion tells the cache nothing: of a record it removed      *)
(* since then the copy may still have the score.  A match_end between its  *)
(* writes and its invalidation is excepted, and so is a record that landed *)
(* though its write failed.                                                *)
Listing ==
    LET scanned == First(Sorted(Rows), MaxPages * PageSize)
    IN  First(Kept(scanned, {u \in Players \ Unlistable : hidden[u] = "no"}), MaxListed)

EndUnderWay == \E p \in Slots : proc[p].op = "end" /\ proc[p].recorded

CurrentIsExact ==
    copy # None /\ current /\ ~EndUnderWay /\ ~unsure =>
        /\ \A i \in DOMAIN copy :
             /\ \/ copy[i].score = record[copy[i].player]
                \/ record[copy[i].player] = None /\ copy[i].player \in moved
             /\ copy[i].rank = 1 + Cardinality({j \in DOMAIN copy :
                                      Better(board.sort, copy[j].score, copy[i].score)})
             /\ \A j \in 1 .. i - 1 : Before(copy[j], copy[i]) /\ copy[j].player # copy[i].player
        /\ moved = {} => [i \in DOMAIN copy |-> copy[i].player] = [i \in DOMAIN Listing |-> Listing[i].player]

(* "It also bounds how long a deletion made just before a Postgres outage  *)
(* could stay listed" (leaderboard_public.go:82-84): no answer lists a     *)
(* player hidden for the life of a copy, or, when reads fail, for that of  *)
(* a stale one and the read that failed.                                   *)
UnlistedInTime ==
    [][\A p \in Slots :
         At(p, "answer")' /\ ~At(p, "answer") /\ proc'[p].got =>
            \A i \in DOMAIN copy' :
               LET u == copy'[i].player IN
               hidden'[u] # "no" => hiddenAge'[u] < IF failAge' = None THEN TTL ELSE MaxAge]_vars

(* "history keys and leaderboard writes make the retry idempotent"         *)
(* (match_lifecycle.go:612): once match_end was answered with success its      *)
(* scores are on the board, whatever failed before, until a deletion       *)
(* removes the player's record; a best score is one that a match reported. *)
(* A total counts each match on top of the record the board started with,  *)
(* if it had one, and once when no call was repeated: a repeated one may   *)
(* count it again.                                                         *)
Total(f, S) ==
    LET sum[T \in SUBSET S] == IF T = {} THEN 0
                               ELSE LET m == CHOOSE m \in T : TRUE IN f[m] + sum[T \ {m}]
    IN  sum[S]

ResultsCounted ==
    \A u \in Players \ erased :
        LET played == {m \in Matches : u \in DOMAIN Results[m]}
            mine == {m \in played : m \in ended}
            score == [m \in played |-> Results[m][u]]
            base == IF FirstRecords[u] = None THEN 0 ELSE FirstRecords[u]
        IN
        mine # {} =>
            /\ record[u] # None
            /\ board.operator = "best" =>
                 /\ \A m \in mine : ~Better(board.sort, score[m], record[u])
                 /\ record[u] \in {score[m] : m \in {x \in played : attempts[x] > 0}} \cup {FirstRecords[u]}
            /\ board.operator = "incr" =>
                 \E b \in {0, base} :
                    /\ record[u] >= b + Total(score, mine)
                    /\ (\A m \in played : attempts[m] = IF m \in mine THEN 1 ELSE 0) =>
                            record[u] = b + Total(score, mine)

(* "Update the in-memory cache to match" (per_game_config.go:251) and "so  *)
(* a new board exists without a restart" (per_game_config.go:324): with no *)
(* registration under way the registry holds the row of its table, unless  *)
(* two registrations overlapped or one failed though its row landed; and   *)
(* when the last registration was answered with success its board exists.  *)
RegisteredIsLive ==
    /\ ~astray /\ (\A p \in Slots : proc[p].op # "register") => cached = stored
    /\ registered # None /\ registered.board # None => board # None

(* "by one request while concurrent ones wait for its result"              *)
(* (leaderboard_public.go:59): every request for the listing or a rank is  *)
(* answered, whatever reads fail or hang before it.                        *)
GetAnswered ==
    \A p \in Slots : (proc[p].op \in {"list", "stats"}) ~> (proc[p].pc \in {"answer", "idle"})

=============================================================================
