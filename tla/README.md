# Formal models of the SnoringCat platform

TLA+ models of the platform's Nakama runtime plugin (`src/runtime`, Go) and of the
matchmaking client of its SDK: what RPCs, hooks, goroutines and suspended calls do to
groups, accounts, storage rows, memory and game servers when they interleave, fail
half-way or are cut short by a restart.  TLC checks the models on small instances;
TLAPS proves most of the safety properties, and a refinement, for every value of the
constants.

```
cd tla
tlasany Party.tla                               # parse
tlc -workers 2 -config MCLimits.cfg MCLimits    # check one configuration
tlapm FleetProofs.tla                           # check the proofs of a module
```

`PROJECT.json` lists the components, the runs with the properties each checks, the
source lines each definition models, the hazards of the code with the properties
that cover them, and the theorems.

## The system

A Nakama server runs the plugin; game clients use the SDK in
`src/addons/snoringcat_platform_client`; game servers run in Docker on the same host
or at Edgegap.  The plugin has no transactions across calls: every handler is a
sequence of Nakama, Docker, Edgegap or SQL calls, each atomic on its own, and
handlers of different requests run concurrently.  Memory (guards, the port pool, the
map of running allocations, gauges, rate windows, caches) is lost at a restart, rows
and game servers are not.

| Component | State | Operations | Talks to | Hard behaviour | What makes it correct |
|---|---|---|---|---|---|
| Party membership (`party.go`, `party_disband.go`, `party_group_guards.go`, `party_kick.go`) | Nakama group and edges, leader override, invite code pair of rows | create, invite, add, join, join by code, leave, kick, transfer, disband; before/after hooks | Nakama groups and storage; fleet allocator reads rosters | sequences of writes interleave; a roster read is stale when used; a disband outrun by a join; a code pair half written | a player ends in one party; a party with members has a leader who is one; nothing outlives a party; a code leads to its party |
| Party readiness (`party_ready_gate.go`, `party_start_guard.go`, part of `party.go`) | a ready row per member, start guard in memory | set ready, start, abort | membership hooks clear rows | a start racing a join, a leave, an abort or another start | a start counts flags set since the roster changed, spends them, and is alone |
| Party settings (`party.go`, `party_prefs.go`) | mode, level, cheat and client preference rows | set, delete with the party | fleet allocator reads them | read one after another while the party changes | they end with the party |
| Fleet allocator (`fleet_allocator.go`, `allocator.go`) | one goroutine per match, in-flight map, cancelled contexts, metadata and synthetic rows | matchmaker matched, cancel RPC, allocate with retries, notify | both backends, storage, notifications | a cancel at any point; a retry after a failed attempt; the same player matched again | no server is left behind a match that failed; everyone hears one outcome |
| Local allocator (`local_allocator.go`) | port pool, ports per deploy, containers | Allocate, Stop | Docker | every error path must return the ports | ports are neither lost nor shared |
| Match lifecycle (`match_lifecycle.go`, `match_sweep.go`, `allocator_metrics.go`) | registration, metadata, synthetic rows, results, gauges | register, match end, match cancel, hourly sweep | backends, leaderboards, recent players | a retried call overlaps the first; a write fails half-way; crashes | a result answered ok is kept; a resolved match is released; gauges count |
| Accounts (`account.go`, `account_cron.go`, `privacy.go`, `account_validation.go`) | deletion queue row, profile and name, sessions, rows naming the player | request and its cascade, cancel, sign-in, refresh, immediate delete, hourly pass | Nakama accounts, friends, groups, storage, SQL | a cancel or a sign-in overtakes a scrub or a hard delete; a cascade fails half-way | an account is deleted only when it was due; what is said of a deletion is what is queued; nothing names a deleted player |
| Friend codes, recent players (`friend_code.go`, `recent_players.go`) | a forward and a reverse row per code, rows naming the players of a match | get code, match end, purge | accounts | pair half written; written after the purge | a code leads to its owner |
| Leaderboards and game configuration (`leaderboards.go`, `leaderboard_public.go`, `per_game_config.go`, part of `match_lifecycle.go` and `player_data.go`) | records, one cached copy with a generation, registry in memory and its table | listing, rank, match end, register game, start | Nakama leaderboards, SQL | a read overlaps an invalidation; reads fail or hang under a mutex; two registrations overlap | a copy of the present generation is exact; who is hidden is unlisted in time; everyone is answered |
| Friend limits, blocks, chat, crash reports (`friends_limits.go`, `friend_code.go`, `block_list.go`, `chat_limits.go`, `crash_report.go`) | sliding windows and daily counters in memory, friend edges | add by id, name or code, block, unblock, party message, report | Nakama friends, groups, storage | check-then-act between a count and an add; a reservation given back late; lists read one after another | limits hold over every window; a blocked sender is not heard |
| Presence (`presence.go`) | one row per player and game | heartbeat, list | | stale rows | visibility expires |
| Version gate, transport, player data, bulk import, data export | game rows, parsed configuration | reads, pure decisions, checked writes | SQL | edge cases of parsing | total, deterministic |
| Matchmaking client (`matchmaker_api_client.gd`) | search, ticket, generation, timer, socket, realtime party | start, cancel, party calls, timeout, cleanup | Nakama socket, notifications, cancel RPC | a cancel under a suspended start; a late notification; a dead or foreign socket | no ticket waits unheard of; the game is answered; every search ends |
| Rest of the SDK, infrastructure, scripts | tokens, screens, provisioning, signalling proxy | | the RPCs above | | not modelled |

The hazards of this code, at the lines where they bite, are listed in
`PROJECT.json` with the properties that cover them.

## The modules

| Module | Models |
|---|---|
| `Party` | party membership, settings rows, invite codes, readiness and the start guard |
| `PartyOverlap` | `Party` with three history variables that note where one request outran another |
| `PartyReady` | `Party` with two history variables that remember what a ready row meant |
| `Fleet` | the allocation goroutines, both backends, the port pool, cancel, registration, restart |
| `MatchLifecycle` | `Fleet` with match end, match cancel, the sweep and the gauges |
| `AccountLife` | what the platform promises about the stages of an account |
| `Account` | deletion, sign-in, names, friend codes and recent-players rows of an account; implements `AccountLife` |
| `Boards` | one public board: listing, cache, records, registry |
| `Limits` | rate windows, caps, daily counters, the block check of party chat |
| `Search` | the SDK's matchmaking client beside a server |
| `PartyProofs`, `FleetProofs`, `FleetOutcomeProofs`, `LifecycleProofs`, `AccountProofs`, `LimitsProofs`, `BoardsProofs`, `SearchProofs` | theorems about `Party`, `PartyReady` and `PartyOverlap`, `Fleet` (its types and ports; its outcomes and servers), `MatchLifecycle`, `Account`, `Limits`, `Boards` and `Search` |
| `MCPartyOverlap`, `MCPartyReady`, `MCFleet`, `MCMatchLifecycle`, `MCAccount`, `MCBoards`, `MCLimits`, `MCSearch` | instances for TLC |

`Fleet` and `MatchLifecycle` are one composition (the allocator, the port pool and
what ends a match), `Account` and `Boards` take from `match_end` the writes that
concern them, and `Search` meets the allocator only in the notifications it sends.

Definitions named `...` with a comment beginning "Mutant:" are deliberately broken
variants of the definition after them; no specification uses them.  Each is a
plausible slip, and with it in place the property it belongs to fails.

### Party

A request of a player is a record `req[u]` with a program counter; a label such as
`"code.add"` names the next Nakama call.  One action is one call, or a run of reads
with no write of the same handler between them.  `Send(u)` begins a request (the
session, block-list and rate-limit refusals before the first write are requests that
do not begin), `Step(u)` makes the next call.  Helpers shared by several handlers
(`disbandPartyGroup`, `clearPartyReadyRows`, `autoTransferIfLeaderDeparted`) are
labels of their own; `ThenSolos`, `ThenDisbanded`, `ThenCleared` and
`ThenTransferred` say where a request goes on when they return, `OnError` where it
goes on when a call inside them fails.

Nakama's group semantics are modelled from how the code uses them and marked
external: a join without an invitation leaves a request, an add on behalf of an admin
leaves an invitation and one with server authority makes a member at once, promotion
raises members only, the last admin may leave.

Abstractions.  A player has one request outstanding.  A party id is never used
twice.  A drawn code is random among 32^6, so it is never one that a running request
or a left-over row still names (`Drawable`), but it may be one whose row exists: the
conditional write then refuses it and another is drawn, until the attempts run out.
A failed call takes no effect.  `GuardExpire` (the end of the 20 s window) happens
only while no request on the party runs, for a request's calls take far less.  The
values of settings rows are not distinguished.

`PartyOverlap` follows `Party` step by step and notes in history variables, which no
step reads, the overtakings the handlers do not guard against: `crossed`, players
whose own party was joined between the check that lets them into another one and the
count that ends it; `astray`, parties whose next leader went between the roster read
that picked them and the write that names them; `outrun`, parties about which a row
was written on a check that a kick, a leave, the end of the party or a second code had
outrun.  A failed call, or a restart that cuts a request off, counts as such too.  An
entry goes as soon as nothing is wrong and no request is left that could still make it
so.  `OnePartyEach`, `OverrideNamesAdmin`, `NoRowOutlives` and `LeaderRestored` hold of
everything else: TLC finds one of them violated when any one of the clauses of `Note`
is dropped.

### Fleet

`alloc[m]` is the goroutine of match `m`: its program counter, its players, the
resolved backend, the attempt, the deploy and the port pair it holds.  One action is
one call to Docker, Edgegap or storage with the memory updates after it.  A cancel
adds the match to `cancelled`: from then on a call made with the allocation's context
fails, and one that was under way may have taken effect all the same.  The port pool
(`udpInUse`, `tcpInUse`), `allocPorts` (`tracked`) and the in-flight map are plain
memory; a server is a record with the ports it is bound to, which outlives a restart
of the runtime.  `releasePortsFor` drops a pair from `allocPorts` under one mutex and returns it to
the pool under another; the two are one action, since in between the pair is in use
and nobody else can reach it.

`Restart` loses every goroutine and all memory and keeps rows and servers.

Left out: which backend a game resolves to (any), the rotation of regions, the
payloads, session tokens (a check that may fail), mock mode, image references.

### MatchLifecycle

A call of `match_end` or `match_cancel` is a record with a program counter, and two
may be about one match.  A server makes one kind of call about its match and may
repeat it while the first one runs, as its retry timer does; the client of a
synthetic probe may cancel on its own.  A server's calls come after its allocation
has told its players, since its timers run for minutes.  The reported players are
any set; `kept` is what `restrictToMatchedPlayers` leaves of it.  `SweepStaleRows`
deletes rows of matches more than a day old, when neither their server nor a call
about them can still exist.  `scores` counts the leaderboard writes of a player, so
that a repeated submission is visible.

### AccountLife and Account

`AccountLife` knows a stage for each account: live, waiting (queued, in its grace
period), due, doomed (a pass of the cron has listed it as due) and gone.  Only a
doomed account is deleted by the platform; a player may delete at once; gone is for
ever.  `Account` implements it: `Life` is the instance with the stage read from
`accounts`, `queue` and the list and program counter of the cron, and `OnlyDueDeleted`
is `Life!Spec`.

In `Account` a request in a slot and the cron are processes, one action per SQL
statement, storage call or Nakama call, and every call may fail.  `queue` is
`account_deletion_queue`; `name` tells the player's own name, the marker `[deleted]`,
and that marker clamped to another name by a sign-in; `profile` is the avatar and the
like; `session` is none, old (from before the last request) or new; `forward` and
`reverse` are the two rows of a friend code; `recent` the rows naming the players of
a match; `traces` stands for the kinds of rows and edges the cascade and the purge
clear.  `todo` is the list a pass read.  The other variables are history: what a
player was answered, which codes they were handed, and the exceptions that the
properties name (`overtaken`, `dropped`, `strays`, `tainted`).

Abstractions: one SQL statement or transaction is atomic; the grace period ends by an
action, not a clock; the pass's page of 10 000 rows is not reached; the email is not
modelled.

### Boards

One board of one game.  Time is counted in ticks, and a moment is kept as its age up
to where ages no longer differ (`MaxAge`).  `copy` is the cached listing, `copyAge`
its age, `current` whether its generation is still the present one, `failAge` the age
of the last failed read.  A request (`proc`) reads page by page under the mutex, or
waits for it and takes the copy that is there; a read ends at `ReadTimeout`.
`EndBegin`, `WriteRecord` and `WriteHistory` are the leaderboard writes of `match_end`
with its retry and its invalidation, `RegisterBegin`, `Upsert`, `PutCache` and
`CreateBoard` the registration of a game.

`PlayerStep` is what happens to a listed player.  `Ban` and `Unban` stand for Nakama's
console.  `RequestDeletion` writes the queue row, which hides the player, and
`EraseRecord` is the later step of the same request that deletes the record
(`account.go:323`); it may fail, a restart may cut it off, and nothing invalidates the
cached copy.  `CancelDeletion` drops the queue row and brings neither the record nor
the name back, `Rename` is the next sign-in's new name, `HardDelete` the end of the
account.  `hidden` keeps one reason at a time, so a banned player asks for nothing;
`erased` remembers whose record a deletion has removed.

### Limits

The sliding windows of friend adds, chat messages and crash reports are sequences of
ages (`stamps`), oldest first as calls are stamped, the daily counters of reports are
`counters`.  History variables: `reported` counts the stored reports of a player by
the age of their reservation; `accepts` keeps the age of every call let through, which
no step prunes, so that `AddsBounded` counts a window of its own and does not rest on
the limiter's; `seen` is the caller's pending list when an add was let on to Nakama.
An add is `Overtaken` when the list has grown since, or when an invitation that made
one of its targets an accept has gone: only such an add may pass the cap.  An add is a hook
(limit, incoming list, pending count) and then Nakama's add; an add by code first
resolves the code; a chat message looks up the channel, the roster, and the block
list of one member after another; a report reserves, stores and gives back on
failure.  A restart forgets windows and counters.

### Search

`start[p]` is a suspended call of the client: waiting for the socket, for
`record_client_ip`, or for an answer.  `current` says that its captured generation is
still `_search_generation`.  `search` is the state of the search, normalised when none
is on, `party` the realtime party, `sock` and `sockUser` the socket.  Requests travel
in `up`, answers and notifications in `down`, both in order, since both use one
socket; when it is lost, both are lost with the client's tickets and parties.  The
server grants tickets and parties, matches tickets and ends allocations in any way;
`cancel_matchmaking_allocation` only hastens such an end.  Another leader's ticket may
cover this client (`MatchMember`), and that leader may close the party.

`Cleanup` ends a call that waits for its socket and may let one that waits for its
session go on.  One call connects at a time: a second one that opens a socket while the
first connects, whose handle it would replace, is left out.

`TicketsAccounted` excepts the tickets the client cannot follow (`excused`): each
exception was checked to be necessary, and they are described below.

## The runs

| Run | Checks | Shows |
|---|---|---|
| `MCPartyMoves` | OnePartyEach, CodeLeadsToParty | two creates, invites, joins, joins by code or disbands at once over two parties, one failed call or restart: a player ends in one party unless two moves crossed, and the code of a live party leads back to it |
| `MCPartyRows` | TypeOK, NoRowOutlives, OverrideNamesAdmin | two requests at once of every kind but invites and adds, one failed call or restart: no row outlives its member or its party unless a write was outrun, and the override names an admin unless the member went before being named |
| `MCPartyLeader` | LeaderRestored | two creates, adds, joins, leaves, kicks, transfers or disbands at once among three players: when the leader goes the party has an active leader again, or ends, unless the pick went before being named |
| `MCPartyReady` | OneStartPastGuard, StartCountsFreshRows, StartSpendsReadiness | two overlapping requests, joins by code and by invitation: one start at a time, on flags set since the last join, none used twice |
| `MCFleet` | FleetTypeOK, PortLedger, BoundPortsInUse, FailedMatchLeavesNoServer, LastMatchCancellable, OneOutcome | two allocations at once on either backend, cancelled at any point, with one failed call or restart |
| `MCFleetTold` | EveryoneTold | the same without restarts, competing for one port pair: every path through the retry loop, the cancel checks and the error returns ends with a notification |
| `MCFleetCancel` (violated) | CancelledMatchLeavesNoServer | a cancelled allocation's stop is asked for with the cancelled context, or of the wrong backend: the server runs on |
| `MCMatchLifecycle` | LifecycleTypeOK, AcceptedIsRecorded, ResolvedMatchIsReleased, GaugeExact | two overlapping calls about a match while the next one allocates, with one failed call or restart |
| `MCAccount` | AccountTypeOK, SaidIsQueued, CodeNamesOwner, DeletedNamedByNoRow, PendingEnds, OnlyDueDeleted | a leaving player's requests, cancellations, sign-ins, code calls and immediate deletion overlap each other, the cron and a match, with failures and restarts; the refinement of `AccountLife` |
| `MCBoards` | BoardsTypeOK, CurrentIsExact, ResultsCounted, RegisteredIsLive, UnlistedInTime, GetAnswered | listings, ranks, two matches' ends with retries, registrations, bans, deletions and their cancellation, failing and hanging reads and restarts; under fairness every request for the listing or a rank is answered |
| `MCLimits` | LimitsTypeOK, ReportsBounded, BlockedUnheard, AddsBounded | adds, blocks, chat and crash reports of one player and a server, with failed calls, midnight and restarts |
| `MCSearch` | SearchTypeOK, TicketsAccounted, UserIsAnswered, Settles | two overlapping calls of the client, solo or party, with cancels, lost sockets, account switches and any behaviour of the server |

The violated run states what a comment in the source promises; `findings` in
`PROJECT.json` quotes the comment and explains the trace.  Some definitions state
promises of comments that do not hold and that no run checks: `MoveSparesOthers`
(`Party`) and `GaugeCountsOnce` (`MatchLifecycle`); their traces, and those of the
bounds that keep other properties true, are under "Known limits".

### Bounds, and why they are enough

- **Players, parties, codes.** Two players and two parties make every pair
  interaction (cross joins, a move from a solo party); three players give a leader, a
  departing member and a successor to choose between.  `MaxCount` 2 makes the full
  party reachable where it is set.  The players are symmetric;
  `MCPartyLeader` checks liveness and uses no symmetry.
- **`MaxInFlight`** bounds the requests that run at once.  1 gives every sequence of
  complete handlers, 2, at which every party run is, every interleaving of two.
- **`MaxFaults`** bounds failed calls and restarts; one is enough to cut any handler
  at any call.  `MCPartyLeader` has none: a failed call of a leave or a kick ends its
  search for a successor, and nothing takes it up again.
- **`Ops`** selects the requests of a run, so that each run stays small; between them
  the runs send every kind.  `MCPartyReady` leaves out abort, which
  breaks `StartSpendsReadiness` (below), and leaves and kicks, whose effect on ready
  rows `MCPartyRows` checks.  `MCPartyRows` in turn leaves out invites and adds, and
  `MCPartyMoves` leaves, kicks and transfers; the theorems have all of them.
- **`MaxMatches` 2, `MaxAllocating` 2 or 1, `MaxRequests`**: two matches of the same
  player give the re-match race and the competition for ports; four deploys give each
  of two matches its two attempts.  Two port pairs let two goroutines hold ports at
  once; with one pair (`MCFleetTold`, `MCMatchLifecycle`) the pool runs out.
- **`Rosters`, `Probes`, `Backends`, `Cancels`, `Failures`** switch on what a run is
  about: `MCFleet` cancels and restarts, `MCMatchLifecycle` has failing
  storage and failing stops, and allocations that go through.
- **`MaxCalls` 2**: a call and its retry, or two calls of different origin.
- **`MCAccount`**: one player leaves, the other stays and shares a match; two slots
  give every overlap of two calls beside the cron and the atomic calls (`Cancel`,
  `UpdateAccount`).  Three events in all (requests, failed calls, restarts) allow a
  request, what overtakes it and a fault.  Two codes give a handed one and a stray.
- **`MCBoards`**: three players on pages of two need two pages; a listing of two
  leaves one out.  One player enters with a match, one may be hidden and erased.  Four
  events are a match that ends, a deletion request, its cancellation or a fault, and a
  listing; five were also explored.  A copy lives
  for two ticks and may be served stale for three, a read may hang for one: the
  smallest values at which "fresh", "stale" and "expired" are all reached.  Two slots
  are a reader or writer and one that overlaps it.
- **`MCLimits`**: limits, caps and windows of one or two are reached and passed by
  four events; calls of a request that fail are not counted among them.  The two
  others are symmetric, they do nothing but what either may do.
- **`MCSearch`**: two suspended calls give every overlap of two; two tickets a ghost
  beside a live one; three events (calls of the game, lost sockets, account switches)
  a start, what overtakes it, and a second start.  Safety was also explored with four.
- In the runs of `StartCountsFreshRows` no restart falls between a join and the
  clearing of the ready rows: it would leave them (below).

`CHECK_DEADLOCK FALSE` is set where the bounds, or players who ask for nothing, let
the system stop.

### Fairness

`FairSpecOverlap` of `PartyOverlap` assumes that the runtime goes on with every request it has accepted
(weak fairness of `Step(u)`), `FairFleetSpec` that it goes on with every allocation it
has started (weak fairness of `Allocate(m)`): a handler or a goroutine that can make
its next call eventually makes it, because every call has a timeout.

`Account`: weak fairness of the cron as one process, a goroutine that runs at boot and
every hour.  It follows for the players' requests that nothing is assumed: a player
need not come back.

`Boards`: time passes (`Tick`); a read that has reached its deadline ends, as its
context makes it; a request that needs no call of its own goes on; and strong fairness
of `Take`, the acquisition of the board's mutex, because a waiter of a Go mutex that
has waited for a millisecond is handed it.  No database call is assumed to answer.

`Search`: the client's timer, its event loop (`Receive`, `Resume`) and the server's
answers (`Serve`); a connection that answers nothing is closed by the socket's own
keep-alive, which is `Lost`.  Matching, allocation and notification are not assumed.

No player, game server, failure or restart is assumed to happen anywhere.

## The proofs

Every theorem holds for all values of the constants that the named assumptions of the
module allow: any number of players, parties, matches, ports, codes, slots and pages,
and any bound on requests, events and faults.  The assumptions (`PartyAssumption`,
`FleetAssumption`, `LifecycleAssumption`, `AccountAssumption`,
`RewrittenAssumption`, `LimitsAssumption`, `BoardsAssumption`, `SearchAssumption`) give
the types of the constants, say that a "none" value is no member (`"nobody"` is no
account), and keep two orders of constants of
the code: a window of reports is shorter than a day, a read's timeout is shorter than
the interval after a failed one.  A score is at least 0, as `clampPlayerStats` leaves
it (`match_lifecycle.go:219`).  TLC evaluates them in every run.

The argument is the usual one: `Init => Inv`, `Inv /\ [Next]_vars => Inv'` with one
lemma per action and, where an action can disturb it, per part of the invariant, and
`Inv => property`, joined by temporal logic.  Each inductive invariant was checked by
TLC on an instance before its proof.

**`PartyProofs`**
- `TypeCorrect`: `Party` keeps `TypeOK`.  `TypeOK` is not inductive: a settings
  write records the party of its request, a disband deletes the rows of the party it
  has read.  The inductive invariant `ReqOK /\ StoreOK` says that a request at such a
  label names a party (`Naming`, `Disbanding`).
- `OneStart`: if no abort is issued, two starts of a party are never past the
  start guard together.  `StartInv` adds that a start past
  the guard has its party in the guard, which only an abort or the end of the window
  takes out, and the window does not end while a request on the party runs.  The
  hypothesis about aborts is needed: an abort releases a guard it does not own.
- `CodeLeads`: whatever requests overlap, and through failures and restarts, the code of
  a live party leads to no other.  `PairInv` follows the two rows of a code through
  the calls that write and delete them.
- `CountsFreshRows`: a start is let through on ready rows that are all from after the
  last of its roster joined, for any number of players, parties and overlapping
  requests.  `Fresh` says who owes what: a row from before a join is one the join's own
  request will still clear (`Staled`), and a member whose join has yet to clear has no
  row (`Unready`).  Hypotheses: nobody leaves or is kicked (`Kept`: members stay until
  their party goes), no call fails and nothing restarts.
- `SpendsReadiness`: no ready row lets a member into two starts.  `Spent` says that the
  rows a start has counted are gone, or the guard keeps every other start off until
  they are.  Hypotheses: those of `CountsFreshRows`, and no abort.
- `OneParty`, `RowsGoWithParty`, `LeaderIsAdmin`: the three properties of
  `PartyOverlap`, with no hypothesis: for any number of overlapping requests of every
  kind, through failures and restarts, and only with the exceptions the properties
  name.  Each is broken in the middle of requests, and its invariant says by how much.
  `Situated` (one party): a player who is moving is in the party that takes them in
  and, at most, in parties that count nobody else and that the move is going to
  disband.  `LedHere` (leader): an override that names no admin belongs to a request
  about to promote the member, or to the one by which the member goes; who is about to
  be named is active.  `RowsOf` (rows): a row that should not be there is one that some
  request has still to delete (`Owes`, `Uncodes`), and a request between the two rows of
  a code, or one that looked a code up, knows every code that leads to the party.
  `Based` adds that requests make only the calls of their kind, on parties that exist.

**`FleetProofs`**, about the allocator and the port pool
- `FleetTypeCorrect`: `Fleet` keeps `FleetTypeOK`, so the retry loop never goes
  beyond `maxAllocationAttempts` and no step uses a deploy or port pair its goroutine
  has not got.  `TypeInv` says where a goroutine holds a pair
  (`Holds`), knows its deploy (`Knows`) or has an attempt left (`Tries`).
- `PortLedgerHolds`: the ports in use are exactly
  those some goroutine or tracked deploy will release, each with one owner.
  `PortLedger` needs `OwnerOK` with it: while a goroutine waits for its container the
  deploy is its own and nothing is tracked for it, else `trackPorts` would overwrite
  a pair and lose it.

**`FleetOutcomeProofs`**, from `FleetInv`: types, ledger and what is known of each match
(`StoryOf`) and of each deploy (`HostOf`)
- `OneOutcomeHolds`: the players of a match are told one outcome, once.  A goroutine
  tells only in the step that ends it (`told[m] # "none" => pc \in Ended`).
- `FailedLeavesNothing`: while no call has failed, an uncancelled match that was told it
  failed has no server.  `HostOf` says of every live server that its goroutine is where it will
  be stopped, or has brought its match to "ready".
- `LastMatchIsCancellable`: inductive with the order in which matches are formed.
- `BoundPortsHold`: until a fault or a cancel, a port bound by a running container is in
  use in the pool.  `TrackedOf` carries the pair from the goroutine to
  `allocPorts` when the goroutine gives it up.

**`LifecycleProofs`**, from `LifeInv`, which extends `FleetInv` through the calls, the
sweep and the gauges
- `LifecycleTypeCorrect`; a player's score is written at most once a call, and the
  gauges never go below zero (the score writes and the ends of all calls are counted
  against the calls made).
- `AcceptedHolds`: a `match_end` answered ok has recorded every matched player it
  reported, and nobody else has a result.  A call that goes on past its writes
  has seen all of them succeed (`CallOf`), and two ends of a match report the same
  players.
- `ReleasedHolds`: a resolved match keeps neither server nor ports, or a call is at
  the stop or the release.  The proof needs that a call past the deletion of the
  registration knows the backend that served the match, and that one at the sweep is
  about a match whose server came (`CallOf`).  A player's cancel is an exception of the
  property: the goroutine's stop is then asked for with the cancelled context.
- `GaugeHolds`: without faults, players' cancels and overlapping cancels the gauges are
  exact.  `AloneOf` says that a call that nothing overlaps is the only one about its
  match and has not counted its end yet; `StartedIsCounted` relates the
  matches the gauges count to where their goroutines are.

**`AccountProofs`**, from `TypeInv`, `SaidInv`, `CodeInv` and `PurgedInv`
- `AccountTypeCorrect`.
- `AccountImplementsLife`: the refinement.  `Init` maps to `AccountLife`'s initial
  states, and every action maps to one of its steps or changes no stage
  (`LifeFrame`); it follows that only an account a pass found due is deleted by the
  platform.
- `SaidHolds`: an answer, a shown name and a session agree with the queue.
  `SaidOf` adds what a running request still owes: one that will answer has its
  row (or was overtaken), one that will revoke the sessions accounts for an old one.
- `CodeHolds`: a code leads to the player it was handed to.  A drawn code is
  reserved between the draw and the second of its two writes (`DrawnOK`), and a purge
  about to delete a code names one that is retired or the player's own (`GoingOK`).
- `PurgeHolds`: nothing names a deleted player once the purge is through.  `PurgeInv`
  says for every kind of row that is left that a purge is still before the step that
  deletes it; `CascadeInv` says the same of a deletion request's cascade.

**`LimitsProofs`**, from one invariant with the parts `TypeInv`, `Social`, `Windows`,
`Heard`, `Counted`, `Paid`, `Checked`
- `LimitsTypeCorrect`.
- `BlockedHolds` (`Heard`): the blockers from before the message are among the
  members whose list is still to be read.
- `ReportsHold` (`Counted`, `Paid`): the reports of the day that are under way are at
  most those counted, so that giving one back never undercounts; and for every age
  `a` the reports stored or under way since `a` ticks are at most the stamps
  no older than `a` and the mixed-up returns.  The bound for one age alone is not
  inductive, since time moves reports from one age to the next.
- `AddsHold` (`Windows`, `Checked`): the calls let through within the window are the
  stamps in it, in order; a request let on fits under the cap with the list as it was
  then, or adds nobody new.

**`BoardsProofs`**, from the parts `Shape`, `Registry`, `Timely`, `Exact`, `Tally`
- `BoardsTypeCorrect`, with the mutual exclusion of the reads of a board.
- `RegistryHolds`: a registration under way explains every difference between the
  registry and its table.
- `UnlistedHolds` (`Timely`): a player hidden for longer than a read or a copy has
  lived is not in it; ages of copy, read, failure and answer are bounded together.
- `CurrentHolds` (`Exact`): a copy of the present generation is the board as it is, but
  for the scores of records that a deletion has removed since its read began.
  The invariant speaks of unfinished reads: a read of the present generation has
  gone through a first stretch of the board as it is now, up to its cursor, in
  whole pages while more are to come.  A record write that has landed shows in the
  call that made it until that call's invalidation makes every copy and read of
  before an old one.  The lemmas are about sorted sequences: two sequences of one set
  in the board's order are equal, a lower set is a first stretch, a
  rank is the number of rows ahead.
- `ResultsHold` (`Calls`, `Tallied`): the invariant counts a match for a player
  (`Counted`) as soon as a call that has not failed yet wrote the player's record, and
  not only when a call has ended; a call that fails takes the match back out, which
  lowers what the record must reach, never the record.  The total is exact while every
  match called once has ended or has its one call still without failure (`Calm`).
  `Total` is a recursive function: that it exists, that it does not depend on the order
  in which members are taken and that it grows with its set (`SumExists`,
  `TotalWithout`, `TotalGrows`) is shown from a least finite set that would break it
  (`LeastSet`), since the induction theorems of the library cannot be used.

**`SearchProofs`**, from `SearchInv`, the parts `Typed`, `Lined`, `Pooled`, `Posted`,
`Followed`, `Heard`
- `SearchTypeCorrect`.
- `TicketsHold`: no ghost ticket.  `Named` adds that the search's ticket was given out
  by the server, is out of the pool once an allocation is heard of, and is a party's
  while a current solo start remains, which could otherwise take the search over.
  `Posted` says that every waiting call has at most one request or answer under way,
  of its own kind, so that an answer granting a ticket finds the call that asked.
- `UserHolds`: when a search was asked for and is not on, some suspended call will turn
  it on or end it with a signal (`Promised`: a solo start of an older generation or
  one whose socket is gone does not count); after a cancel no party start or wait and
  no current solo start is suspended (`Quieted`).

Two of the models were reformulated for these proofs, without a change of what they
say: `Boards` ranks and filters without recursion (`Ranked`, `Kept`,
`Combined`), and `Limits` keeps counts by age.  Four properties were corrected by
them.  `ResolvedMatchIsReleased` and `GaugeExact` are now stated without players'
cancels, which `MCMatchLifecycle` does not have but `MatchLifecycle` has.
`SaidIsQueued` was true only within the run's bound of three events: a
fourth lets a later request, cut short at its logout, leave the session an earlier
answer was about; the exception is now part of the property, which the
theorem states for every bound.
`ResultsCounted` compared a running total with the sum of its matches alone, which a
board that starts below zero does not reach; it now adds the record the board
started with, or nothing when the board was created later.

### What is only model-checked

- Liveness (`LeaderRestored`, `EveryoneTold`, `PendingEnds`, `GetAnswered`, `Settles`):
  the prover has no means for fairness and `ENABLED`.

## Known limits

What the code does not guarantee, found while modelling it.  The properties name
these cases as exceptions, or a bound keeps them out; TLC gives the trace when the
exception or the bound is dropped.  Those without a property were read in the code.

Parties.
- Two solo leaders who redeem each other's code at once both pass the shared-party
  check (`party.go:2565`), both are added (`:2585`), and the fresh reads see two
  parties of two: each player stays in both, though "they end up in exactly one
  party" (`:1325`).  `MCPartyMoves` without `Crossing` in `Note` shows it (`crossed`).
- A successor who leaves between the roster read and the write (`party.go:1194`) is
  named all the same, nobody else is looked for, and the party has a leader who is not
  in it (`astray`, for `OverrideNamesAdmin` and `LeaderRestored`).
- A ready flag or a setting written on a membership check that a kick, a leave or a
  disband has outrun stays, and two first `party_get_invite_code` calls leave a second code
  (`outrun`).
- A solo party that gains a member by code between the membership read and its
  deletion is deleted with that member in it (`party_disband.go:94`;
  `MoveSparesOthers` with "create", "getCode", "joinByCode" and two in flight).
- An abort releases a start guard it does not own (`party.go:618`): a second start may
  then pass on the flags the first one is about to clear (`StartSpendsReadiness` with
  "abort" in `MCPartyReady`).
- A failed deletion of ready rows, or a restart between a landed join and their
  clearing, leaves flags from before; only the start guard's window then stops a
  second start.  The runs of `StartCountsFreshRows` leave both out.
- A party emptied of active members keeps its invitations; the first to accept is not
  its leader.  `LeaderRestored` is about parties whose leader has just gone.

Matches.
- `match_sweep.go` recovers rows, not ports: a local server that dies mid-match never
  sends `match_end`, its pair stays in the pool's in-use sets until the runtime
  restarts.  `PortLedger` counts the pair as owned; nothing claims it comes back.
- A cancel that comes after the last cancel check is answered `cancelled=true`
  although `match_ready` follows.  The answer is not modelled; `OneOutcome` is about
  the notifications.
- After a restart the pool is empty while containers of before still bind ports.
  `BoundPortsInUse` is stated for the time before the first fault or cancel.
- Two overlapping cancels of a match both count it as ended (`GaugeCountsOnce`).
- A server that ends its match between its registration and the metadata write is
  refused; the models assume that its timers run longer than that.

Accounts.
- A cancellation that lands between a request's queue row and its scrub, which does
  not look at the queue, leaves a live account named `[deleted]`; a sign-in whose hook
  clamps the marker it read writes it over a name a cancellation left
  (`SaidIsQueued`, `overtaken`).
- A cancellation or a new request after a pass has listed the row as due does not stop
  the hard delete.  `AccountLife` calls such an account doomed.
- When `AccountDeleteId` fails the queue row is dropped all the same and the account
  survives (`dropped`).
- Two first `get_friend_code` calls hand out different codes; the loser's forward row
  is never deleted (`strays`).
- A `match_end` or a code call that overlaps a purge writes rows naming a deleted
  player; so does a restart between an immediate delete and its hook (`tainted`).

Boards.
- A deletion request removes the player's records but invalidates no copy: a copy may
  list a score that is no longer on the board until it expires (`moved` in
  `CurrentIsExact`; `UnlistedInTime` bounds how long the player stays listed).  A
  cancelled deletion does not bring the record back, so a match that ended with success
  may have left no trace on the board (`erased` in `ResultsCounted`); and a `match_end`
  under way, or repeated, may write a record for a player whose deletion is pending.
- A record write that lands but is reported failed, in a call that recorded nothing
  else, is not followed by an invalidation: the copy is stale for its lifetime.
- A repeated `match_end` counts twice on a board whose operator is `incr`, though the
  comment calls the retry idempotent (`match_lifecycle.go:612`).
- While reads fail, an answer may list a deleted player until the stale copy and the
  failing read have run out.
- Overlapping registrations, or one that fails though its row landed, leave the
  registry different from its table until the next restart.
- A record that moves between two pages of one read may be seen twice or missed.

Limits.
- A report given back after midnight lowers the new day's counter, and one given back
  after another report of the same player removes that one's stamp.
- The pending cap is checked before the add: an overlapping request passes it, and an
  accept stays exempt when the invitation it accepts has been withdrawn (`Overtaken` in
  `AddsBounded`).
- The block check of chat fails open on lookup errors and reads the first 100 blocks
  of a member; a group lookup that fails lets a message pass unlimited.
- The model keeps the members of the party constant and lets only the other players
  block and withdraw.

Matchmaking client.
- A notification names no search: a late `match_failed` or `match_ready` of an earlier
  match ends the search that is on, whose ticket stays in the pool ("late-arriving
  notification no-ops" holds only while no search is on).
- `_is_allocating` outlives a connection error and a closed party: a later search that
  is only queued is then given up at its timeout without withdrawing its ticket.
- `start_rt_party_matchmaking` and `begin_rt_party_wait` do not look at
  `_search_generation`: a cancel under them does not keep them from going live.
- A solo ticket is withdrawn through the party API, which does not know it, when the
  client leads a party: one that is live, or one whose id outlived a socket that was
  lost with no search on.
- A solo search ends when another leader closes a party the client has joined, and its
  ticket stays in the pool.
- `ensure_socket` that closes another account's socket bumps the generation of the
  start that called it: that start ends without a ticket and without a signal.
- A start suspended in `record_client_ip` while `cleanup` drops the socket dies on the
  missing handle.

## Not modelled

- Presence: one row per player and game, written whole by each call.
- The rest of the SDK: request wrappers, token storage, the notification socket,
  screens and input.
- Runtime wiring, client IP parsing, status output, notification pruning: no sequence
  of writes of their own.
- The data export and the bulk import: a read-only walk, and an operator's one-off.
- Infrastructure and provisioning scripts.
- Pure decisions (version gate, transport choice, mixing of party preferences, score
  clamping, redaction of reports): the models take their results as given.

## Plan

Done: the modules above, and theorems about all of them.  Next:

1. An abstract specification of a match (waiting, ready, over) implemented by
   `MatchLifecycle`.
2. `StartCountsFreshRows` with leaves and kicks: a member who left may come back, and
   the rows of the one who went are theirs to delete.
3. The pure decisions, checked against reference definitions over bounded inputs.
