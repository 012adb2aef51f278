------------------------------- MODULE Fleet -------------------------------
(***************************************************************************)
(* Allocating a game server for a match: fleet_allocator.go (the           *)
(* matchmaker hook, its allocation goroutine, the cancel RPC, the Edgegap  *)
(* backend), local_allocator.go (containers on the Nakama host and their   *)
(* host ports) and register_server of match_lifecycle.go.                  *)
(*                                                                         *)
(* One goroutine per match runs the allocation; here it is a record with a *)
(* program counter, and one action is one call to Docker, Edgegap or       *)
(* storage with the memory updates that follow it.  A player's cancel      *)
(* cancels the context the goroutine makes its calls with: from then on a  *)
(* call made with that context fails, and one that was under way may have  *)
(* taken effect all the same.                                              *)
(***************************************************************************)
EXTENDS Naturals, FiniteSets

CONSTANTS
    Users,          \* the players
    Rosters,        \* the sets of players the matchmaker can match
    MaxMatches,     \* bound: matches the matchmaker forms
    MaxAllocating,  \* bound: allocations running at once
    MaxRequests,    \* bound: deploys and containers ever created
    NUdp,           \* size of the UDP host port range
    NTcp,           \* size of the TCP host port range
    Backends,       \* the backends the games' allocator_mode resolves to
    MaxAttempts,    \* maxAllocationAttempts
    Cancels,        \* whether players cancel allocations
    Probes,         \* bound: whether a match is a synthetic probe's
    Failures,       \* bound: what fails: "allocation", "lifecycle", "restart"
    MaxFaults,      \* bound: failed calls and runtime restarts
    None            \* absence of a match

Kinds == {"local", "edgegap"}

ASSUME FleetAssumption ==
    /\ Rosters \subseteq SUBSET Users
    /\ MaxAllocating \in Nat
    /\ MaxMatches \in Nat /\ MaxRequests \in Nat
    /\ NUdp \in Nat /\ NTcp \in Nat
    /\ Backends \subseteq Kinds
    /\ MaxAttempts \in Nat \ {0}
    /\ Cancels \in BOOLEAN
    /\ Probes \subseteq BOOLEAN
    /\ Failures \subseteq {"allocation", "lifecycle", "restart"}
    /\ MaxFaults \in Nat
    /\ None \notin Nat

Matches == 1 .. MaxMatches
RequestIds == 1 .. MaxRequests

VARIABLES
    (* runtime memory *)
    alloc,          \* the allocation goroutine of each match
    cancelled,      \* matches whose allocCtx a player has cancelled
    inflight,       \* inflightByUserID: the match each user can cancel
    udpInUse,       \* localPortPool.udpInUse
    tcpInUse,       \* localPortPool.tcpInUse
    tracked,        \* allocPorts: the port pair Stop releases
    gauge,          \* activeLocalMatches, activeEdgegapMatches
    (* storage rows, by request id *)
    registered,     \* server_registrations
    meta,           \* match_metadata: the allocator_kind, or "none"
    marked,         \* synthetic_matches
    (* the world *)
    server,         \* the game servers
    told,           \* what the players of a match were notified of
    faults          \* failed calls and restarts so far

portVars  == <<udpInUse, tcpInUse, tracked>>
matchRows == <<registered, meta, marked>>
fleetVars == <<alloc, cancelled, inflight, udpInUse, tcpInUse, tracked, gauge,
               registered, meta, marked, server, told, faults>>

-----------------------------------------------------------------------------
(* localPortPool: the first free UDP and the first free TCP port make a pair. *)

NoPorts == <<0, 0>>

Pairs == (1 .. NUdp) \X (1 .. NTcp)

FirstFree(hi, inUse) ==
    CHOOSE i \in (1 .. hi) \ inUse : \A j \in (1 .. hi) \ inUse : i <= j

HasFreePair == (1 .. NUdp) \ udpInUse # {} /\ (1 .. NTcp) \ tcpInUse # {}

FreePair == <<FirstFree(NUdp, udpInUse), FirstFree(NTcp, tcpInUse)>>

Release(pair) ==
    /\ udpInUse' = udpInUse \ {pair[1]}
    /\ tcpInUse' = tcpInUse \ {pair[2]}

-----------------------------------------------------------------------------
(* Game servers: Docker containers and Edgegap deploys. *)

ServerStates == {"none", "created", "booting", "up", "gone"}

Server == [state : ServerStates,
           kind  : Kinds,
           match : Matches \cup {None},
           pair  : Pairs \cup {NoPorts}]   \* the host ports it is bound to

NoServer == [state |-> "none", kind |-> "edgegap", match |-> None, pair |-> NoPorts]

Live(d) == server[d].state \in {"booting", "up"}

Fresh == {d \in RequestIds : server[d].state = "none"}

(* A request id no other deploy had. *)
NewId == CHOOSE d \in Fresh : \A e \in Fresh : d <= e

(* Docker refuses to publish a host port another container publishes. *)
Bindable(d) ==
    \A e \in RequestIds \ {d} : Live(e) /\ server[e].kind = "local" =>
        /\ server[e].pair[1] # server[d].pair[1]
        /\ server[e].pair[2] # server[d].pair[2]

InState(d, s) == [server EXCEPT ![d].state = s]

(* What a Stop that reaches the backend leaves. *)
Stopped(d) == IF Live(d) THEN InState(d, "gone") ELSE server

-----------------------------------------------------------------------------
(* The allocation goroutines. *)

Labels == {"idle", "checks", "port", "create", "start", "wait", "undo", "deploy",
           "poll", "stop", "backoff", "checkpoint", "teardown", "mark", "meta",
           "notify", "finish", "done", "lost"}

Allocation == [pc    : Labels,
               users : SUBSET Users,
               kind  : Kinds,                  \* the resolved allocator mode
               probe : BOOLEAN,                \* a synthetic probe match
               try   : 0 .. MaxAttempts,
               d     : RequestIds \cup {0},    \* its deploy, 0 before there is one
               pair  : Pairs \cup {NoPorts}]

NoAllocation == [pc |-> "idle", users |-> {}, kind |-> "edgegap", probe |-> FALSE,
                 try |-> 0, d |-> 0, pair |-> NoPorts]

At(m, pc) == alloc[m].pc = pc

Goto(m, pc) == alloc' = [alloc EXCEPT ![m].pc = pc]

Running(m) == alloc[m].pc \notin {"idle", "done", "lost"}

Outcomes == {"none", "failed", "cancelled", "ready"}

(* Notify every matched player, then return from runAllocation. *)
Tell(m, outcome) ==
    /\ told' = [told EXCEPT ![m] = outcome]
    /\ Goto(m, "finish")

(* sendMatchCancelled when the context was cancelled, else sendAllocationFailed. *)
GiveUp(m) == Tell(m, IF m \in cancelled THEN "cancelled" ELSE "failed")

Fault(what) == what \in Failures /\ faults < MaxFaults /\ faults' = faults + 1

(* A call made with allocCtx fails. *)
CallFails(m) ==
    \/ m \in cancelled /\ UNCHANGED faults
    \/ m \notin cancelled /\ Fault("allocation")

(* OnMatchmakerMatched: register the users, then start the goroutine. *)
Matched(m, us, kind, probe) ==
    /\ At(m, "idle")
    /\ m # 1 => ~At(m - 1, "idle")
    /\ Cardinality({n \in Matches : Running(n)}) < MaxAllocating
    /\ inflight' = [u \in Users |-> IF u \in us THEN m ELSE inflight[u]]
    /\ alloc' = [alloc EXCEPT ![m] = [NoAllocation EXCEPT
                    !.pc = "checks", !.users = us, !.kind = kind, !.probe = probe]]
    /\ UNCHANGED <<cancelled, portVars, gauge, matchRows, server, told, faults>>

(* cancel_matchmaking_allocation answers cancelled=true. *)
Cancel(u) ==
    /\ Cancels
    /\ inflight[u] # None
    /\ cancelled' = cancelled \cup {inflight[u]}
    /\ UNCHANGED <<alloc, inflight, portVars, gauge, matchRows, server, told, faults>>

(* Session tokens, protocol versions and blocked pairs: the match is aborted *)
(* with match_failed, or goes on to the backend its game resolves to.        *)
Checks(m) ==
    /\ At(m, "checks")
    /\ \/ Tell(m, "failed")
       \/ /\ Goto(m, IF alloc[m].kind = "local" THEN "port" ELSE "deploy")
          /\ UNCHANGED told
    /\ UNCHANGED <<cancelled, inflight, portVars, gauge, matchRows, server, faults>>

-----------------------------------------------------------------------------
(* LocalDockerAllocator.Allocate. *)

(* ports.allocate: fails when either range is used up. *)
AllocatePorts(m) ==
    /\ At(m, "port")
    /\ \/ /\ HasFreePair
          /\ udpInUse' = udpInUse \cup {FreePair[1]}
          /\ tcpInUse' = tcpInUse \cup {FreePair[2]}
          /\ alloc' = [alloc EXCEPT ![m].pc = "create", ![m].pair = FreePair]
          /\ UNCHANGED told
       \/ /\ ~HasFreePair
          /\ GiveUp(m)
          /\ UNCHANGED <<udpInUse, tcpInUse>>
    /\ UNCHANGED <<cancelled, inflight, tracked, gauge, matchRows, server, faults>>

(* Mutant: a failed create keeps its ports. *)
CreateContainerLeaksPorts(m) ==
    /\ At(m, "create")
    /\ \/ /\ m \notin cancelled /\ Fresh # {}
          /\ server' = [server EXCEPT ![NewId] = [state |-> "created", kind |-> "local",
                                                  match |-> m, pair |-> alloc[m].pair]]
          /\ alloc' = [alloc EXCEPT ![m].pc = "start", ![m].d = NewId]
          /\ UNCHANGED <<udpInUse, tcpInUse, told, faults>>
       \/ /\ CallFails(m)
          /\ GiveUp(m)
          /\ UNCHANGED <<udpInUse, tcpInUse, server>>
    /\ UNCHANGED <<cancelled, inflight, tracked, gauge, matchRows>>

(* Mutant: a failed create ends the allocation and tells nobody. *)
CreateContainerSilent(m) ==
    /\ At(m, "create")
    /\ CallFails(m)
    /\ Release(alloc[m].pair)
    /\ Goto(m, "finish")
    /\ UNCHANGED <<cancelled, inflight, tracked, gauge, matchRows, server, told>>

CreateContainer(m) ==
    /\ At(m, "create")
    /\ \/ /\ m \notin cancelled /\ Fresh # {}
          /\ server' = [server EXCEPT ![NewId] = [state |-> "created", kind |-> "local",
                                                  match |-> m, pair |-> alloc[m].pair]]
          /\ alloc' = [alloc EXCEPT ![m].pc = "start", ![m].d = NewId]
          /\ UNCHANGED <<udpInUse, tcpInUse, told, faults>>
       \/ /\ CallFails(m)
          /\ Release(alloc[m].pair)
          /\ GiveUp(m)
          /\ UNCHANGED server
    /\ UNCHANGED <<cancelled, inflight, tracked, gauge, matchRows>>

StartContainer(m) ==
    LET d == alloc[m].d IN
    /\ At(m, "start")
    /\ \/ /\ m \notin cancelled /\ Bindable(d)
          /\ server' = InState(d, "booting")
          /\ Goto(m, "wait")
          /\ UNCHANGED faults
       \/ /\ m \notin cancelled /\ ~Bindable(d)
          /\ Goto(m, "undo")
          /\ UNCHANGED <<server, faults>>
       \/ /\ CallFails(m)
          /\ \/ UNCHANGED server
             \/ Bindable(d) /\ server' = InState(d, "booting")
          /\ Goto(m, "undo")
    /\ UNCHANGED <<cancelled, inflight, portVars, gauge, matchRows, told>>

(* waitForServerRegistered times out while there is no registration. *)
WaitForServer(m) ==
    LET d == alloc[m].d IN
    /\ At(m, "wait")
    /\ \/ /\ m \notin cancelled /\ d \in registered
          /\ tracked' = [tracked EXCEPT ![d] = alloc[m].pair]
          /\ Goto(m, "checkpoint")
       \/ /\ m \in cancelled \/ d \notin registered
          /\ Goto(m, "undo")
          /\ UNCHANGED tracked
    /\ UNCHANGED <<cancelled, inflight, udpInUse, tcpInUse, gauge, matchRows, server,
                   told, faults>>

(* Mutant: the ports go back to the pool, the container is left alone. *)
UndoStartNoStop(m) ==
    /\ At(m, "undo")
    /\ Release(alloc[m].pair)
    /\ GiveUp(m)
    /\ UNCHANGED <<cancelled, inflight, tracked, gauge, matchRows, server, faults>>

(* Stop the container with allocCtx, ignoring the error, and release the pair. *)
UndoStart(m) ==
    /\ At(m, "undo")
    /\ \/ m \notin cancelled /\ server' = Stopped(alloc[m].d) /\ UNCHANGED faults
       \/ CallFails(m) /\ server' \in {server, Stopped(alloc[m].d)}
    /\ Release(alloc[m].pair)
    /\ GiveUp(m)
    /\ UNCHANGED <<cancelled, inflight, tracked, gauge, matchRows>>

-----------------------------------------------------------------------------
(* The Edgegap retry loop and tryAllocate. *)

(* Mutant: one attempt too many. *)
AfterAttemptOneMore(m) ==
    IF m \in cancelled \/ alloc[m].try > MaxAttempts
    THEN GiveUp(m)
    ELSE Goto(m, "backoff") /\ UNCHANGED told

(* After a failed attempt: stop retrying once cancelled, else try again. *)
AfterAttempt(m) ==
    IF m \in cancelled \/ alloc[m].try = MaxAttempts
    THEN GiveUp(m)
    ELSE Goto(m, "backoff") /\ UNCHANGED told

Deploy(m) ==
    /\ At(m, "deploy")
    /\ Fresh # {}
    /\ LET deployed == [server EXCEPT ![NewId] = [state |-> "booting", kind |-> "edgegap",
                                                  match |-> m, pair |-> NoPorts]] IN
       \/ /\ m \notin cancelled
          /\ server' = deployed
          /\ alloc' = [alloc EXCEPT ![m].pc = "poll", ![m].d = NewId, ![m].try = @ + 1]
          /\ UNCHANGED <<told, faults>>
       \/ /\ CallFails(m)
          /\ server' \in {server, deployed}
          /\ alloc' = [alloc EXCEPT ![m].pc = "stop", ![m].d = 0, ![m].try = @ + 1]
          /\ UNCHANGED told
    /\ UNCHANGED <<cancelled, inflight, portVars, gauge, matchRows>>

(* Poll until READY, check the address and the TCP port, and wait for the   *)
(* registration; an attempt may fail at each of them.                        *)
PollDeploy(m) ==
    /\ At(m, "poll")
    /\ \/ m \notin cancelled /\ alloc[m].d \in registered /\ Goto(m, "checkpoint")
       \/ Goto(m, "stop")
    /\ UNCHANGED <<cancelled, inflight, portVars, gauge, matchRows, server, told, faults>>

(* Mutant: a failed attempt leaves its deploy running. *)
StopAttemptSkipped(m) ==
    /\ At(m, "stop")
    /\ AfterAttempt(m)
    /\ UNCHANGED <<cancelled, inflight, portVars, gauge, matchRows, server, faults>>

(* tryAllocate's stopDeploy, with allocCtx; there is no deploy to stop when  *)
(* the Deploy call itself failed.                                            *)
StopAttempt(m) ==
    LET d == alloc[m].d IN
    /\ At(m, "stop")
    /\ IF d = 0
       THEN UNCHANGED <<server, faults>>
       ELSE \/ m \notin cancelled /\ server' = Stopped(d) /\ UNCHANGED faults
            \/ CallFails(m) /\ server' \in {server, Stopped(d)}
    /\ AfterAttempt(m)
    /\ UNCHANGED <<cancelled, inflight, portVars, gauge, matchRows>>

Backoff(m) ==
    /\ At(m, "backoff")
    /\ IF m \in cancelled THEN GiveUp(m) ELSE Goto(m, "deploy") /\ UNCHANGED told
    /\ UNCHANGED <<cancelled, inflight, portVars, gauge, matchRows, server, faults>>

-----------------------------------------------------------------------------
(* The rest of runAllocation, common to both backends. *)

RecordStart(kind) == gauge' = [gauge EXCEPT ![kind] = @ + 1]

(* The post-allocation cancel check; recordAllocationStart when it passes. *)
Checkpoint(m) ==
    LET r == alloc[m] IN
    /\ At(m, "checkpoint")
    /\ IF m \in cancelled
       THEN Goto(m, "teardown") /\ UNCHANGED gauge
       ELSE /\ Goto(m, IF r.probe THEN "mark" ELSE "meta")
            /\ RecordStart(r.kind)
    /\ UNCHANGED <<cancelled, inflight, portVars, matchRows, server, told, faults>>

(* Mutant: the cancelled allocation is torn down and then goes on. *)
TeardownGoesOn(m) ==
    LET d == alloc[m].d IN
    /\ At(m, "teardown")
    /\ server' = IF alloc[m].kind = "edgegap" THEN Stopped(d) ELSE server
    /\ told' = [told EXCEPT ![m] = "cancelled"]
    /\ Goto(m, "meta")
    /\ UNCHANGED <<cancelled, inflight, portVars, gauge, matchRows, faults>>

(* stopDeploy asks Edgegap whichever backend allocated, and Edgegap knows    *)
(* nothing of a local request id.                                            *)
Teardown(m) ==
    LET d == alloc[m].d IN
    /\ At(m, "teardown")
    /\ \/ server' = (IF alloc[m].kind = "edgegap" THEN Stopped(d) ELSE server)
          /\ UNCHANGED faults
       \/ Fault("allocation") /\ UNCHANGED server
    /\ Tell(m, "cancelled")
    /\ UNCHANGED <<cancelled, inflight, portVars, gauge, matchRows>>

MarkSynthetic(m) ==
    /\ At(m, "mark")
    /\ \/ marked' = marked \cup {alloc[m].d} /\ UNCHANGED faults
       \/ Fault("allocation") /\ UNCHANGED marked
    /\ Goto(m, "meta")
    /\ UNCHANGED <<cancelled, inflight, portVars, gauge, registered, meta, server, told>>

WriteMetadata(m) ==
    /\ At(m, "meta")
    /\ \/ meta' = [meta EXCEPT ![alloc[m].d] = alloc[m].kind] /\ UNCHANGED faults
       \/ Fault("allocation") /\ UNCHANGED meta
    /\ Goto(m, "notify")
    /\ UNCHANGED <<cancelled, inflight, portVars, gauge, registered, marked, server, told>>

NotifyReady(m) ==
    /\ At(m, "notify")
    /\ Tell(m, "ready")
    /\ UNCHANGED <<cancelled, inflight, portVars, gauge, matchRows, server, faults>>

(* Mutant: the entry is deleted whoever's it is. *)
FinishDeletesAny(m) ==
    /\ At(m, "finish")
    /\ inflight' = [u \in Users |-> IF u \in alloc[m].users THEN None ELSE inflight[u]]
    /\ Goto(m, "done")
    /\ UNCHANGED <<cancelled, portVars, gauge, matchRows, server, told, faults>>

(* deregisterInflight: CompareAndDelete keeps the entry of a later match. *)
Finish(m) ==
    /\ At(m, "finish")
    /\ inflight' = [u \in Users |-> IF u \in alloc[m].users /\ inflight[u] = m
                                    THEN None ELSE inflight[u]]
    /\ Goto(m, "done")
    /\ UNCHANGED <<cancelled, portVars, gauge, matchRows, server, told, faults>>

-----------------------------------------------------------------------------
(* Game servers: register_server once the server listens, and the end of a  *)
(* server by itself: a crash, its own exit, Edgegap's max_duration.          *)

RegisterServer(d) ==
    /\ server[d].state = "booting"
    /\ server' = InState(d, "up")
    /\ registered' = registered \cup {d}
    /\ UNCHANGED <<alloc, cancelled, inflight, portVars, gauge, meta, marked, told, faults>>

ServerExit(d) ==
    /\ Live(d)
    /\ server' = InState(d, "gone")
    /\ UNCHANGED <<alloc, cancelled, inflight, portVars, gauge, matchRows, told, faults>>

(* Nakama restarts: memory is lost, rows and game servers stay. *)
Restart ==
    /\ Fault("restart")
    /\ alloc' = [m \in Matches |-> IF Running(m) THEN [alloc[m] EXCEPT !.pc = "lost"]
                                                 ELSE alloc[m]]
    /\ inflight' = [u \in Users |-> None]
    /\ udpInUse' = {} /\ tcpInUse' = {}
    /\ tracked' = [d \in RequestIds |-> NoPorts]
    /\ gauge' = [k \in Kinds |-> 0]
    /\ UNCHANGED <<cancelled, matchRows, server, told>>

-----------------------------------------------------------------------------
FleetInit ==
    /\ alloc = [m \in Matches |-> NoAllocation]
    /\ cancelled = {}
    /\ inflight = [u \in Users |-> None]
    /\ udpInUse = {} /\ tcpInUse = {}
    /\ tracked = [d \in RequestIds |-> NoPorts]
    /\ gauge = [k \in Kinds |-> 0]
    /\ registered = {} /\ marked = {}
    /\ meta = [d \in RequestIds |-> "none"]
    /\ server = [d \in RequestIds |-> NoServer]
    /\ told = [m \in Matches |-> "none"]
    /\ faults = 0

(* The goroutine of m makes its next call. *)
Allocate(m) ==
    \/ Checks(m) \/ AllocatePorts(m) \/ CreateContainer(m) \/ StartContainer(m)
    \/ WaitForServer(m) \/ UndoStart(m) \/ Deploy(m) \/ PollDeploy(m) \/ StopAttempt(m)
    \/ Backoff(m) \/ Checkpoint(m) \/ Teardown(m) \/ MarkSynthetic(m)
    \/ WriteMetadata(m) \/ NotifyReady(m) \/ Finish(m)

FleetStep ==
    \/ \E m \in Matches :
         \/ \E us \in Rosters, k \in Backends, p \in Probes : Matched(m, us, k, p)
         \/ Allocate(m)
    \/ \E u \in Users : Cancel(u)
    \/ \E d \in RequestIds : RegisterServer(d) \/ ServerExit(d)

FleetNext == FleetStep \/ Restart

FleetSpec == FleetInit /\ [][FleetNext]_fleetVars

(* The runtime goes on with every allocation it has started. *)
FairFleetSpec == FleetSpec /\ \A m \in Matches : WF_fleetVars(Allocate(m))

-----------------------------------------------------------------------------
(* Every variable keeps its type. *)
FleetTypeOK ==
    /\ alloc \in [Matches -> Allocation]
    /\ cancelled \subseteq Matches
    /\ inflight \in [Users -> Matches \cup {None}]
    /\ udpInUse \subseteq 1 .. NUdp
    /\ tcpInUse \subseteq 1 .. NTcp
    /\ tracked \in [RequestIds -> Pairs \cup {NoPorts}]
    /\ gauge \in [Kinds -> Nat]
    /\ registered \subseteq RequestIds
    /\ meta \in [RequestIds -> Kinds \cup {"none"}]
    /\ marked \subseteq RequestIds
    /\ server \in [RequestIds -> Server]
    /\ told \in [Matches -> Outcomes]
    /\ faults \in 0 .. MaxFaults

(* A port pair is held by the goroutine that allocated it, until trackPorts  *)
(* hands it to the deploy, whose Stop releases it.                           *)
Holding(m) == alloc[m].pc \in {"create", "start", "wait", "undo"}

Held == {m \in Matches : Holding(m)}

Tracked == {d \in RequestIds : tracked[d] # NoPorts}

(* The pool knows exactly the pairs somebody will release (SP26): none is    *)
(* lost, and none has two owners, so that releasing one never frees a port   *)
(* another match uses.                                                       *)
PortLedger ==
    /\ udpInUse = {alloc[m].pair[1] : m \in Held} \cup {tracked[d][1] : d \in Tracked}
    /\ tcpInUse = {alloc[m].pair[2] : m \in Held} \cup {tracked[d][2] : d \in Tracked}
    /\ \A i \in {1, 2} :
         /\ \A m, n \in Held : m # n => alloc[m].pair[i] # alloc[n].pair[i]
         /\ \A d, e \in Tracked : d # e => tracked[d][i] # tracked[e][i]
         /\ \A m \in Held, d \in Tracked : alloc[m].pair[i] # tracked[d][i]

(* As long as no call fails and nobody cancels, no free pair is bound by a   *)
(* running container: Docker never refuses a container its ports.            *)
BoundPortsInUse ==
    faults = 0 /\ cancelled = {} =>
        \A d \in RequestIds : Live(d) /\ server[d].kind = "local" =>
            server[d].pair[1] \in udpInUse /\ server[d].pair[2] \in tcpInUse

(* tryAllocate's comment, "on any failure after a successful Deploy, attempts *)
(* a best-effort Stop on the allocated deploy so retries don't leak": when no *)
(* call fails, an allocation that gave up has left no game server behind.     *)
FailedMatchLeavesNoServer ==
    faults = 0 => \A m \in Matches \ cancelled : told[m] = "failed" =>
        \A d \in RequestIds : server[d].match = m => ~Live(d)

(* inflightAllocation's comment, "a best-effort Edgegap Stop on any deploy    *)
(* that already started": when no call fails by itself, a match whose players *)
(* were told it is cancelled has no game server left.                         *)
CancelledMatchLeavesNoServer ==
    faults = 0 => \A m \in Matches : told[m] = "cancelled" =>
        \A d \in RequestIds : server[d].match = m => ~Live(d)

(* deregisterInflight's comment, "we don't blow away the newer entry": a      *)
(* player can cancel the last match formed with them as long as it allocates. *)
LastMatchCancellable ==
    faults = 0 => \A m \in Matches : Running(m) =>
        \A u \in alloc[m].users :
            (\A n \in Matches : n > m => u \notin alloc[n].users) => inflight[u] = m

(* match_ready or match_failed finishes the story: no player is told one     *)
(* outcome and then another.                                                 *)
OneOutcome == [][\A m \in Matches : told[m] # "none" => told'[m] = told[m]]_fleetVars

(* OnMatchmakerMatched's comment, "let match_ready / match_failed finish the  *)
(* story": everyone matched hears an outcome, unless the runtime restarts.    *)
EveryoneTold ==
    \A m \in Matches : Running(m) ~> (told[m] # "none" \/ alloc[m].pc = "lost")

=============================================================================
