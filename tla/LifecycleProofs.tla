-------------------------- MODULE LifecycleProofs --------------------------
(***************************************************************************)
(* The end of a match, for every value of the constants: proofs of          *)
(* LifecycleTypeOK, AcceptedIsRecorded, ResolvedMatchIsReleased and          *)
(* GaugeExact, on top of what FleetProofs and FleetOutcomeProofs know of     *)
(* the allocation.                                                           *)
(***************************************************************************)
EXTENDS MatchLifecycle, FleetOutcomeProofs

(* The match_end call has yet to write its scores. *)
Unscored == {c \in Calls : call[c].pc \in {"end.metadata", "end.synthetic", "end.scores"}}

Active == {c \in Calls : call[c].pc # "idle"}

(* Each call writes a player's score once, and counts one end, at the most. *)
ResultTypes ==
    /\ call \in [Calls -> Call]
    /\ closing \in [RequestIds -> {"none", "end", "cancel"}]
    /\ reported \in [RequestIds -> SUBSET Users]
    /\ scores \in [RequestIds -> [Users -> Nat]]
    /\ history \in [RequestIds -> SUBSET Users]
    /\ accepted \subseteq RequestIds
    /\ swept \subseteq RequestIds
    /\ ended \in [RequestIds -> Nat]
    /\ overlapped \subseteq RequestIds
    /\ made \in 0 .. MaxCalls
    /\ IsFiniteSet(Unscored) /\ IsFiniteSet(Active)
    /\ \A d \in RequestIds : /\ ended[d] + Cardinality(Active) <= made
                             /\ \A u \in Users : scores[d][u] + Cardinality(Unscored) <= made

EndOnly == {"end.metadata", "end.synthetic", "end.scores", "end.history"}

CancelOnly == {"sweep", "cancel.synthetic", "cancel.metadata"}

(* Where a call deletes the rows and stops the server. *)
Closing == {"delete", "stop", "release"}

(* What is known of one call: it is about a match that has been told, of the *)
(* backend that served it; a match_end keeps the matched players it reports, *)
(* and goes on past its writes only when they succeeded.                     *)
CallOf(c) ==
    LET r == call[c]
        s == server[r.d]
        a == alloc[s.match] IN
    /\ r.pc = "idle" => r = NoCall
    /\ r.pc \in EndOnly => r.end
    /\ r.pc \in CancelOnly => ~r.end
    /\ r.pc # "idle" =>
         /\ r.d \in RequestIds /\ s.match \in Matches /\ a.pc \in Ended
         /\ r.kind \in {"none", s.kind}
         /\ r.end => closing[r.d] = "end"
         /\ r.pc # "sweep" => s.state \in Came
         /\ r.pc = "sweep" /\ a.d = r.d => s.state \in Came /\ r.d \notin registered
         /\ r.pc = "release" => s.state = "gone"
         /\ r.pc \in {"stop", "release"} /\ faults = 0 => r.d \notin registered
         /\ r.end /\ r.pc # "end.metadata" =>
              r.players = reported[r.d] \cap a.users /\ r.kind = s.kind
         /\ r.pc = "end.history" /\ ~r.failed => \A u \in r.players : scores[r.d][u] > 0
         /\ r.end /\ r.pc \in Closing =>
              a.probe \/ \A u \in r.players : scores[r.d][u] > 0 /\ u \in history[r.d]

(* As long as no call fails, a call is about the deploy its match ended up   *)
(* with, and one that read the metadata in time knows the backend.           *)
BackendOf(c) ==
    LET r == call[c]
        s == server[r.d]
        a == alloc[s.match] IN
    faults = 0 /\ r.pc \notin {"idle", "sweep"} /\ s.match \notin cancelled =>
        /\ told[s.match] = "ready"
        /\ ~r.client \/ r.pc # "cancel.synthetic" => a.d = r.d
        /\ r.pc \in Closing /\ (r.d \in registered \/ r.d \notin overlapped) => r.kind = s.kind

(* A match that calls do not overlap about. *)
AloneOf(d) ==
    d \notin overlapped =>
        /\ \A b, c \in About(d) : b = c
        /\ \A c \in About(d) :
             /\ call[c].pc \notin {"sweep", "stop", "release"} => d \in registered
             /\ faults = 0 /\ call[c].pc # "sweep" => ended[d] = 0

(* Only a server that said it ends its match has results. *)
ResultOf(d) ==
    /\ server[d].match = None => closing[d] = "none"
    /\ closing[d] # "end" =>
         /\ d \notin accepted /\ history[d] = {}
         /\ \A u \in Users : scores[d][u] = 0

EndedOf(d) ==
    /\ ended[d] > 0 =>
         server[d].match # None /\ server[d].state \in Came /\ alloc[server[d].match].pc \in Ended
    /\ faults = 0 /\ d \in registered => ended[d] = 0

Recorded(d) ==
    /\ d \in accepted /\ ~alloc[MatchOf(d)].probe =>
         \A u \in reported[d] \cap alloc[MatchOf(d)].users :
             scores[d][u] > 0 /\ u \in history[d]
    /\ \A u \in Users : scores[d][u] > 0 \/ u \in history[d] =>
         u \in reported[d] \cap alloc[MatchOf(d)].users

Released(d) ==
    faults = 0 /\ d \notin registered \cup swept /\ server[d].match \notin cancelled
               /\ (server[d].state = "up" \/ tracked[d] # NoPorts) =>
        \E c \in About(d) : call[c].pc \in Closing /\ call[c].kind = server[d].kind

NotLost == faults = 0 => \A m \in Matches : alloc[m].pc # "lost"

CallsInv == \A c \in Calls : CallOf(c) /\ BackendOf(c)

EndsInv == \A d \in RequestIds : AloneOf(d) /\ EndedOf(d)

ResultsInv == \A d \in RequestIds : ResultOf(d) /\ (server[d].match # None => Recorded(d))

ReleasedInv == \A d \in RequestIds : Released(d)

-----------------------------------------------------------------------------
(* What no step takes from a request id, or from a match, that a call is     *)
(* about.                                                                    *)

ServerKeeps(e) ==
    server[e].state # "none" =>
        /\ server'[e].match = server[e].match
        /\ server'[e].kind = server[e].kind
        /\ server'[e].state # "none"
        /\ server[e].state \in Came => server'[e].state \in Came
        /\ server[e].state = "gone" => server'[e].state = "gone"

ResultsKeep(e) ==
    /\ \A u \in Users : scores[e][u] > 0 => scores'[e][u] > 0
    /\ history[e] \subseteq history'[e]
    /\ closing[e] = "end" => closing'[e] = "end" /\ reported'[e] = reported[e]

Moves(e) ==
    /\ ServerKeeps(e)
    /\ e \in registered' => e \in registered \/ server[e].state = "booting"
    /\ ResultsKeep(e)

MatchKeeps(m) ==
    /\ alloc[m].pc # "idle" =>
         alloc'[m].users = alloc[m].users /\ alloc'[m].probe = alloc[m].probe
    /\ alloc[m].pc \in Ended =>
         alloc'[m].pc \in Ended /\ alloc'[m].d = alloc[m].d /\ told'[m] = told[m]

(* A call that does not move stays what it is. *)
LEMMA CallFrame ==
    ASSUME TypeInv, StoryInv, NEW c \in Calls, CallOf(c), BackendOf(c), call'[c] = call[c],
           Clock,
           overlapped \subseteq overlapped',
           \A e \in RequestIds : Moves(e), \A m \in Matches : MatchKeeps(m)
    PROVE  CallOf(c)' /\ BackendOf(c)'
<1>1. CASE call[c].pc = "idle"
    <2>1. call'[c] = NoCall /\ call'[c].pc = "idle"
        BY <1>1 DEF CallOf
    <2>2. QED
        BY <2>1 DEF CallOf, BackendOf, EndOnly, CancelOnly
<1>2. CASE call[c].pc # "idle"
    <2>1. PICK d \in RequestIds : d = call[c].d
        BY <1>2 DEF CallOf
    <2>2. PICK m \in Matches : m = server[d].match
        BY <1>2, <2>1 DEF CallOf
    <2>3. alloc[m].pc \in Ended /\ alloc[m].pc # "idle" /\ server[d].state # "none"
        BY <1>2, <2>1, <2>2, Constants DEF CallOf, Ended, StoryInv, HostOf
    <2>4. /\ server'[d].match = m /\ server'[d].kind = server[d].kind
          /\ server[d].state \in Came => server'[d].state \in Came
          /\ server[d].state = "gone" => server'[d].state = "gone"
          /\ d \in registered' => d \in registered \/ server[d].state \notin Came
          /\ \A u \in Users : scores[d][u] > 0 => scores'[d][u] > 0
          /\ history[d] \subseteq history'[d]
          /\ closing[d] = "end" => closing'[d] = "end" /\ reported'[d] = reported[d]
        BY <2>2, <2>3 DEF Moves, ServerKeeps, ResultsKeep, Came
    <2>5. /\ alloc'[m].users = alloc[m].users /\ alloc'[m].probe = alloc[m].probe
          /\ alloc'[m].pc \in Ended /\ alloc'[m].d = alloc[m].d /\ told'[m] = told[m]
        BY <2>3 DEF MatchKeeps
    <2>6. CallOf(c)'
        <3> DEFINE r == call[c]
        <3>1. /\ r.pc \in EndOnly => r.end
              /\ r.pc \in CancelOnly => ~r.end
              /\ r.kind \in {"none", server'[d].kind}
              /\ r.end => closing'[d] = "end"
            BY <1>2, <2>1, <2>2, <2>4 DEF CallOf
        <3>2. /\ r.pc # "sweep" => server'[d].state \in Came
              /\ r.pc = "sweep" /\ alloc'[m].d = d => server'[d].state \in Came /\ d \notin registered'
              /\ r.pc = "release" => server'[d].state = "gone"
              /\ r.pc \in {"stop", "release"} /\ faults' = 0 => d \notin registered'
            BY <1>2, <2>1, <2>2, <2>4, <2>5 DEF CallOf, Clock
        <3>3. /\ r.end /\ r.pc # "end.metadata" =>
                   r.players = reported'[d] \cap alloc'[m].users /\ r.kind = server'[d].kind
              /\ r.pc = "end.history" /\ ~r.failed => \A u \in r.players : scores'[d][u] > 0
              /\ r.end /\ r.pc \in Closing => alloc'[m].probe \/
                     \A u \in r.players : scores'[d][u] > 0 /\ u \in history'[d]
            <4>1. /\ r.pc \in EndOnly => r.end
                  /\ r.end => closing[d] = "end"
                  /\ r.end /\ r.pc # "end.metadata" =>
                       r.players = reported[d] \cap alloc[m].users /\ r.kind = server[d].kind
                  /\ r.pc = "end.history" /\ ~r.failed => \A u \in r.players : scores[d][u] > 0
                  /\ r.end /\ r.pc \in Closing => alloc[m].probe \/
                         \A u \in r.players : scores[d][u] > 0 /\ u \in history[d]
                BY <1>2, <2>1, <2>2 DEF CallOf
            <4>2. alloc[m].users \subseteq Users /\ "end.history" \in EndOnly
                BY KnownDeploy DEF Allocation, EndOnly
            <4> HIDE DEF r
            <4>3. QED
                BY <4>1, <4>2, <2>4, <2>5 DEF Closing
        <3>4. call'[c] = r /\ r.d = d /\ server'[d].match = m /\ m \in Matches /\ r.pc # "idle"
              /\ alloc'[m].pc \in Ended
            BY <1>2, <2>1, <2>4, <2>5
        <3> HIDE DEF r
        <3>5. QED
            BY <3>1, <3>2, <3>3, <3>4 DEF CallOf
    <2>7. BackendOf(c)'
        <3>1. (faults' = 0 => faults = 0) /\ (m \notin cancelled' => m \notin cancelled)
            BY DEF Clock
        <3>2. call[c].pc \in Closing => server[d].state \in Came
            BY <1>2, <2>1, <2>2 DEF CallOf, Closing
        <3>3. faults = 0 /\ call[c].pc \notin {"idle", "sweep"} /\ m \notin cancelled =>
                /\ told[m] = "ready"
                /\ ~call[c].client \/ call[c].pc # "cancel.synthetic" => alloc[m].d = d
                /\ call[c].pc \in Closing /\ (d \in registered \/ d \notin overlapped) =>
                     call[c].kind = server[d].kind
            BY <2>1, <2>2 DEF BackendOf
        <3>4. call'[c].d = d /\ server'[d].match = m
            BY <2>1, <2>4
        <3>5. QED
            BY <2>4, <2>5, <3>1, <3>2, <3>3, <3>4 DEF BackendOf
    <2>8. QED
        BY <2>6, <2>7
<1>3. QED
    BY <1>1, <1>2

-----------------------------------------------------------------------------
(* The steps of the allocation, seen by the calls. *)

LEMMA InStateKeeps ==
    ASSUME TypeInv, NEW d \in RequestIds, NEW s \in ServerStates \ {"none"},
           server' = InState(d, s),
           server[d].state \in Came => s \in Came, server[d].state = "gone" => s = "gone"
    PROVE  /\ \A e \in RequestIds : ServerKeeps(e)
           /\ \A e \in RequestIds \ {d} : server'[e] = server[e]
           /\ server'[d].state = s
<1>1. server[d] \in Server /\ server' = [server EXCEPT ![d] = [server[d] EXCEPT !.state = s]]
    BY DEF TypeInv, RestOK, InState
<1>2. /\ server'[d].match = server[d].match /\ server'[d].kind = server[d].kind
      /\ server'[d].state = s
    BY <1>1 DEF TypeInv, RestOK, Server
<1>3. \A e \in RequestIds \ {d} : server'[e] = server[e]
    BY <1>1 DEF TypeInv, RestOK
<1>4. QED
    BY <1>2, <1>3 DEF ServerKeeps

LEMMA StoppedKeeps ==
    ASSUME TypeInv, NEW d \in RequestIds, server' \in {server, Stopped(d)}
    PROVE  \A e \in RequestIds : ServerKeeps(e) /\ (server'[e].state = "up" => server[e].state = "up")
<1>1. CASE server' = server
    BY <1>1 DEF ServerKeeps
<1>2. CASE server' = InState(d, "gone")
    <2>1. "gone" \in ServerStates \ {"none"} /\ "gone" \in Came
        BY DEF ServerStates, Came
    <2>2. QED
        BY <1>2, <2>1, InStateKeeps
<1>3. QED
    BY <1>1, <1>2 DEF Stopped

LEMMA AllocateServers ==
    ASSUME TypeInv, StoryInv, NEW m \in Matches, Allocate(m)
    PROVE  \A e \in RequestIds : ServerKeeps(e) /\ (server'[e].state = "up" => server[e].state = "up")
<1>1. CASE CreateContainer(m) \/ Deploy(m)
    <2>1. CASE server' = server
        BY <2>1 DEF ServerKeeps
    <2>2. ASSUME NEW s, s.state \in {"created", "booting"}, Fresh # {},
                 server' = [server EXCEPT ![NewId] = s]
          PROVE  \A e \in RequestIds :
                     ServerKeeps(e) /\ (server'[e].state = "up" => server[e].state = "up")
        BY <2>2, NewIdIsFresh DEF ServerKeeps, TypeInv, RestOK
    <2> DEFINE r == [state |-> "created", kind |-> "local", match |-> m, pair |-> alloc[m].pair]
    <2> DEFINE t == [state |-> "booting", kind |-> "edgegap", match |-> m, pair |-> NoPorts]
    <2>3. r.state = "created" /\ t.state = "booting"
        OBVIOUS
    <2>4. \/ server' = server
          \/ Fresh # {} /\ server' = [server EXCEPT ![NewId] = r]
          \/ Fresh # {} /\ server' = [server EXCEPT ![NewId] = t]
        BY <1>1 DEF CreateContainer, Deploy
    <2> HIDE DEF r, t
    <2>5. QED
        BY <2>1, <2>2, <2>3, <2>4
<1>2. CASE StartContainer(m)
    <2>1. alloc[m].d \in RequestIds /\ server[alloc[m].d].state = "created"
        BY <1>2, KnownDeploy DEF StartContainer, At, Knows, StoryInv, StoryOf
    <2>2. CASE server' = server
        BY <2>2 DEF ServerKeeps
    <2>3. CASE server' = InState(alloc[m].d, "booting")
        <3>1. "booting" \in ServerStates \ {"none"} /\ "created" \notin Came
            BY DEF ServerStates, Came
        <3>2. QED
            BY <2>1, <2>3, <3>1, InStateKeeps
    <2>4. QED
        BY <1>2, <2>2, <2>3 DEF StartContainer
<1>3. CASE UndoStart(m) \/ StopAttempt(m) \/ Teardown(m)
    <2>1. CASE server' = server
        BY <2>1 DEF ServerKeeps
    <2>2. CASE server' # server
        <3>1. alloc[m].d \in RequestIds
            BY <1>3, <2>2, KnownDeploy, Constants DEF UndoStart, StopAttempt, Teardown, At, Knows
        <3>2. server' \in {server, Stopped(alloc[m].d)}
            BY <1>3, <2>2 DEF UndoStart, StopAttempt, Teardown
        <3>3. QED
            BY <3>1, <3>2, StoppedKeeps
    <2>3. QED
        BY <2>1, <2>2
<1>4. CASE server' = server
    BY <1>4 DEF ServerKeeps
<1>5. QED
    BY <1>1, <1>2, <1>3, <1>4
    DEF Allocate, Checks, AllocatePorts, WaitForServer, PollDeploy, Backoff, Checkpoint,
        MarkSynthetic, WriteMetadata, NotifyReady, Finish

(* All that a goroutine still does once its players are told is to finish. *)
LEMMA AllocateMatch ==
    ASSUME TypeInv, StoryInv, NEW m \in Matches, Allocate(m)
    PROVE  \A n \in Matches : MatchKeeps(n)
<1>1. Profile(m)
    BY AllocateProfile
<1>2. alloc[m].pc \in Ended => alloc'[m].d = alloc[m].d
    <2>1. alloc[m].pc \in Ended => Finish(m)
        BY DEF Ended, At, Allocate, Checks, AllocatePorts, CreateContainer, StartContainer,
            WaitForServer, UndoStart, Deploy, PollDeploy, StopAttempt, Backoff, Checkpoint,
            Teardown, MarkSynthetic, WriteMetadata, NotifyReady
    <2>2. Finish(m) => alloc'[m].d = alloc[m].d
        BY KnownDeploy DEF Finish, Goto, TypeInv, Allocation
    <2>3. QED
        BY <2>1, <2>2
<1>3. QED
    BY <1>1, <1>2 DEF Profile, MatchKeeps

(* What a step of the allocation does to a request id. *)
FleetMoves(e) ==
    /\ ServerKeeps(e)
    /\ e \in registered' => e \in registered \/ server[e].state = "booting"
    /\ e \in registered => e \in registered'
    /\ server'[e].state = "up" => server[e].state = "up" \/ e \in registered'
    /\ tracked'[e] # NoPorts => tracked[e] # NoPorts \/ e \in registered
    /\ tracked'[e] # NoPorts => server[e].state # "none"

LEMMA AllocateMoves ==
    ASSUME TypeInv, StoryInv, NEW m \in Matches, Allocate(m)
    PROVE  /\ \A e \in RequestIds : FleetMoves(e)
           /\ \A n \in Matches : MatchKeeps(n)
           /\ Clock
<1>1. registered' = registered /\ cancelled' = cancelled
    BY DEF Allocate, Checks, AllocatePorts, CreateContainer, StartContainer, WaitForServer,
        UndoStart, Deploy, PollDeploy, StopAttempt, Backoff, Checkpoint, Teardown,
        MarkSynthetic, WriteMetadata, NotifyReady, Finish, matchRows
<1>2. \A e \in RequestIds : tracked[e] # NoPorts => server[e].state # "none"
    BY DEF StoryInv, HostOf
<1>3. \A e \in RequestIds : tracked'[e] # NoPorts =>
          tracked[e] # NoPorts \/ (e \in registered /\ server[e].state # "none")
    <2>1. CASE WaitForServer(m)
        <3>1. tracked' = tracked \/ (alloc[m].d \in registered
                  /\ tracked' = [tracked EXCEPT ![alloc[m].d] = alloc[m].pair])
            BY <2>1 DEF WaitForServer
        <3>2. \A e \in RequestIds : e \in registered => server[e].state # "none"
            BY DEF StoryInv, HostOf, Came
        <3>3. QED
            BY <3>1, <3>2 DEF TypeInv, RestOK
    <2>2. QED
        BY <2>1, AllocateTracks
<1>4. Clock
    BY <1>1, AllocateTracks DEF Clock
<1>5. QED
    BY <1>1, <1>2, <1>3, <1>4, AllocateServers, AllocateMatch DEF FleetMoves

LEMMA FleetStepMoves ==
    ASSUME TypeInv, StoryInv, FleetStep
    PROVE  /\ \A e \in RequestIds : FleetMoves(e)
           /\ \A n \in Matches : MatchKeeps(n)
           /\ Clock
<1>1. ASSUME UNCHANGED <<registered, tracked, server>>
      PROVE  \A e \in RequestIds : FleetMoves(e)
    BY <1>1 DEF FleetMoves, ServerKeeps, StoryInv, HostOf
<1>2. ASSUME NEW m \in Matches, NEW us, NEW k, NEW p, Matched(m, us, k, p)
      PROVE  /\ \A e \in RequestIds : FleetMoves(e)
             /\ \A n \in Matches : MatchKeeps(n)
             /\ Clock
    <2>1. /\ UNCHANGED <<registered, tracked, server, told>> /\ Clock
          /\ alloc[m].pc = "idle" /\ "idle" \notin Ended
          /\ \A n \in Matches \ {m} : alloc'[n] = alloc[n]
        BY <1>2 DEF Matched, At, TypeInv, portVars, matchRows, Clock, Ended
    <2>2. QED
        BY <1>1, <2>1 DEF MatchKeeps
<1>3. ASSUME NEW u \in Users, Cancel(u)
      PROVE  /\ \A e \in RequestIds : FleetMoves(e)
             /\ \A n \in Matches : MatchKeeps(n)
             /\ Clock
    BY <1>1, <1>3 DEF Cancel, portVars, matchRows, MatchKeeps, Clock
<1>4. ASSUME NEW d \in RequestIds, RegisterServer(d) \/ ServerExit(d)
      PROVE  /\ \A e \in RequestIds : FleetMoves(e)
             /\ \A n \in Matches : MatchKeeps(n)
             /\ Clock
    <2>1. UNCHANGED <<alloc, told, tracked>> /\ Clock
        BY <1>4 DEF RegisterServer, ServerExit, portVars, Clock
    <2>2. {"up", "gone"} \subseteq ServerStates \ {"none"} /\ Came = {"up", "gone"}
        BY DEF ServerStates, Came
    <2>3. \A e \in RequestIds : tracked[e] # NoPorts => server[e].state # "none"
        BY DEF StoryInv, HostOf
    <2>4. CASE RegisterServer(d)
        <3>1. /\ server' = InState(d, "up") /\ registered' = registered \cup {d}
              /\ server[d].state = "booting"
            BY <2>4 DEF RegisterServer
        <3>2. /\ \A e \in RequestIds : ServerKeeps(e)
              /\ \A e \in RequestIds \ {d} : server'[e] = server[e]
            BY <2>2, <3>1, InStateKeeps
        <3>3. QED
            BY <2>1, <2>3, <3>1, <3>2 DEF FleetMoves, MatchKeeps
    <2>5. CASE ServerExit(d)
        <3>1. server' = InState(d, "gone") /\ registered' = registered
            BY <2>5 DEF ServerExit, matchRows
        <3>2. /\ \A e \in RequestIds : ServerKeeps(e)
              /\ \A e \in RequestIds \ {d} : server'[e] = server[e]
              /\ server'[d].state = "gone"
            BY <2>2, <3>1, InStateKeeps
        <3>3. QED
            BY <2>1, <2>3, <3>1, <3>2 DEF FleetMoves, MatchKeeps
    <2>6. QED
        BY <1>4, <2>4, <2>5
<1>5. ASSUME NEW m \in Matches, Allocate(m)
      PROVE  /\ \A e \in RequestIds : FleetMoves(e)
             /\ \A n \in Matches : MatchKeeps(n)
             /\ Clock
    BY <1>5, AllocateMoves
<1>6. QED
    BY <1>2, <1>3, <1>4, <1>5 DEF FleetStep

-----------------------------------------------------------------------------
(* The allocation, seen by the calls: what a call or the sweep does keeps    *)
(* the types, the ports' ledger and the stories.                             *)

(* No call but a failed one changes the faults. *)
MayFail == faults' = faults \/ Fault("lifecycle")

LEMMA MayFailClock ==
    ASSUME TypeInv, MayFail
    PROVE  faults' \in 0 .. MaxFaults /\ (faults' = 0 => faults = 0)
<1>1. CASE faults' = faults
    BY <1>1 DEF TypeInv, RestOK
<1>2. ASSUME NEW what, Fault(what)
      PROVE  faults' \in 0 .. MaxFaults /\ faults' # 0
    BY <1>2, FaultType, FaultClock DEF TypeInv
<1>3. CASE Fault("lifecycle")
    BY <1>2, <1>3
<1>4. QED
    BY <1>1, <1>3 DEF MayFail

(* Nothing but the calls and their results changes. *)
LEMMA QuietFleet ==
    ASSUME FleetInv, MayFail,
           UNCHANGED <<alloc, cancelled, inflight, portVars, gauge, matchRows, server, told>>
    PROVE  FleetInv'
<1>1. TypeInv'
    BY MayFailClock DEF FleetInv, TypeInv, RestOK, portVars, matchRows
<1>2. Clock /\ \A e \in RequestIds : Advances(e) /\ FewerRows(e)
    BY MayFailClock, SameServerAdvances, SameRowsFewer
    DEF FleetInv, Clock, SameRows, portVars, matchRows
<1>3. StoryInv'
    BY <1>1, <1>2, StoryWorld DEF FleetInv, matchRows
<1>4. LedgerInv'
    BY QuietWorld, SameServersKept DEF FleetInv
<1>5. QED
    BY <1>1, <1>3, <1>4 DEF FleetInv

(* Rows are deleted: the metadata of a match goes with its registration. *)
LEMMA RowsFleet ==
    ASSUME FleetInv, MayFail,
           UNCHANGED <<alloc, cancelled, inflight, portVars, gauge, server, told>>,
           registered' \subseteq registered, marked' \subseteq marked,
           meta' \in [RequestIds -> Kinds \cup {"none"}],
           \A e \in RequestIds : meta'[e] \in {meta[e], "none"},
           \A m \in Matches : alloc[m].d \in registered' => meta'[alloc[m].d] = meta[alloc[m].d]
    PROVE  FleetInv'
<1>1. TypeInv'
    BY MayFailClock DEF FleetInv, TypeInv, RestOK, portVars
<1>2. Clock /\ \A e \in RequestIds : Advances(e) /\ FewerRows(e)
    BY MayFailClock, SameServerAdvances DEF FleetInv, Clock, FewerRows, portVars
<1>3. StoryInv'
    BY <1>1, <1>2, StoryWorld DEF FleetInv
<1>4. LedgerInv'
    BY QuietWorld, SameServersKept DEF FleetInv
<1>5. QED
    BY <1>1, <1>3, <1>4 DEF FleetInv

(* A server is stopped, or one end is counted. *)
LEMMA StopFleet ==
    ASSUME FleetInv, MayFail, NEW d \in RequestIds, server' \in {server, Stopped(d)},
           UNCHANGED <<alloc, cancelled, inflight, portVars, matchRows, told>>,
           gauge' \in [Kinds -> Nat]
    PROVE  FleetInv'
<1>1. server' \in [RequestIds -> Server]
    BY StoppedType DEF FleetInv, TypeInv, RestOK
<1>2. TypeInv'
    BY <1>1, MayFailClock DEF FleetInv, TypeInv, RestOK, portVars, matchRows
<1>3. Clock /\ \A e \in RequestIds : Advances(e) /\ FewerRows(e)
    BY MayFailClock, StoppedAdvances, SameRowsFewer
    DEF FleetInv, TypeInv, Clock, SameRows, portVars, matchRows
<1>4. StoryInv'
    BY <1>2, <1>3, StoryWorld DEF FleetInv, matchRows
<1>5. LedgerInv'
    BY QuietWorld, StoppedKept DEF FleetInv
<1>6. QED
    BY <1>2, <1>4, <1>5 DEF FleetInv

(* The pair of a tracked deploy goes back to the pool: no other owner has it. *)
LEMMA ReleaseTracked ==
    ASSUME TypeInv, LedgerInv, NEW d \in Tracked, Release(tracked[d]),
           tracked' = [tracked EXCEPT ![d] = NoPorts], UNCHANGED <<alloc, server>>
    PROVE  LedgerInv'
<1> DEFINE P(i) == {alloc[n].pair[i] : n \in Held}
<1> DEFINE S(i) == {tracked[e][i] : e \in Tracked}
<1> DEFINE Q(i) == {tracked'[e][i] : e \in Tracked \ {d}}
<1>1. /\ \A e \in RequestIds : tracked'[e] = IF e = d THEN NoPorts ELSE tracked[e]
      /\ Held' = Held /\ Tracked \subseteq RequestIds /\ d \in RequestIds
    BY DEF TypeInv, RestOK, Tracked, Held, Holding
<1>2. Tracked' = Tracked \ {d}
    BY <1>1 DEF Tracked
<1>3. ASSUME NEW i \in {1, 2}
      PROVE  /\ Q(i) = S(i) \ {tracked[d][i]}
             /\ P(i) = P(i) \ {tracked[d][i]}
    <2>1. Q(i) = {tracked[e][i] : e \in Tracked \ {d}}
        BY <1>1
    <2>2. \A e \in Tracked \ {d} : tracked[e][i] # tracked[d][i]
        BY DEF LedgerInv, PortLedger
    <2>3. \A m \in Held : alloc[m].pair[i] # tracked[d][i]
        BY DEF LedgerInv, PortLedger
    <2>4. QED
        BY <2>1, <2>2, <2>3
<1>4. udpInUse' = P(1) \cup Q(1) /\ tcpInUse' = P(2) \cup Q(2)
    <2>1. udpInUse = P(1) \cup S(1) /\ tcpInUse = P(2) \cup S(2)
        BY DEF LedgerInv, PortLedger
    <2>2. /\ udpInUse' = udpInUse \ {tracked[d][1]}
          /\ tcpInUse' = tcpInUse \ {tracked[d][2]}
        BY DEF Release
    <2>3. 1 \in {1, 2} /\ 2 \in {1, 2}
        OBVIOUS
    <2> HIDE DEF P, Q, S
    <2>4. QED
        BY <1>3, <2>1, <2>2, <2>3
<1>5. \A i \in {1, 2} :
         /\ \A m, n \in Held : m # n => alloc[m].pair[i] # alloc[n].pair[i]
         /\ \A e, f \in Tracked \ {d} : e # f => tracked'[e][i] # tracked'[f][i]
         /\ \A m \in Held, e \in Tracked \ {d} : alloc[m].pair[i] # tracked'[e][i]
    BY <1>1 DEF LedgerInv, PortLedger
<1>6. PortLedger'
    BY <1>1, <1>2, <1>4, <1>5 DEF PortLedger
<1>7. OwnerOK'
    BY <1>1, KnownDeploy DEF LedgerInv, OwnerOK, Owning, Knows
<1>8. QED
    BY <1>6, <1>7 DEF LedgerInv

LEMMA ReleaseFleet ==
    ASSUME FleetInv, NEW d \in RequestIds,
           IF tracked[d] # NoPorts
           THEN Release(tracked[d]) /\ tracked' = [tracked EXCEPT ![d] = NoPorts]
           ELSE UNCHANGED portVars,
           UNCHANGED <<alloc, cancelled, inflight, matchRows, server, told, faults>>,
           gauge' \in [Kinds -> Nat]
    PROVE  FleetInv' /\ \A e \in RequestIds : tracked'[e] = IF e = d THEN NoPorts ELSE tracked[e]
<1>1. CASE tracked[d] # NoPorts
    <2>1. /\ udpInUse' \subseteq udpInUse /\ tcpInUse' \subseteq tcpInUse
          /\ \A e \in RequestIds : tracked'[e] = IF e = d THEN NoPorts ELSE tracked[e]
          /\ tracked' \in [RequestIds -> Pairs \cup {NoPorts}]
        BY <1>1 DEF FleetInv, TypeInv, RestOK, Release
    <2>2. TypeInv'
        BY <2>1 DEF FleetInv, TypeInv, RestOK, matchRows
    <2>3. Clock /\ \A e \in RequestIds : Advances(e) /\ FewerRows(e)
        BY <2>1, SameServerAdvances DEF Clock, FewerRows, matchRows
    <2>4. StoryInv'
        BY <2>2, <2>3, StoryWorld DEF FleetInv, matchRows
    <2>5. d \in Tracked
        BY <1>1 DEF Tracked
    <2>6. LedgerInv'
        BY <1>1, <2>5, ReleaseTracked DEF FleetInv
    <2>7. QED
        BY <2>1, <2>2, <2>4, <2>6 DEF FleetInv
<1>2. CASE tracked[d] = NoPorts
    <2>1. UNCHANGED portVars /\ MayFail /\ server' \in {server, Stopped(d)}
        BY <1>2 DEF MayFail
    <2>2. FleetInv'
        BY <2>1, StopFleet
    <2>3. QED
        BY <1>2, <2>1, <2>2 DEF portVars
<1>3. QED
    BY <1>1, <1>2

-----------------------------------------------------------------------------
(* A call goes on, or answers. *)

OthersSame(c) == \A b \in Calls \ {c} : call'[b] = call[b]

LEMMA AnswerDoes ==
    ASSUME ResultTypes, NEW c \in Calls, Answer(c)
    PROVE  call'[c] = NoCall /\ OthersSame(c) /\ call' \in [Calls -> Call]
<1>1. NoCall \in Call
    BY DEF NoCall, Call, CallLabels
<1>2. QED
    BY <1>1 DEF ResultTypes, Answer, OthersSame

LEMMA CallToDoes ==
    ASSUME ResultTypes, NEW c \in Calls, NEW pc \in CallLabels, CallTo(c, pc)
    PROVE  /\ OthersSame(c) /\ call' \in [Calls -> Call]
           /\ call'[c].pc = pc
           /\ call'[c].end = call[c].end /\ call'[c].client = call[c].client
           /\ call'[c].d = call[c].d /\ call'[c].kind = call[c].kind
           /\ call'[c].players = call[c].players /\ call'[c].failed = call[c].failed
<1>1. call[c] \in Call /\ call' = [call EXCEPT ![c] = [call[c] EXCEPT !.pc = pc]]
    BY DEF ResultTypes, CallTo
<1>2. [call[c] EXCEPT !.pc = pc] \in Call
    BY <1>1 DEF Call
<1>3. QED
    BY <1>1, <1>2 DEF ResultTypes, OthersSame, Call

(* The calls in flight, and those that have not written their scores. *)
LEMMA PendingCalls ==
    ASSUME ResultTypes, NEW c \in Calls, call[c].pc # "idle", OthersSame(c),
           c \in Unscored' => c \in Unscored
    PROVE  /\ IsFiniteSet(Unscored') /\ IsFiniteSet(Active')
           /\ Cardinality(Unscored) \in Nat /\ Cardinality(Active) \in Nat
           /\ Cardinality(Unscored') \in Nat /\ Cardinality(Active') \in Nat
           /\ Cardinality(Unscored') <= Cardinality(Unscored)
           /\ Cardinality(Active') <= Cardinality(Active)
           /\ c \in Unscored \ Unscored' => Cardinality(Unscored') + 1 = Cardinality(Unscored)
           /\ call'[c].pc = "idle" => Cardinality(Active') + 1 = Cardinality(Active)
<1>1. /\ c \in Active
      /\ Active' = IF call'[c].pc = "idle" THEN Active \ {c} ELSE Active
      /\ Unscored' = IF c \in Unscored' THEN Unscored ELSE Unscored \ {c}
    BY DEF Active, Unscored, OthersSame
<1>2. ASSUME NEW S, IsFiniteSet(S)
      PROVE  /\ IsFiniteSet(S \ {c}) /\ Cardinality(S) \in Nat /\ Cardinality(S \ {c}) \in Nat
             /\ Cardinality(S \ {c}) <= Cardinality(S)
             /\ c \in S => Cardinality(S \ {c}) + 1 = Cardinality(S)
    <2>1. IsFiniteSet(S \ {c}) /\ Cardinality(S) \in Nat /\ Cardinality(S \ {c}) \in Nat
        BY <1>2, FS_RemoveElement, FS_CardinalityType
    <2>2. CASE c \in S
        BY <1>2, <2>1, <2>2, FS_RemoveElement
    <2>3. CASE c \notin S
        <3>1. S \ {c} = S
            BY <2>3
        <3>2. QED
            BY <2>1, <2>3, <3>1
    <2>4. QED
        BY <2>1, <2>2, <2>3
<1>3. IsFiniteSet(Active) /\ IsFiniteSet(Unscored)
    BY DEF ResultTypes
<1>4. /\ IsFiniteSet(Active') /\ Cardinality(Active) \in Nat /\ Cardinality(Active') \in Nat
      /\ Cardinality(Active') <= Cardinality(Active)
      /\ call'[c].pc = "idle" => Cardinality(Active') + 1 = Cardinality(Active)
    BY <1>1, <1>2, <1>3
<1>5. /\ IsFiniteSet(Unscored') /\ Cardinality(Unscored) \in Nat
      /\ Cardinality(Unscored') \in Nat
      /\ Cardinality(Unscored') <= Cardinality(Unscored)
      /\ c \in Unscored \ Unscored' => Cardinality(Unscored') + 1 = Cardinality(Unscored)
    <2>1. CASE c \in Unscored'
        <3>1. Unscored' = Unscored
            BY <1>1, <2>1
        <3>2. Cardinality(Unscored) <= Cardinality(Unscored) /\ Cardinality(Unscored) \in Nat
            BY <1>3, FS_CardinalityType
        <3>3. QED
            BY <1>3, <2>1, <3>1, <3>2
    <2>2. CASE c \notin Unscored'
        <3>1. Unscored' = Unscored \ {c}
            BY <1>1, <2>2
        <3>2. QED
            BY <1>2, <1>3, <3>1
    <2>3. QED
        BY <2>1, <2>2
<1>6. QED
    BY <1>4, <1>5

(* What a step of the call c may change, whichever step it is. *)
CallMoves(c) ==
    LET d == call[c].d IN
    /\ call[c].pc # "idle" /\ d \in RequestIds
    /\ UNCHANGED <<alloc, cancelled, inflight, told, callerVars, swept>>
    /\ Clock /\ OthersSame(c)
    /\ call'[c] = NoCall \/
         /\ call'[c].pc \notin {"idle", "sweep"} /\ call[c].pc # "sweep"
         /\ call'[c].d = d /\ call'[c].end = call[c].end /\ call'[c].client = call[c].client
         /\ ended' = ended /\ accepted' = accepted /\ gauge' = gauge
    /\ \A e \in RequestIds :
         /\ ServerKeeps(e) /\ ResultsKeep(e)
         /\ server'[e].match = server[e].match /\ server'[e].kind = server[e].kind
         /\ e \in registered' => e \in registered
         /\ server'[e].state = "up" => server[e].state = "up"
         /\ tracked'[e] # NoPorts => tracked[e] # NoPorts
         /\ e # d => /\ e \in registered => e \in registered'
                     /\ e \in accepted' => e \in accepted
                     /\ scores'[e] = scores[e] /\ history'[e] = history[e]
                     /\ ended'[e] = ended[e]

(* The results of the calls keep their types. *)
LEMMA CallTypes ==
    ASSUME ResultTypes, NEW c \in Calls, CallMoves(c), call' \in [Calls -> Call],
           c \in Unscored' => c \in Unscored,
           scores' \in [RequestIds -> [Users -> Nat]],
           scores' = scores \/ (c \in Unscored \ Unscored' /\
               \A d \in RequestIds, u \in Users : scores'[d][u] <= scores[d][u] + 1),
           history' \in [RequestIds -> SUBSET Users],
           accepted' \subseteq RequestIds,
           ended' \in [RequestIds -> Nat],
           ended' = ended \/ (call'[c].pc = "idle" /\
               \A d \in RequestIds : ended'[d] <= ended[d] + 1)
    PROVE  ResultTypes'
<1>1. call[c].pc # "idle" /\ OthersSame(c) /\ UNCHANGED <<closing, reported, overlapped, made, swept>>
    BY DEF CallMoves, callerVars
<1>2. /\ IsFiniteSet(Unscored') /\ IsFiniteSet(Active')
      /\ Cardinality(Unscored) \in Nat /\ Cardinality(Active) \in Nat
      /\ Cardinality(Unscored') \in Nat /\ Cardinality(Active') \in Nat
      /\ Cardinality(Unscored') <= Cardinality(Unscored)
      /\ Cardinality(Active') <= Cardinality(Active)
      /\ c \in Unscored \ Unscored' => Cardinality(Unscored') + 1 = Cardinality(Unscored)
      /\ call'[c].pc = "idle" => Cardinality(Active') + 1 = Cardinality(Active)
    BY <1>1, PendingCalls
<1>3. made \in Nat
    BY LifecycleAssumption DEF LifecycleAssumption, ResultTypes
<1>4. ASSUME NEW d \in RequestIds
      PROVE  ended'[d] + Cardinality(Active') <= made
    <2>1. ended[d] \in Nat /\ ended'[d] \in Nat /\ ended[d] + Cardinality(Active) <= made
        BY DEF ResultTypes
    <2>2. CASE ended' = ended
        BY <1>2, <1>3, <2>1, <2>2
    <2>3. CASE call'[c].pc = "idle" /\ ended'[d] <= ended[d] + 1
        BY <1>2, <1>3, <2>1, <2>3
    <2>4. QED
        BY <2>2, <2>3
<1>5. ASSUME NEW d \in RequestIds, NEW u \in Users
      PROVE  scores'[d][u] + Cardinality(Unscored') <= made
    <2>1. scores[d][u] \in Nat /\ scores'[d][u] \in Nat
          /\ scores[d][u] + Cardinality(Unscored) <= made
        BY DEF ResultTypes
    <2>2. CASE scores' = scores
        BY <1>2, <1>3, <2>1, <2>2
    <2>3. CASE c \in Unscored \ Unscored' /\ scores'[d][u] <= scores[d][u] + 1
        BY <1>2, <1>3, <2>1, <2>3
    <2>4. QED
        BY <2>2, <2>3
<1>6. QED
    BY <1>1, <1>2, <1>4, <1>5 DEF ResultTypes

LifeInv ==
    /\ FleetInv /\ ResultTypes
    /\ CallsInv /\ EndsInv /\ ResultsInv /\ ReleasedInv
    /\ NotLost /\ GaugeExact

-----------------------------------------------------------------------------
(* The invariants of a call's step, from what they have in common. *)

LEMMA IdleCall ==
    ASSUME NEW c, call'[c] = NoCall
    PROVE  CallOf(c)' /\ BackendOf(c)'
<1>1. call'[c].pc = "idle"
    BY DEF NoCall
<1>2. QED
    BY <1>1 DEF CallOf, BackendOf, EndOnly, CancelOnly

LEMMA CallsKept ==
    ASSUME FleetInv, CallsInv, NEW c \in Calls, CallMoves(c), CallOf(c)', BackendOf(c)'
    PROVE  CallsInv'
<1>1. \A e \in RequestIds : Moves(e)
    BY DEF CallMoves, Moves
<1>2. \A m \in Matches : MatchKeeps(m)
    BY DEF CallMoves, MatchKeeps
<1>3. \A b \in Calls \ {c} : CallOf(b)' /\ BackendOf(b)'
    BY <1>1, <1>2, CallFrame DEF FleetInv, CallsInv, CallMoves, OthersSame, callerVars
<1>4. QED
    BY <1>3 DEF CallsInv

(* A call goes on with the rows it needs, or they are deleted. *)
LEMMA AloneKept ==
    ASSUME EndsInv, NEW c \in Calls, CallMoves(c), NEW e \in RequestIds,
           call[c].d = e /\ call'[c].pc \notin {"idle", "stop", "release"} =>
               /\ call[c].pc \notin {"stop", "release"}
               /\ e \in registered => e \in registered'
    PROVE  AloneOf(e)'
<1>1. SUFFICES ASSUME e \notin overlapped
               PROVE  /\ \A a, b \in About(e)' : a = b
                      /\ \A b \in About(e)' :
                           /\ call'[b].pc \notin {"sweep", "stop", "release"} => e \in registered'
                           /\ faults' = 0 /\ call'[b].pc # "sweep" => ended'[e] = 0
    BY DEF AloneOf, CallMoves, callerVars
<1>2. /\ \A a, b \in About(e) : a = b
      /\ \A b \in About(e) :
           /\ call[b].pc \notin {"sweep", "stop", "release"} => e \in registered
           /\ faults = 0 /\ call[b].pc # "sweep" => ended[e] = 0
    BY <1>1 DEF EndsInv, AloneOf
<1>3. NoCall.d = 0 /\ NoCall.pc = "idle" /\ 0 \notin RequestIds
    BY Constants DEF NoCall
<1>4. About(e)' \subseteq About(e)
    BY <1>3 DEF About, CallMoves, OthersSame
<1>5. ASSUME NEW b \in About(e)'
      PROVE  /\ call'[b].pc \notin {"sweep", "stop", "release"} => e \in registered'
             /\ faults' = 0 /\ call'[b].pc # "sweep" => ended'[e] = 0
    <2>1. b \in About(e) /\ b \in Calls /\ call'[b].d = e /\ call[b].d = e
        BY <1>4 DEF About
    <2>2. CASE b = c
        <3>1. call'[c].pc # "idle" /\ ended' = ended /\ call[c].pc # "sweep"
            BY <1>3, <2>1, <2>2 DEF CallMoves
        <3>2. faults' = 0 => faults = 0
            BY DEF CallMoves, Clock
        <3>3. QED
            BY <1>2, <2>1, <2>2, <3>1, <3>2
    <2>3. CASE b # c
        <3>1. call[c].d # e
            BY <1>2, <2>1, <2>3 DEF About
        <3>2. /\ call'[b] = call[b] /\ ended'[e] = ended[e]
              /\ e \in registered => e \in registered'
              /\ faults' = 0 => faults = 0
            BY <2>1, <2>3, <3>1 DEF CallMoves, OthersSame, Clock
        <3>3. QED
            BY <1>2, <2>1, <3>2
    <2>4. QED
        BY <2>2, <2>3
<1>6. QED
    BY <1>2, <1>4, <1>5

LEMMA EndedKept ==
    ASSUME EndsInv, NEW c \in Calls, CallMoves(c), NEW e \in RequestIds, ended'[e] = ended[e]
    PROVE  EndedOf(e)'
<1>1. EndedOf(e) /\ ServerKeeps(e) /\ server'[e].match = server[e].match
      /\ (e \in registered' => e \in registered) /\ alloc' = alloc
      /\ (faults' = 0 => faults = 0)
    BY DEF EndsInv, CallMoves, Clock
<1>2. server[e].state \in Came => server'[e].state \in Came
    BY <1>1 DEF ServerKeeps, Came
<1>3. QED
    BY <1>1, <1>2 DEF EndedOf

LEMMA ResultKept ==
    ASSUME ResultsInv, NEW c \in Calls, CallMoves(c), NEW e \in RequestIds,
           scores'[e] = scores[e], history'[e] = history[e], e \in accepted' => e \in accepted
    PROVE  ResultOf(e)' /\ (server'[e].match # None => Recorded(e)')
<1>1. /\ ResultOf(e) /\ (server[e].match # None => Recorded(e))
      /\ server'[e].match = server[e].match
      /\ UNCHANGED <<alloc, closing, reported>>
    BY DEF ResultsInv, CallMoves, callerVars
<1>2. QED
    BY <1>1 DEF ResultOf, Recorded, MatchOf

LEMMA ReleasedKept ==
    ASSUME ReleasedInv, NEW c \in Calls, CallMoves(c), NEW e \in RequestIds,
           e \in registered => e \in registered',
           call[c].pc \notin Closing \/ call[c].d # e
    PROVE  Released(e)'
<1>1. /\ Released(e) /\ (faults' = 0 => faults = 0) /\ swept' = swept /\ cancelled' = cancelled
      /\ server'[e].match = server[e].match /\ server'[e].kind = server[e].kind
      /\ server'[e].state = "up" => server[e].state = "up"
      /\ tracked'[e] # NoPorts => tracked[e] # NoPorts
    BY DEF ReleasedInv, CallMoves, Clock
<1>2. ASSUME NEW b \in About(e), call[b].pc \in Closing
      PROVE  b \in About(e)' /\ call'[b] = call[b]
    BY <1>2 DEF About, CallMoves, OthersSame
<1>3. QED
    BY <1>1, <1>2 DEF Released

LEMMA GaugeKept ==
    ASSUME GaugeExact, NEW c \in Calls, CallMoves(c), gauge' = gauge, ended' = ended
    PROVE  GaugeExact'
<1>1. /\ \A e \in RequestIds :
            server'[e].match = server[e].match /\ server'[e].kind = server[e].kind
      /\ UNCHANGED <<alloc, told, cancelled, overlapped>> /\ (faults' = 0 => faults = 0)
    BY DEF CallMoves, callerVars, Clock
<1>2. Started' = Started
    BY <1>1 DEF Started, MatchOf
<1>3. \A k \in Kinds : {d \in Started : server'[d].kind = k /\ ended'[d] = 0}
                     = {d \in Started : server[d].kind = k /\ ended[d] = 0}
    BY <1>1 DEF Started
<1>4. QED
    BY <1>1, <1>2, <1>3 DEF GaugeExact, GaugeCounts

(* What is left to show of a call's step: what it does to its own match. *)
LEMMA CallInv ==
    ASSUME LifeInv, NEW c \in Calls, CallMoves(c), FleetInv', ResultTypes',
           CallOf(c)', BackendOf(c)', GaugeExact',
           NEW d \in RequestIds, d = call[c].d,
           AloneOf(d)', EndedOf(d)', Released(d)',
           ResultOf(d)', server'[d].match # None => Recorded(d)'
    PROVE  LifeInv'
<1>1. FleetInv /\ CallsInv /\ EndsInv /\ ResultsInv /\ ReleasedInv /\ NotLost
    BY DEF LifeInv
<1>2. CallsInv'
    BY <1>1, CallsKept
<1>3. ASSUME NEW e \in RequestIds \ {d}
      PROVE  /\ AloneOf(e)' /\ EndedOf(e)' /\ Released(e)' /\ ResultOf(e)'
             /\ server'[e].match # None => Recorded(e)'
    <2>1. /\ e \in registered => e \in registered'
          /\ ended'[e] = ended[e] /\ scores'[e] = scores[e] /\ history'[e] = history[e]
          /\ e \in accepted' => e \in accepted
        BY DEF CallMoves
    <2>2. EndedOf(e)'
        BY <1>1, <2>1, EndedKept
    <2>3. ResultOf(e)' /\ (server'[e].match # None => Recorded(e)')
        BY <1>1, <2>1, ResultKept
    <2>4. Released(e)'
        BY <1>1, <2>1, ReleasedKept
    <2>5. AloneOf(e)'
        BY <1>1, AloneKept
    <2>6. QED
        BY <2>2, <2>3, <2>4, <2>5
<1>4. EndsInv' /\ ResultsInv' /\ ReleasedInv'
    BY <1>3 DEF EndsInv, ResultsInv, ReleasedInv
<1>5. NotLost'
    BY <1>1 DEF NotLost, CallMoves, Clock
<1>6. QED
    BY <1>2, <1>4, <1>5 DEF LifeInv

(* A step that writes no result, deletes no registration and ends nothing. *)
LEMMA QuietCall ==
    ASSUME LifeInv, NEW c \in Calls, CallMoves(c), FleetInv', ResultTypes',
           CallOf(c)', BackendOf(c)', call[c].pc \notin Closing,
           call'[c].pc \notin {"stop", "release"},
           UNCHANGED <<scores, history, accepted, ended, gauge, registered>>
    PROVE  LifeInv'
<1>1. PICK d \in RequestIds : d = call[c].d
    BY DEF CallMoves
<1>2. EndsInv /\ ResultsInv /\ ReleasedInv /\ GaugeExact
    BY DEF LifeInv
<1>3. AloneOf(d)'
    BY <1>2, AloneKept DEF Closing
<1>4. EndedOf(d)'
    BY <1>2, EndedKept
<1>5. ResultOf(d)' /\ (server'[d].match # None => Recorded(d)')
    BY <1>2, ResultKept
<1>6. Released(d)'
    BY <1>2, ReleasedKept
<1>7. GaugeExact'
    BY <1>2, GaugeKept
<1>8. QED
    BY <1>1, <1>3, <1>4, <1>5, <1>6, <1>7, CallInv

GoesOn(c) ==
    /\ call'[c].pc \notin {"idle", "sweep"} /\ call[c].pc # "sweep"
    /\ call'[c].d = call[c].d /\ call'[c].end = call[c].end /\ call'[c].client = call[c].client

(* A step of a call that leaves the allocation and its rows alone. *)
LEMMA QuietMoves ==
    ASSUME LifeInv, NEW c \in Calls, call[c].pc # "idle", OthersSame(c), MayFail,
           UNCHANGED <<alloc, cancelled, inflight, portVars, gauge, matchRows, server, told,
                       callerVars, accepted, swept, ended>>,
           call'[c] = NoCall \/ GoesOn(c),
           NEW d \in RequestIds, d = call[c].d,
           \A e \in RequestIds \ {d} : scores'[e] = scores[e] /\ history'[e] = history[e],
           \A u \in Users : scores[d][u] > 0 => scores'[d][u] > 0,
           history[d] \subseteq history'[d]
    PROVE  CallMoves(c) /\ FleetInv'
<1>1. FleetInv /\ TypeInv /\ Clock
    BY MayFailClock DEF LifeInv, FleetInv, Clock
<1>2. FleetInv'
    BY <1>1, QuietFleet
<1>3. \A e \in RequestIds : ServerKeeps(e) /\ ResultsKeep(e)
    BY DEF ServerKeeps, ResultsKeep, callerVars
<1>4. CallMoves(c)
    BY <1>1, <1>3 DEF CallMoves, GoesOn, portVars, matchRows
<1>5. QED
    BY <1>2, <1>4

LEMMA ReadOnlyMoves ==
    ASSUME LifeInv, NEW c \in Calls, call[c].pc # "idle", OthersSame(c), MayFail, ReadOnly,
           call'[c] = NoCall \/ GoesOn(c)
    PROVE  CallMoves(c) /\ FleetInv'
<1>1. PICK d \in RequestIds : d = call[c].d
    BY DEF LifeInv, CallsInv, CallOf
<1>2. /\ \A e \in RequestIds \ {d} : scores'[e] = scores[e] /\ history'[e] = history[e]
      /\ \A u \in Users : scores[d][u] > 0 => scores'[d][u] > 0
      /\ history[d] \subseteq history'[d]
      /\ UNCHANGED <<alloc, cancelled, inflight, portVars, gauge, matchRows, server, told,
                     callerVars, accepted, swept, ended>>
    BY DEF ReadOnly, resultVars
<1>3. QED
    BY <1>1, <1>2, QuietMoves

(* The call that reads, fails or goes on, changes nothing but itself. *)
LEMMA ReadOnlyInv ==
    ASSUME LifeInv, NEW c \in Calls, call[c].pc \notin {"idle"} \cup Closing, OthersSame(c),
           MayFail, ReadOnly, call' \in [Calls -> Call],
           call'[c] = NoCall \/ (GoesOn(c) /\ CallOf(c)' /\ BackendOf(c)'),
           call'[c].pc \notin {"stop", "release"},
           c \in Unscored' => c \in Unscored
    PROVE  LifeInv'
<1>1. CallMoves(c) /\ FleetInv'
    BY ReadOnlyMoves
<1>2. CallOf(c)' /\ BackendOf(c)'
    BY IdleCall
<1>3. UNCHANGED <<scores, history, accepted, ended, gauge, registered>>
    BY DEF ReadOnly, resultVars, matchRows
<1>4. /\ scores \in [RequestIds -> [Users -> Nat]] /\ history \in [RequestIds -> SUBSET Users]
      /\ accepted \subseteq RequestIds /\ ended \in [RequestIds -> Nat] /\ ResultTypes
    BY DEF LifeInv, ResultTypes
<1>5. ResultTypes'
    BY <1>1, <1>3, <1>4, CallTypes
<1>6. QED
    BY <1>1, <1>2, <1>3, <1>5, QuietCall

(* What a call that goes on must know at the place it goes to. *)
LEMMA OwnCall ==
    ASSUME LifeInv, NEW c \in Calls, CallMoves(c), call'[c].pc # "idle",
           NEW d \in RequestIds, d = call[c].d, NEW m \in Matches, m = server[d].match,
           call'[c].pc \in EndOnly => call[c].end,
           call'[c].pc \in CancelOnly => ~call[c].end,
           call'[c].kind \in {"none", server[d].kind},
           call'[c].pc = "release" => server'[d].state = "gone",
           call'[c].pc \in {"stop", "release"} /\ faults' = 0 => d \notin registered',
           call[c].end => /\ call'[c].players = reported[d] \cap alloc[m].users
                          /\ call'[c].kind = server[d].kind,
           call'[c].pc = "end.history" /\ ~call'[c].failed =>
               \A u \in call'[c].players : scores'[d][u] > 0,
           call[c].end /\ call'[c].pc \in Closing =>
               alloc[m].probe \/ \A u \in call'[c].players : scores'[d][u] > 0 /\ u \in history'[d]
    PROVE  CallOf(c)'
<1>1. GoesOn(c) /\ call[c].pc # "idle"
    BY DEF CallMoves, GoesOn, NoCall
<1>2. /\ server[d].state \in Came /\ alloc[m].pc \in Ended
      /\ call[c].end => closing[d] = "end"
    BY <1>1 DEF LifeInv, CallsInv, CallOf, GoesOn
<1>3. /\ server'[d].state \in Came /\ server'[d].match = m /\ server'[d].kind = server[d].kind
      /\ UNCHANGED <<alloc, closing, reported>>
    BY <1>2 DEF CallMoves, ServerKeeps, Came, callerVars
<1>4. call'[c].d = d /\ call'[c].end = call[c].end /\ call'[c].pc \notin {"idle", "sweep"}
    BY <1>1 DEF GoesOn
<1>5. QED
    BY <1>2, <1>3, <1>4 DEF CallOf

LEMMA OwnBackend ==
    ASSUME LifeInv, NEW c \in Calls, CallMoves(c), call'[c].pc # "idle",
           NEW d \in RequestIds, d = call[c].d, NEW m \in Matches, m = server[d].match,
           call'[c].pc # "cancel.synthetic",
           faults' = 0 /\ m \notin cancelled /\ call[c].client /\ call[c].pc = "cancel.synthetic" =>
               alloc[m].d = d,
           faults' = 0 /\ m \notin cancelled /\ told[m] = "ready" /\ alloc[m].d = d
               /\ call'[c].pc \in Closing /\ (d \in registered' \/ d \notin overlapped) =>
               call'[c].kind = server[d].kind
    PROVE  BackendOf(c)'
<1>1. GoesOn(c) /\ call[c].pc # "idle"
    BY DEF CallMoves, GoesOn, NoCall
<1>2. /\ server'[d].match = m /\ server'[d].kind = server[d].kind
      /\ UNCHANGED <<alloc, told, cancelled, overlapped>> /\ (faults' = 0 => faults = 0)
    BY DEF CallMoves, Clock, callerVars
<1>3. BackendOf(c)
    BY DEF LifeInv, CallsInv
<1>4. faults' = 0 /\ m \notin cancelled => told[m] = "ready" /\ alloc[m].d = d
    BY <1>1, <1>2, <1>3 DEF BackendOf, GoesOn
<1>5. QED
    BY <1>1, <1>2, <1>4 DEF BackendOf, GoesOn

(* What is known of a call in flight. *)
LEMMA Known ==
    ASSUME LifeInv, NEW c \in Calls, call[c].pc # "idle"
    PROVE  \E d \in RequestIds, m \in Matches :
               /\ d = call[c].d /\ m = server[d].match /\ alloc[m].pc \in Ended
               /\ call[c].kind \in {"none", server[d].kind}
               /\ call[c].end /\ call[c].pc # "end.metadata" =>
                    /\ call[c].players = reported[d] \cap alloc[m].users
                    /\ call[c].kind = server[d].kind
BY DEF LifeInv, CallsInv, CallOf

-----------------------------------------------------------------------------
(* match_end keeps what it must. *)

LEMMA EndMetadataInv ==
    ASSUME LifeInv, NEW c \in Calls, EndMetadata(c)
    PROVE  LifeInv'
<1>1. call[c].pc = "end.metadata" /\ MayFail /\ ReadOnly /\ ResultTypes /\ call[c].end
      /\ call[c] \in Call
    BY DEF EndMetadata, CallAt, MayFail, LifeInv, ResultTypes, CallsInv, CallOf, EndOnly
<1>2. "end.metadata" \notin Closing /\ c \in Unscored
    BY <1>1 DEF Closing, Unscored
<1>3. CASE Answer(c)
    <2>1. call'[c] = NoCall /\ OthersSame(c) /\ call' \in [Calls -> Call]
        BY <1>1, <1>3, AnswerDoes
    <2>2. call'[c].pc = "idle"
        BY <2>1 DEF NoCall
    <2>3. QED
        BY <1>1, <1>2, <2>1, <2>2, ReadOnlyInv
<1>4. PICK d \in RequestIds, m \in Matches : d = call[c].d /\ m = server[d].match
    BY <1>1, Known
<1> DEFINE kept == reported[d] \cap alloc[m].users
<1>5. CASE /\ meta[d] # "none"
           /\ call' = [call EXCEPT ![c] = [call[c] EXCEPT !.pc = "end.synthetic",
                                               !.kind = meta[d], !.players = kept]]
    <2>1. meta[d] = server[d].kind /\ meta[d] \in Kinds /\ kept \subseteq Users
        BY <1>5 DEF LifeInv, FleetInv, StoryInv, HostOf, TypeInv, RestOK, ResultTypes
    <2>2. [call[c] EXCEPT !.pc = "end.synthetic", !.kind = meta[d], !.players = kept] \in Call
        BY <1>1, <2>1 DEF Call, CallLabels
    <2>3. /\ OthersSame(c) /\ call' \in [Calls -> Call]
          /\ call'[c].pc = "end.synthetic" /\ call'[c].kind = meta[d] /\ call'[c].players = kept
          /\ call'[c].d = d /\ call'[c].end = call[c].end /\ call'[c].client = call[c].client
        BY <1>1, <1>4, <1>5, <2>2 DEF ResultTypes, OthersSame, Call
    <2>4. GoesOn(c)
        BY <1>1, <1>4, <2>3 DEF GoesOn
    <2>5. CallMoves(c)
        BY <1>1, <2>3, <2>4, ReadOnlyMoves
    <2>6. "end.synthetic" \notin Closing \cup CancelOnly
        BY DEF Closing, CancelOnly
    <2>7. CallOf(c)'
        BY <1>1, <1>4, <2>1, <2>3, <2>5, <2>6, OwnCall
    <2>8. BackendOf(c)'
        BY <1>1, <1>4, <2>3, <2>5, <2>6, OwnBackend
    <2>9. QED
        BY <1>1, <1>2, <2>3, <2>4, <2>7, <2>8, ReadOnlyInv
<1>6. Answer(c) \/
        /\ meta[d] # "none"
        /\ call' = [call EXCEPT ![c] = [call[c] EXCEPT !.pc = "end.synthetic",
                                            !.kind = meta[d], !.players = kept]]
    BY <1>4 DEF EndMetadata, MatchOf
<1>7. QED
    BY <1>3, <1>5, <1>6

LEMMA EndSyntheticInv ==
    ASSUME LifeInv, NEW c \in Calls, EndSynthetic(c)
    PROVE  LifeInv'
<1>1. call[c].pc = "end.synthetic" /\ MayFail /\ ReadOnly /\ ResultTypes /\ call[c].end
      /\ call[c] \in Call
    BY DEF EndSynthetic, CallAt, MayFail, LifeInv, ResultTypes, CallsInv, CallOf, EndOnly
<1>2. /\ {"end.synthetic", "end.scores"} \cap Closing = {} /\ c \in Unscored
      /\ {"end.scores", "delete"} \cap CancelOnly = {}
    BY <1>1 DEF Closing, CancelOnly, Unscored
<1>3. PICK d \in RequestIds, m \in Matches :
          /\ d = call[c].d /\ m = server[d].match
          /\ call[c].players = reported[d] \cap alloc[m].users
          /\ call[c].kind = server[d].kind
    BY <1>1, Known
<1>4. /\ OthersSame(c) /\ call' \in [Calls -> Call]
      /\ call'[c].pc \in {"end.scores", "delete"}
      /\ call'[c].pc = "delete" => d \in marked
      /\ call'[c].kind = call[c].kind /\ call'[c].players = call[c].players
      /\ call'[c].d = d /\ call'[c].end = call[c].end /\ call'[c].client = call[c].client
    <2>1. CASE call' = [call EXCEPT ![c] = [call[c] EXCEPT !.synthetic = d \in marked,
                              !.pc = IF d \in marked THEN "delete" ELSE "end.scores"]]
        <3> DEFINE marker == d \in marked
        <3>1. marker \in BOOLEAN
            OBVIOUS
        <3>2. PICK pc \in CallLabels : pc = IF d \in marked THEN "delete" ELSE "end.scores"
            BY DEF CallLabels
        <3>3. call' = [call EXCEPT ![c] = [call[c] EXCEPT !.synthetic = marker, !.pc = pc]]
            BY <2>1, <3>1, <3>2
        <3> HIDE DEF marker
        <3>4. [call[c] EXCEPT !.synthetic = marker, !.pc = pc] \in Call
            BY <1>1, <3>1 DEF Call
        <3>5. QED
            BY <1>1, <1>3, <3>2, <3>3, <3>4 DEF ResultTypes, OthersSame, Call
    <2>2. CASE CallTo(c, "end.scores")
        <3>1. PICK pc \in CallLabels : pc = "end.scores"
            BY DEF CallLabels
        <3>2. QED
            BY <1>1, <1>3, <2>2, <3>1, CallToDoes
    <2>3. QED
        BY <1>3, <2>1, <2>2 DEF EndSynthetic
<1>5. GoesOn(c)
    BY <1>1, <1>3, <1>4 DEF GoesOn
<1>6. CallMoves(c)
    BY <1>1, <1>4, <1>5, ReadOnlyMoves
<1>7. d \in marked => alloc[m].probe
    BY <1>3 DEF LifeInv, FleetInv, StoryInv, HostOf
<1>8. CallOf(c)'
    BY <1>1, <1>2, <1>3, <1>4, <1>6, <1>7, OwnCall
<1>9. BackendOf(c)'
    BY <1>1, <1>3, <1>4, <1>6, OwnBackend
<1>10. QED
    BY <1>1, <1>2, <1>4, <1>5, <1>8, <1>9, ReadOnlyInv

(* A step that writes results of its match, and nothing else. *)
LEMMA WritingCall ==
    ASSUME LifeInv, NEW c \in Calls, CallMoves(c), FleetInv', ResultTypes',
           CallOf(c)', BackendOf(c)', call[c].pc \notin Closing,
           call'[c].pc \notin {"stop", "release"},
           UNCHANGED <<accepted, ended, gauge, registered>>,
           NEW d \in RequestIds, d = call[c].d,
           ResultOf(d)', server'[d].match # None => Recorded(d)'
    PROVE  LifeInv'
<1>1. EndsInv /\ ReleasedInv /\ GaugeExact
    BY DEF LifeInv
<1>2. AloneOf(d)'
    BY <1>1, AloneKept DEF Closing
<1>3. EndedOf(d)'
    BY <1>1, EndedKept
<1>4. Released(d)'
    BY <1>1, ReleasedKept
<1>5. GaugeExact'
    BY <1>1, GaugeKept
<1>6. QED
    BY <1>2, <1>3, <1>4, <1>5, CallInv

LEMMA EndScoresInv ==
    ASSUME LifeInv, NEW c \in Calls, EndScores(c)
    PROVE  LifeInv'
<1>1. call[c].pc = "end.scores" /\ MayFail /\ ResultTypes /\ call[c].end /\ call[c] \in Call
    BY DEF EndScores, CallAt, MayFail, LifeInv, ResultTypes, CallsInv, CallOf, EndOnly
<1>2. /\ {"end.scores", "end.history"} \cap (Closing \cup CancelOnly) = {}
      /\ c \in Unscored /\ "end.history" \in CallLabels
    BY <1>1 DEF Closing, CancelOnly, Unscored, CallLabels
<1>3. PICK d \in RequestIds, m \in Matches :
          /\ d = call[c].d /\ m = server[d].match
          /\ call[c].players = reported[d] \cap alloc[m].users
          /\ call[c].kind = server[d].kind
    BY <1>1, Known
<1> DEFINE ps == call[c].players
<1>4. PICK lost \in SUBSET ps :
          /\ scores' = [scores EXCEPT ![d] =
                [u \in Users |-> IF u \in ps \ lost THEN scores[d][u] + 1 ELSE scores[d][u]]]
          /\ call' = [call EXCEPT ![c].pc = "end.history", ![c].failed = (lost # {})]
    <2>1. PICK lost \in SUBSET call[c].players :
              /\ scores' = [scores EXCEPT ![call[c].d] =
                    [u \in Users |-> IF u \in call[c].players \ lost
                                     THEN scores[call[c].d][u] + 1 ELSE scores[call[c].d][u]]]
              /\ call' = [call EXCEPT ![c].pc = "end.history", ![c].failed = (lost # {})]
        BY DEF EndScores
    <2>2. QED
        BY <1>3, <2>1
<1>5. /\ OthersSame(c) /\ call' \in [Calls -> Call]
      /\ call'[c].pc = "end.history" /\ (~call'[c].failed => lost = {})
      /\ call'[c].kind = call[c].kind /\ call'[c].players = call[c].players
      /\ call'[c].d = d /\ call'[c].end = call[c].end /\ call'[c].client = call[c].client
    <2> DEFINE fail == lost # {}
    <2>1. fail \in BOOLEAN /\ (~fail => lost = {})
        OBVIOUS
    <2>2. call' = [call EXCEPT ![c].pc = "end.history", ![c].failed = fail]
        BY <1>4
    <2> HIDE DEF fail
    <2>3. [call[c] EXCEPT !.pc = "end.history", !.failed = fail] \in Call
        BY <1>1, <1>2, <2>1 DEF Call
    <2>4. QED
        BY <1>1, <1>3, <2>1, <2>2, <2>3 DEF ResultTypes, OthersSame, Call
<1>6. \A u \in Users : scores[d][u] \in Nat
    BY <1>1 DEF ResultTypes
<1>7. /\ \A e \in RequestIds \ {d} : scores'[e] = scores[e]
      /\ \A u \in Users : scores'[d][u] = IF u \in ps \ lost THEN scores[d][u] + 1 ELSE scores[d][u]
    BY <1>1, <1>4 DEF ResultTypes
<1>8. scores' \in [RequestIds -> [Users -> Nat]]
    <2>1. [u \in Users |-> IF u \in ps \ lost THEN scores[d][u] + 1 ELSE scores[d][u]]
              \in [Users -> Nat]
        BY <1>6
    <2>2. QED
        BY <1>1, <1>4, <2>1 DEF ResultTypes
<1>9. \A e \in RequestIds, u \in Users : scores'[e][u] <= scores[e][u] + 1
    <2>1. \A e \in RequestIds, u \in Users : scores[e][u] \in Nat
        BY <1>1 DEF ResultTypes
    <2>2. QED
        BY <1>7, <2>1
<1>10. ps \subseteq Users /\ \A u \in Users : scores[d][u] > 0 => scores'[d][u] > 0
    BY <1>1, <1>6, <1>7 DEF Call
<1>11. /\ GoesOn(c) /\ history' = history
       /\ UNCHANGED <<alloc, cancelled, inflight, portVars, gauge, matchRows, server, told,
                      callerVars, accepted, swept, ended>>
    BY <1>1, <1>3, <1>5 DEF GoesOn, EndScores
<1>12. CallMoves(c) /\ FleetInv'
    <2>1. call[c].pc # "idle" /\ OthersSame(c) /\ MayFail
        BY <1>1, <1>5
    <2>2. /\ \A e \in RequestIds \ {d} : scores'[e] = scores[e] /\ history'[e] = history[e]
          /\ \A u \in Users : scores[d][u] > 0 => scores'[d][u] > 0
          /\ history[d] \subseteq history'[d]
        BY <1>7, <1>10, <1>11
    <2>3. QED
        BY <1>3, <1>11, <2>1, <2>2, QuietMoves
<1>13. ResultTypes'
    <2>1. c \notin Unscored'
        BY <1>5 DEF Unscored
    <2>2. /\ history \in [RequestIds -> SUBSET Users] /\ accepted \subseteq RequestIds
          /\ ended \in [RequestIds -> Nat]
        BY <1>1 DEF ResultTypes
    <2>3. QED
        BY <1>1, <1>2, <1>5, <1>8, <1>9, <1>11, <1>12, <2>1, <2>2, CallTypes
<1>14. ~call'[c].failed => \A u \in call'[c].players : scores'[d][u] > 0
    BY <1>5, <1>6, <1>7, <1>10
<1>15. CallOf(c)'
    BY <1>1, <1>2, <1>3, <1>5, <1>12, <1>14, OwnCall
<1>16. BackendOf(c)'
    BY <1>1, <1>2, <1>3, <1>5, <1>12, OwnBackend
<1>17. ResultOf(d) /\ Recorded(d) /\ closing[d] = "end"
    BY <1>1, <1>3, Constants DEF LifeInv, ResultsInv, CallsInv, CallOf
<1>18. /\ server' = server /\ UNCHANGED <<alloc, closing, reported, history, accepted>>
    BY <1>11 DEF callerVars
<1>19. ResultOf(d)' /\ (server'[d].match # None => Recorded(d)')
    BY <1>3, <1>7, <1>10, <1>17, <1>18, Constants DEF ResultOf, Recorded, MatchOf
<1>20. registered' = registered
    BY <1>11 DEF matchRows
<1>21. QED
    BY <1>1, <1>2, <1>3, <1>5, <1>11, <1>12, <1>13, <1>15, <1>16, <1>19, <1>20, WritingCall

LEMMA EndHistoryInv ==
    ASSUME LifeInv, NEW c \in Calls, EndHistory(c)
    PROVE  LifeInv'
<1>1. call[c].pc = "end.history" /\ MayFail /\ ResultTypes /\ call[c].end /\ call[c] \in Call
    BY DEF EndHistory, CallAt, MayFail, LifeInv, ResultTypes, CallsInv, CallOf, EndOnly
<1>2. /\ "end.history" \notin Closing /\ "delete" \notin CancelOnly \cup EndOnly
      /\ "delete" \in CallLabels
    BY DEF Closing, CancelOnly, EndOnly, CallLabels
<1>3. PICK d \in RequestIds, m \in Matches :
          /\ d = call[c].d /\ m = server[d].match
          /\ call[c].players = reported[d] \cap alloc[m].users
          /\ call[c].kind = server[d].kind
    BY <1>1, Known
<1> DEFINE ps == call[c].players
<1>4. /\ \A e \in RequestIds \ {d} : history'[e] = history[e]
      /\ history[d] \subseteq history'[d] /\ history'[d] \subseteq history[d] \cup ps
      /\ history' \in [RequestIds -> SUBSET Users]
    <2>1. ps \subseteq Users /\ history[d] \subseteq Users
        BY <1>1 DEF Call, ResultTypes
    <2>2. history' = history \/ history' = [history EXCEPT ![d] = history[d] \cup ps]
        BY <1>3 DEF EndHistory
    <2> HIDE DEF ps
    <2>3. QED
        BY <1>1, <2>1, <2>2 DEF ResultTypes
<1>5. /\ OthersSame(c) /\ call' \in [Calls -> Call]
      /\ \/ call'[c] = NoCall
         \/ /\ call'[c].pc = "delete" /\ ~call[c].failed /\ ps \subseteq history'[d]
            /\ call'[c].kind = call[c].kind /\ call'[c].players = ps
            /\ call'[c].d = d /\ call'[c].end = call[c].end /\ call'[c].client = call[c].client
    <2>1. CASE Answer(c)
        BY <1>1, <2>1, AnswerDoes
    <2>2. PICK pc \in CallLabels : pc = "delete"
        BY <1>2
    <2>3. CASE CallTo(c, pc) /\ ~call[c].failed /\ history' = [history EXCEPT ![d] = history[d] \cup ps]
        BY <1>1, <1>3, <2>2, <2>3, CallToDoes DEF ResultTypes
    <2>4. QED
        BY <1>3, <2>1, <2>2, <2>3 DEF EndHistory
<1>6. /\ scores' = scores
      /\ UNCHANGED <<alloc, cancelled, inflight, portVars, gauge, matchRows, server, told,
                     callerVars, accepted, swept, ended>>
    BY DEF EndHistory
<1>7. call'[c] = NoCall \/ GoesOn(c)
    BY <1>1, <1>3, <1>5 DEF GoesOn
<1>8. CallMoves(c) /\ FleetInv'
    BY <1>1, <1>3, <1>4, <1>5, <1>6, <1>7, QuietMoves
<1>9. ResultTypes'
    <2>1. c \notin Unscored'
        BY <1>5 DEF Unscored, NoCall
    <2>2. /\ scores \in [RequestIds -> [Users -> Nat]] /\ accepted \subseteq RequestIds
          /\ ended \in [RequestIds -> Nat]
        BY <1>1 DEF ResultTypes
    <2>3. QED
        BY <1>1, <1>4, <1>5, <1>6, <1>8, <2>1, <2>2, CallTypes
<1>10. CallOf(c)' /\ BackendOf(c)'
    <2>1. CASE call'[c] = NoCall
        BY <2>1, IdleCall
    <2>2. CASE call'[c] # NoCall
        <3>1. call'[c].pc = "delete" /\ call'[c].kind = server[d].kind
              /\ call'[c].players = reported[d] \cap alloc[m].users
            BY <1>3, <1>5, <2>2
        <3>2. \A u \in call'[c].players : scores'[d][u] > 0 /\ u \in history'[d]
            BY <1>1, <1>3, <1>5, <1>6, <2>2 DEF LifeInv, CallsInv, CallOf
        <3>3. CallOf(c)'
            BY <1>1, <1>2, <1>3, <1>8, <3>1, <3>2, OwnCall
        <3>4. BackendOf(c)'
            BY <1>1, <1>3, <1>8, <3>1, OwnBackend
        <3>5. QED
            BY <3>3, <3>4
    <2>3. QED
        BY <2>1, <2>2
<1>11. ResultOf(d) /\ Recorded(d) /\ closing[d] = "end"
    BY <1>1, <1>3, Constants DEF LifeInv, ResultsInv, CallsInv, CallOf
<1>12. /\ server' = server /\ UNCHANGED <<alloc, closing, reported, scores, accepted>>
       /\ registered' = registered
    BY <1>6 DEF callerVars, matchRows
<1>13. ResultOf(d)' /\ (server'[d].match # None => Recorded(d)')
    BY <1>3, <1>4, <1>11, <1>12, Constants DEF ResultOf, Recorded, MatchOf
<1>14. call'[c].pc \notin {"stop", "release"}
    BY <1>5 DEF NoCall
<1>15. QED
    BY <1>1, <1>2, <1>3, <1>6, <1>8, <1>9, <1>10, <1>12, <1>13, <1>14, WritingCall

-----------------------------------------------------------------------------
(* match_cancel reads what it needs, or sweeps what a test match left. *)

(* A call that changes rows of its match only. *)
LEMMA RowsMoves ==
    ASSUME LifeInv, NEW c \in Calls, call[c].pc # "idle", OthersSame(c), MayFail,
           UNCHANGED <<alloc, cancelled, inflight, portVars, gauge, server, told,
                       callerVars, resultVars, swept, ended>>,
           call'[c] = NoCall \/ GoesOn(c),
           NEW d \in RequestIds, d = call[c].d,
           registered' \in {registered, registered \ {d}}, marked' \subseteq marked,
           \/ meta' = meta
           \/ meta' = [meta EXCEPT ![d] = "none"] /\ (d \in registered' => alloc[server[d].match].d # d)
    PROVE  CallMoves(c) /\ FleetInv'
<1>1. FleetInv /\ TypeInv /\ StoryInv /\ Clock
    BY MayFailClock DEF LifeInv, FleetInv, Clock
<1>2. \A e \in RequestIds \ {d} : meta'[e] = meta[e]
    BY <1>1 DEF TypeInv, RestOK
<1>3. /\ meta' \in [RequestIds -> Kinds \cup {"none"}]
      /\ \A e \in RequestIds : meta'[e] \in {meta[e], "none"}
    BY <1>1 DEF TypeInv, RestOK
<1>4. ASSUME NEW m \in Matches, alloc[m].d \in registered'
      PROVE  meta'[alloc[m].d] = meta[alloc[m].d]
    <2>1. PICK e \in RequestIds : e = alloc[m].d
        BY <1>1, <1>4 DEF TypeInv, RestOK
    <2>2. server[e].match = m
        BY <1>1, <2>1, Constants DEF StoryInv, StoryOf
    <2>3. QED
        BY <1>2, <1>4, <2>1, <2>2
<1>5. FleetInv'
    BY <1>1, <1>3, <1>4, RowsFleet
<1>6. \A e \in RequestIds : ServerKeeps(e) /\ ResultsKeep(e)
    BY DEF ServerKeeps, ResultsKeep, callerVars, resultVars
<1>7. \A e \in RequestIds : (e \in registered' => e \in registered)
                         /\ (e # d /\ e \in registered => e \in registered')
    OBVIOUS
<1>8. CallMoves(c)
    BY <1>1, <1>6, <1>7 DEF CallMoves, GoesOn, portVars, resultVars
<1>9. QED
    BY <1>5, <1>8

LEMMA CancelSweepInv ==
    ASSUME LifeInv, NEW c \in Calls, CancelSweep(c)
    PROVE  LifeInv'
<1>1. call[c].pc = "sweep" /\ MayFail /\ ResultTypes /\ Answer(c)
    BY DEF CancelSweep, CallAt, MayFail, LifeInv
<1>2. "sweep" \notin Closing
    BY DEF Closing
<1>3. PICK d \in RequestIds : d = call[c].d
    BY <1>1, Known
<1>4. call'[c] = NoCall /\ OthersSame(c) /\ call' \in [Calls -> Call] /\ call'[c].pc = "idle"
    BY <1>1, AnswerDoes DEF NoCall
<1>5. d \in registered => alloc[server[d].match].d # d
    BY <1>1, <1>3 DEF LifeInv, CallsInv, CallOf
<1>6. /\ UNCHANGED <<alloc, cancelled, inflight, portVars, gauge, registered, server, told,
                     callerVars, resultVars, swept, ended>>
      /\ marked' \subseteq marked
      /\ meta' = meta \/ meta' = [meta EXCEPT ![d] = "none"]
    BY <1>3 DEF CancelSweep
<1>7. CallMoves(c) /\ FleetInv'
    BY <1>1, <1>3, <1>4, <1>5, <1>6, RowsMoves
<1>8. CallOf(c)' /\ BackendOf(c)'
    BY <1>4, IdleCall
<1>9. UNCHANGED <<scores, history, accepted, ended, gauge, registered>>
    BY <1>6 DEF resultVars
<1>10. ResultTypes'
    <2>1. c \notin Unscored'
        BY <1>4 DEF Unscored
    <2>2. /\ scores \in [RequestIds -> [Users -> Nat]] /\ history \in [RequestIds -> SUBSET Users]
          /\ accepted \subseteq RequestIds /\ ended \in [RequestIds -> Nat]
        BY <1>1 DEF ResultTypes
    <2>3. QED
        BY <1>1, <1>4, <1>7, <1>9, <2>1, <2>2, CallTypes
<1>11. QED
    BY <1>1, <1>2, <1>4, <1>7, <1>8, <1>9, <1>10, QuietCall

LEMMA CancelSyntheticInv ==
    ASSUME LifeInv, NEW c \in Calls, CancelSynthetic(c)
    PROVE  LifeInv'
<1>1. call[c].pc = "cancel.synthetic" /\ MayFail /\ ReadOnly /\ ResultTypes /\ ~call[c].end
      /\ call[c] \in Call /\ FleetInv
    BY DEF CancelSynthetic, CallAt, MayFail, LifeInv, ResultTypes, CallsInv, CallOf, CancelOnly
<1>2. /\ {"cancel.synthetic", "cancel.metadata"} \cap (Closing \cup EndOnly) = {}
      /\ "cancel.metadata" \in CallLabels
    BY DEF Closing, EndOnly, CallLabels
<1>3. CASE Answer(c)
    <2>1. call'[c] = NoCall /\ OthersSame(c) /\ call' \in [Calls -> Call]
        BY <1>1, <1>3, AnswerDoes
    <2>2. call'[c].pc = "idle" /\ c \notin Unscored'
        BY <2>1 DEF NoCall, Unscored
    <2>3. QED
        BY <1>1, <1>2, <2>1, <2>2, ReadOnlyInv
<1>4. PICK d \in RequestIds, m \in Matches :
          d = call[c].d /\ m = server[d].match /\ call[c].kind \in {"none", server[d].kind}
    BY <1>1, Known
<1>5. CASE ~Answer(c)
    <2>1. PICK marker \in BOOLEAN :
              /\ faults' = 0 /\ marker => d \in marked
              /\ call[c].client => marker
              /\ call' = [call EXCEPT ![c].pc = "cancel.metadata", ![c].synthetic = marker]
        <3>1. PICK marker \in BOOLEAN :
                  /\ IF marker = (call[c].d \in marked) THEN UNCHANGED faults
                                                         ELSE ~marker /\ Fault("lifecycle")
                  /\ IF call[c].client /\ ~marker
                     THEN Answer(c)
                     ELSE call' = [call EXCEPT ![c].pc = "cancel.metadata", ![c].synthetic = marker]
            BY DEF CancelSynthetic
        <3>2. marker => d \in marked
            BY <1>4, <3>1
        <3>3. QED
            BY <1>5, <3>1, <3>2
    <2>2. [call[c] EXCEPT !.pc = "cancel.metadata", !.synthetic = marker] \in Call
        BY <1>1, <1>2 DEF Call
    <2>3. /\ OthersSame(c) /\ call' \in [Calls -> Call]
          /\ call'[c].pc = "cancel.metadata" /\ call'[c].kind = call[c].kind
          /\ call'[c].d = d /\ call'[c].end = call[c].end /\ call'[c].client = call[c].client
        BY <1>1, <1>4, <2>1, <2>2 DEF ResultTypes, OthersSame, Call
    <2>4. GoesOn(c) /\ c \notin Unscored'
        BY <1>1, <1>4, <2>3 DEF GoesOn, Unscored
    <2>5. CallMoves(c)
        BY <1>1, <2>3, <2>4, ReadOnlyMoves
    <2>6. CallOf(c)'
        BY <1>1, <1>2, <1>4, <2>3, <2>5, OwnCall
    <2>7. d \in marked => alloc[m].d = d
        BY <1>1, <1>4 DEF FleetInv, StoryInv, HostOf
    <2>8. BackendOf(c)'
        BY <1>1, <1>2, <1>4, <2>1, <2>3, <2>5, <2>7, OwnBackend
    <2>9. QED
        BY <1>1, <1>2, <2>3, <2>4, <2>6, <2>8, ReadOnlyInv
<1>6. QED
    BY <1>3, <1>5

(* As long as no write fails, the metadata a call reads names the backend. *)
LEMMA MetadataKnown ==
    ASSUME LifeInv, faults = 0, NEW d \in RequestIds, NEW m \in Matches, m = server[d].match,
           told[m] = "ready", alloc[m].d = d, d \in registered
    PROVE  meta[d] = server[d].kind
<1>1. Written(m) /\ StoryOf(m)
    BY DEF LifeInv, FleetInv, StoryInv
<1>2. QED
    BY <1>1, Constants DEF Written, StoryOf

LEMMA CancelMetadataInv ==
    ASSUME LifeInv, NEW c \in Calls, CancelMetadata(c)
    PROVE  LifeInv'
<1>1. call[c].pc = "cancel.metadata" /\ MayFail /\ ReadOnly /\ ResultTypes /\ ~call[c].end
      /\ call[c] \in Call /\ FleetInv
    BY DEF CancelMetadata, CallAt, MayFail, LifeInv, ResultTypes, CallsInv, CallOf, CancelOnly
<1>2. /\ "cancel.metadata" \notin Closing \cup {"sweep", "stop", "release"}
      /\ "delete" \notin EndOnly \cup CancelOnly /\ "delete" \in CallLabels
    BY DEF Closing, EndOnly, CancelOnly, CallLabels
<1>3. PICK d \in RequestIds, m \in Matches :
          d = call[c].d /\ m = server[d].match /\ call[c].kind \in {"none", server[d].kind}
    BY <1>1, Known
<1>4. /\ OthersSame(c) /\ call' \in [Calls -> Call]
      /\ call'[c].pc = "delete" /\ call'[c].kind \in {"none", server[d].kind}
      /\ faults' = 0 => call'[c].kind = meta[d]
      /\ call'[c].d = d /\ call'[c].end = call[c].end /\ call'[c].client = call[c].client
    <2>1. meta[d] \in {"none", server[d].kind} /\ meta[d] \in Kinds \cup {"none"}
        BY <1>1 DEF FleetInv, StoryInv, HostOf, TypeInv, RestOK
    <2>2. CASE call' = [call EXCEPT ![c].pc = "delete", ![c].kind = meta[d]]
        <3>1. [call[c] EXCEPT !.pc = "delete", !.kind = meta[d]] \in Call
            BY <1>1, <1>2, <2>1 DEF Call
        <3>2. QED
            BY <1>1, <1>3, <2>1, <2>2, <3>1 DEF ResultTypes, OthersSame, Call
    <2>3. CASE Fault("lifecycle") /\ CallTo(c, "delete")
        <3>1. PICK pc \in CallLabels, what \in {"lifecycle"} : pc = "delete" /\ what = "lifecycle"
            BY <1>2
        <3>2. faults' # 0
            BY <1>1, <2>3, <3>1, FaultClock DEF FleetInv
        <3>3. QED
            BY <1>1, <1>3, <2>3, <3>1, <3>2, CallToDoes
    <2>4. QED
        BY <1>3, <2>2, <2>3 DEF CancelMetadata
<1>5. GoesOn(c) /\ c \notin Unscored'
    BY <1>1, <1>3, <1>4 DEF GoesOn, Unscored
<1>6. CallMoves(c) /\ (faults' = 0 => faults = 0)
    BY <1>1, <1>4, <1>5, ReadOnlyMoves, MayFailClock DEF FleetInv
<1>7. CallOf(c)'
    BY <1>1, <1>2, <1>3, <1>4, <1>6, OwnCall
<1>8. d \notin overlapped => d \in registered
    BY <1>1, <1>2, <1>3 DEF LifeInv, EndsInv, AloneOf, About
<1>9. registered' = registered
    BY <1>1 DEF ReadOnly, matchRows
<1>10. BackendOf(c)'
    BY <1>1, <1>2, <1>3, <1>4, <1>6, <1>8, <1>9, MetadataKnown, OwnBackend
<1>11. QED
    BY <1>1, <1>2, <1>4, <1>5, <1>7, <1>10, ReadOnlyInv

-----------------------------------------------------------------------------
(* Deleting the rows: the call is then the one that frees the rest. *)

LEMMA DeleteRowsInv ==
    ASSUME LifeInv, NEW c \in Calls, DeleteRows(c)
    PROVE  LifeInv'
<1>1. call[c].pc = "delete" /\ MayFail /\ ResultTypes /\ call[c] \in Call /\ FleetInv
    BY DEF DeleteRows, CallAt, MayFail, LifeInv, ResultTypes
<1>2. /\ "delete" \in Closing /\ "stop" \in Closing
      /\ "stop" \notin EndOnly \cup CancelOnly /\ "stop" \in CallLabels
      /\ "delete" \notin {"sweep", "stop", "release"}
    BY DEF Closing, EndOnly, CancelOnly, CallLabels
<1>3. PICK d \in RequestIds, m \in Matches :
          /\ d = call[c].d /\ m = server[d].match /\ call[c].kind \in {"none", server[d].kind}
          /\ call[c].end => /\ call[c].players = reported[d] \cap alloc[m].users
                            /\ call[c].kind = server[d].kind
    BY <1>1, Known
<1>4. PICK pc \in CallLabels : pc = "stop"
    BY <1>2
<1>5. /\ OthersSame(c) /\ call' \in [Calls -> Call]
      /\ call'[c].pc = "stop" /\ call'[c].kind = call[c].kind
      /\ call'[c].players = call[c].players
      /\ call'[c].d = d /\ call'[c].end = call[c].end /\ call'[c].client = call[c].client
    BY <1>1, <1>3, <1>4, CallToDoes DEF DeleteRows
<1>6. /\ UNCHANGED <<alloc, cancelled, inflight, portVars, gauge, server, told,
                     callerVars, resultVars, swept, ended>>
      /\ registered' \in {registered, registered \ {d}} /\ marked' \subseteq marked
      /\ \/ meta' = meta
         \/ meta' = [meta EXCEPT ![d] = "none"] /\ registered' = registered \ {d}
      /\ faults' = faults => d \notin registered'
    <2>1. CASE UNCHANGED matchRows /\ Fault("lifecycle")
        <3>1. PICK what : what = "lifecycle"
            OBVIOUS
        <3>2. faults' # faults
            BY <1>1, <2>1, <3>1 DEF Fault, FleetInv, TypeInv, RestOK
        <3>3. QED
            BY <2>1, <3>2 DEF DeleteRows, matchRows
    <2>2. QED
        BY <1>3, <2>1 DEF DeleteRows
<1>7. GoesOn(c) /\ c \notin Unscored'
    BY <1>1, <1>3, <1>5 DEF GoesOn, Unscored
<1>8. CallMoves(c) /\ FleetInv'
    BY <1>1, <1>3, <1>5, <1>6, <1>7, RowsMoves
<1>9. UNCHANGED <<scores, history, accepted, ended, gauge>> /\ swept' = swept
    BY <1>6 DEF resultVars
<1>10. ResultTypes'
    <2>1. /\ scores \in [RequestIds -> [Users -> Nat]] /\ history \in [RequestIds -> SUBSET Users]
          /\ accepted \subseteq RequestIds /\ ended \in [RequestIds -> Nat]
        BY <1>1 DEF ResultTypes
    <2>2. QED
        BY <1>1, <1>5, <1>7, <1>8, <1>9, <2>1, CallTypes
<1>11. faults' = 0 => d \notin registered' /\ faults = 0
    <2>1. CASE faults' = faults
        BY <1>6, <2>1
    <2>2. CASE Fault("lifecycle")
        <3>1. PICK what : what = "lifecycle"
            OBVIOUS
        <3>2. QED
            BY <1>1, <2>2, <3>1, FaultClock DEF FleetInv
    <2>3. QED
        BY <1>1, <2>1, <2>2 DEF MayFail
<1>12. CallOf(c) /\ BackendOf(c)
    BY DEF LifeInv, CallsInv
<1>13. CallOf(c)'
    <2>1. call[c].end => alloc[m].probe \/
              \A u \in call[c].players : scores[d][u] > 0 /\ u \in history[d]
        BY <1>1, <1>2, <1>3, <1>12 DEF CallOf
    <2>2. QED
        BY <1>2, <1>3, <1>5, <1>8, <1>9, <1>11, <2>1, OwnCall
<1>14. faults' = 0 /\ m \notin cancelled /\ (d \in registered \/ d \notin overlapped) =>
           call[c].kind = server[d].kind
    BY <1>1, <1>2, <1>3, <1>11, <1>12 DEF BackendOf
<1>15. BackendOf(c)'
    BY <1>1, <1>3, <1>5, <1>8, <1>11, <1>14, OwnBackend
<1>16. EndsInv /\ ResultsInv /\ ReleasedInv /\ GaugeExact
    BY DEF LifeInv
<1>17. AloneOf(d)'
    BY <1>3, <1>5, <1>8, <1>16, AloneKept
<1>18. EndedOf(d)'
    BY <1>8, <1>9, <1>16, EndedKept
<1>19. ResultOf(d)' /\ (server'[d].match # None => Recorded(d)')
    BY <1>8, <1>9, <1>16, ResultKept
<1>20. GaugeExact'
    BY <1>8, <1>9, <1>16, GaugeKept
<1>21. Released(d)'
    <2>1. SUFFICES ASSUME faults' = 0, d \notin swept, m \notin cancelled,
                          server[d].state = "up" \/ tracked[d] # NoPorts
                   PROVE  \E b \in About(d)' : /\ call'[b].pc \in Closing
                                               /\ call'[b].kind = server[d].kind
        BY <1>3, <1>6 DEF Released, portVars
    <2>2. c \in About(d)' /\ call'[c].pc \in Closing
        BY <1>2, <1>5 DEF About
    <2>3. CASE d \in registered
        BY <1>5, <1>14, <2>1, <2>2, <2>3
    <2>4. CASE d \notin registered
        <3>1. PICK b \in About(d) : call[b].pc \in Closing /\ call[b].kind = server[d].kind
            BY <1>3, <1>11, <1>16, <2>1, <2>4 DEF ReleasedInv, Released
        <3>2. CASE b = c
            BY <1>5, <2>2, <3>1, <3>2
        <3>3. CASE b # c
            <4>1. b \in Calls /\ call'[b] = call[b] /\ call[b].d = d
                BY <1>5, <3>1, <3>3 DEF About, OthersSame
            <4>2. b \in About(d)'
                BY <4>1 DEF About
            <4>3. QED
                BY <3>1, <4>1, <4>2
        <3>4. QED
            BY <3>2, <3>3
    <2>5. QED
        BY <2>3, <2>4
<1>22. QED
    BY <1>3, <1>8, <1>10, <1>13, <1>15, <1>17, <1>18, <1>19, <1>20, <1>21, CallInv

-----------------------------------------------------------------------------
(* Stopping the server and counting the end. *)

(* The calls about a match end it once when they do not overlap: its gauge   *)
(* loses the match, the other one nothing.                                   *)
LEMMA EndGauge ==
    ASSUME LifeInv, NEW c \in Calls, call[c].pc \in {"stop", "release"}, RecordEnd(c),
           CallMoves(c), NEW d \in RequestIds, d = call[c].d
    PROVE  GaugeExact'
<1>1. UNCHANGED <<alloc, cancelled, told, overlapped>> /\ (faults' = 0 => faults = 0)
    BY DEF CallMoves, Clock, callerVars
<1>2. SUFFICES ASSUME faults' = 0, cancelled = {}, overlapped = {}
               PROVE  GaugeCounts'
    BY <1>1 DEF GaugeExact
<1>3. GaugeCounts /\ TypeInv /\ ResultTypes
    BY <1>1, <1>2 DEF LifeInv, FleetInv, GaugeExact
<1>4. PICK m \in Matches : m = server[d].match /\ alloc[m].pc \in Ended
    BY Known
<1>5. told[m] = "ready" /\ alloc[m].d = d /\ call[c].kind = server[d].kind
    BY <1>1, <1>2, <1>4 DEF LifeInv, CallsInv, BackendOf, Closing
<1>6. ended[d] = 0
    BY <1>1, <1>2 DEF LifeInv, EndsInv, AloneOf, About
<1>7. alloc[m].pc \in {"finish", "done"} /\ m # None
    BY <1>1, <1>2, <1>4, Constants DEF LifeInv, NotLost, Ended
<1>8. d \in Started /\ server[d].kind \in Kinds
    BY <1>3, <1>4, <1>5, <1>7 DEF Started, MatchOf, TypeInv, RestOK, Server
<1>9. Started' = Started /\ \A e \in RequestIds : server'[e].kind = server[e].kind
    BY <1>1 DEF Started, MatchOf, CallMoves
<1>10. \A e \in RequestIds : ended'[e] = IF e = d THEN ended[d] + 1 ELSE ended[e]
    BY <1>3 DEF RecordEnd, ResultTypes
<1> DEFINE S(k) == {e \in Started : server[e].kind = k /\ ended[e] = 0}
<1>11. ASSUME NEW k \in Kinds
       PROVE  /\ {e \in Started : server[e].kind = k /\ ended[e] = 0}' = S(k) \ {d}
              /\ IsFiniteSet(S(k)) /\ gauge[k] = Cardinality(S(k)) /\ gauge[k] \in Nat
    <2>1. ended'[d] # 0 /\ Started \subseteq RequestIds
        BY <1>6, <1>10 DEF Started
    <2>2. {e \in Started : server[e].kind = k /\ ended[e] = 0}' = S(k) \ {d}
        BY <1>9, <1>10, <2>1
    <2>3. IsFiniteSet(RequestIds)
        <3>1. 1 \in Int /\ MaxRequests \in Int
            BY Constants
        <3>2. QED
            BY <3>1, FS_Interval DEF RequestIds
    <2>4. S(k) \in SUBSET RequestIds
        BY <2>1
    <2>5. IsFiniteSet(S(k))
        BY <2>3, <2>4, FS_Subset
    <2>6. gauge[k] = Cardinality(S(k)) /\ gauge[k] \in Nat
        BY <1>3 DEF GaugeCounts, TypeInv, RestOK
    <2>7. QED
        BY <2>2, <2>5, <2>6
<1>12. gauge' = [gauge EXCEPT ![server[d].kind] = IF @ > 0 THEN @ - 1 ELSE 0]
    BY <1>5, <1>8 DEF RecordEnd, Kinds
<1>13. \A k \in Kinds : d \in S(k) <=> k = server[d].kind
    BY <1>6, <1>8
<1> HIDE DEF S
<1>14. ASSUME NEW k \in Kinds
       PROVE  gauge'[k] = Cardinality(S(k) \ {d})
    <2>1. /\ IsFiniteSet(S(k)) /\ gauge[k] = Cardinality(S(k)) /\ gauge[k] \in Nat
          /\ gauge \in [Kinds -> Nat]
        BY <1>3, <1>11 DEF TypeInv, RestOK
    <2>2. Cardinality(S(k) \ {d}) \in Nat
        BY <2>1, FS_RemoveElement, FS_CardinalityType
    <2>3. CASE k = server[d].kind
        <3>1. Cardinality(S(k) \ {d}) = gauge[k] - 1
            BY <1>13, <2>1, <2>3, FS_RemoveElement
        <3>2. gauge'[k] = IF gauge[k] > 0 THEN gauge[k] - 1 ELSE 0
            BY <1>12, <2>1, <2>3
        <3>3. QED
            BY <2>1, <2>2, <3>1, <3>2
    <2>4. CASE k # server[d].kind
        <3>1. S(k) \ {d} = S(k)
            BY <1>13, <2>4
        <3>2. QED
            BY <1>12, <2>1, <2>4, <3>1
    <2>5. QED
        BY <2>3, <2>4
<1>15. QED
    BY <1>11, <1>14 DEF GaugeCounts

(* The step that counts the end and answers: what the call knew of the       *)
(* backend is freed, and a match_end that is answered ok has its results.    *)
LEMMA EndingInv ==
    ASSUME LifeInv, NEW c \in Calls, call[c].pc \in {"stop", "release"}, RecordEnd(c),
           FleetInv', MayFail,
           NEW d \in RequestIds, d = call[c].d,
           UNCHANGED <<alloc, cancelled, inflight, matchRows, told, callerVars, scores,
                       history, swept>>,
           \A e \in RequestIds :
               /\ ServerKeeps(e)
               /\ server'[e].match = server[e].match /\ server'[e].kind = server[e].kind
               /\ server'[e].state = "up" => server[e].state = "up"
               /\ tracked'[e] # NoPorts => tracked[e] # NoPorts,
           faults' = 0 /\ call[c].kind = server[d].kind =>
               server'[d].state # "up" /\ tracked'[d] = NoPorts
    PROVE  LifeInv'
<1>1. FleetInv /\ TypeInv /\ ResultTypes /\ EndsInv /\ ResultsInv /\ ReleasedInv
    BY DEF LifeInv, FleetInv
<1>2. Answer(c) /\ accepted' = IF call[c].end THEN accepted \cup {d} ELSE accepted
    BY DEF RecordEnd
<1>3. call'[c] = NoCall /\ OthersSame(c) /\ call' \in [Calls -> Call] /\ call'[c].pc = "idle"
    BY <1>1, <1>2, AnswerDoes DEF NoCall
<1>4. /\ ended' \in [RequestIds -> Nat] /\ ended'[d] = ended[d] + 1
      /\ \A e \in RequestIds \ {d} : ended'[e] = ended[e]
    BY <1>1 DEF ResultTypes, RecordEnd
<1>5. Clock
    BY <1>1, MayFailClock DEF Clock
<1>6. CallMoves(c)
    <2>1. \A e \in RequestIds : ResultsKeep(e)
        BY DEF ResultsKeep, callerVars
    <2>2. \A e \in RequestIds : e # d => (e \in accepted' => e \in accepted)
        BY <1>2
    <2>3. QED
        BY <1>3, <1>4, <1>5, <2>1, <2>2 DEF CallMoves, matchRows
<1>7. PICK m \in Matches :
          /\ m = server[d].match /\ alloc[m].pc \in Ended
          /\ call[c].end => call[c].players = reported[d] \cap alloc[m].users
    BY Known
<1>8. /\ server[d].state \in Came
      /\ call[c].end => closing[d] = "end" /\ (alloc[m].probe \/
             \A u \in call[c].players : scores[d][u] > 0 /\ u \in history[d])
      /\ faults = 0 => d \notin registered
    BY <1>7 DEF LifeInv, CallsInv, CallOf, Closing
<1>9. ResultTypes'
    <2>1. c \notin Unscored'
        BY <1>3 DEF Unscored
    <2>2. /\ scores' \in [RequestIds -> [Users -> Nat]] /\ scores' = scores
          /\ history' \in [RequestIds -> SUBSET Users]
          /\ accepted' \subseteq RequestIds
          /\ \A e \in RequestIds : ended'[e] <= ended[e] + 1
        BY <1>1, <1>2, <1>4 DEF ResultTypes
    <2>3. QED
        BY <1>1, <1>3, <1>4, <1>6, <2>1, <2>2, CallTypes
<1>10. CallOf(c)' /\ BackendOf(c)'
    BY <1>3, IdleCall
<1>11. AloneOf(d)'
    BY <1>1, <1>3, <1>6, AloneKept
<1>12. server'[d].match = m /\ server'[d].kind = server[d].kind /\ m # None
       /\ server'[d].state \in Came
    BY <1>7, <1>8, Constants DEF ServerKeeps, Came
<1>13. EndedOf(d)'
    BY <1>5, <1>7, <1>8, <1>12 DEF EndedOf, matchRows, Clock
<1>14. ResultOf(d)' /\ (server'[d].match # None => Recorded(d)')
    <2>1. ResultOf(d) /\ Recorded(d)
        BY <1>1, <1>7, <1>12 DEF ResultsInv
    <2>2. UNCHANGED <<alloc, closing, reported, scores, history>>
        BY DEF callerVars
    <2>3. ResultOf(d)'
        BY <1>2, <1>8, <1>12, <2>1, <2>2 DEF ResultOf
    <2>4. Recorded(d)'
        BY <1>2, <1>7, <1>8, <1>12, <2>1, <2>2 DEF Recorded, MatchOf
    <2>5. QED
        BY <2>3, <2>4
<1>15. Released(d)'
    <2>1. SUFFICES ASSUME faults' = 0, d \notin registered \cup swept, m \notin cancelled,
                          server'[d].state = "up" \/ tracked'[d] # NoPorts
                   PROVE  \E b \in About(d)' : /\ call'[b].pc \in Closing
                                               /\ call'[b].kind = server[d].kind
        BY <1>12 DEF Released, matchRows
    <2>2. PICK b \in About(d) : call[b].pc \in Closing /\ call[b].kind = server[d].kind
        BY <1>1, <1>5, <1>7, <2>1 DEF ReleasedInv, Released, Clock
    <2>3. b \in Calls /\ call[b].d = d /\ b # c
        BY <2>1, <2>2 DEF About
    <2>4. call'[b] = call[b] /\ b \in About(d)'
        BY <1>3, <2>3 DEF OthersSame, About
    <2>5. QED
        BY <2>2, <2>4
<1>16. GaugeExact'
    BY <1>6, EndGauge
<1>17. QED
    BY <1>6, <1>9, <1>10, <1>11, <1>13, <1>14, <1>15, <1>16, CallInv

LEMMA EndGaugeType ==
    ASSUME TypeInv, NEW c \in Calls, RecordEnd(c)
    PROVE  gauge' \in [Kinds -> Nat]
<1>1. PICK k \in Kinds : gauge' = [gauge EXCEPT ![k] = IF gauge[k] > 0 THEN gauge[k] - 1 ELSE 0]
    BY DEF RecordEnd, Kinds
<1>2. gauge \in [Kinds -> Nat] /\ gauge[k] \in Nat
    BY DEF TypeInv, RestOK
<1>3. (IF gauge[k] > 0 THEN gauge[k] - 1 ELSE 0) \in Nat
    BY <1>2
<1>4. QED
    BY <1>1, <1>2, <1>3

(* What a stop leaves of the servers. *)
LEMMA StopMoves ==
    ASSUME TypeInv, NEW d \in RequestIds, server' \in {server, Stopped(d)}
    PROVE  \A e \in RequestIds :
               /\ ServerKeeps(e)
               /\ server'[e].match = server[e].match /\ server'[e].kind = server[e].kind
               /\ server'[e].state = "up" => server[e].state = "up"
BY StoppedKeeps, StoppedAdvances DEF TypeInv, Advances

(* A local server that stopped: the call goes on to its ports. *)
LEMMA StopLocalInv ==
    ASSUME LifeInv, NEW c \in Calls, call[c].pc = "stop", call[c].kind = "local",
           NEW d \in RequestIds, d = call[c].d, server' = Stopped(d),
           NEW pc \in CallLabels, pc = "release", CallTo(c, pc),
           UNCHANGED <<gauge, accepted, ended, faults, alloc, cancelled, inflight, portVars,
                       matchRows, told, callerVars, scores, history, swept>>
    PROVE  LifeInv'
<1>1. /\ FleetInv /\ TypeInv /\ ResultTypes /\ EndsInv /\ ResultsInv /\ ReleasedInv /\ GaugeExact
      /\ MayFail /\ call[c] \in Call
    BY DEF LifeInv, FleetInv, MayFail, ResultTypes
<1>2. "stop" \in Closing /\ "release" \in Closing /\ "release" \notin EndOnly \cup CancelOnly
    BY DEF Closing, EndOnly, CancelOnly
<1>3. PICK m \in Matches :
          /\ m = server[d].match /\ call[c].kind \in {"none", server[d].kind}
          /\ call[c].end => /\ call[c].players = reported[d] \cap alloc[m].users
                            /\ call[c].kind = server[d].kind
    BY Known
<1>4. /\ OthersSame(c) /\ call' \in [Calls -> Call]
      /\ call'[c].pc = "release" /\ call'[c].kind = call[c].kind
      /\ call'[c].players = call[c].players
      /\ call'[c].d = d /\ call'[c].end = call[c].end /\ call'[c].client = call[c].client
    BY <1>1, CallToDoes
<1>5. GoesOn(c) /\ c \notin Unscored'
    BY <1>4 DEF GoesOn, Unscored
<1>6. FleetInv'
    BY <1>1, StopFleet DEF TypeInv, RestOK
<1>7. CallMoves(c)
    <2>1. \A e \in RequestIds : ResultsKeep(e)
        BY DEF ResultsKeep, callerVars
    <2>2. \A e \in RequestIds :
              /\ ServerKeeps(e)
              /\ server'[e].match = server[e].match /\ server'[e].kind = server[e].kind
              /\ server'[e].state = "up" => server[e].state = "up"
        BY <1>1, StopMoves
    <2>3. QED
        BY <1>4, <1>5, <2>1, <2>2 DEF CallMoves, GoesOn, Clock, portVars, matchRows
<1>8. ResultTypes'
    <2>1. /\ scores \in [RequestIds -> [Users -> Nat]] /\ history \in [RequestIds -> SUBSET Users]
          /\ accepted \subseteq RequestIds /\ ended \in [RequestIds -> Nat]
        BY <1>1 DEF ResultTypes
    <2>2. QED
        BY <1>1, <1>4, <1>5, <1>7, <2>1, CallTypes
<1>9. CallOf(c) /\ BackendOf(c)
    BY DEF LifeInv, CallsInv
<1>10. server'[d].state = "gone"
    <2>1. server[d].state \in Came
        BY <1>9 DEF CallOf
    <2>2. server'[d].state \in Came
        BY <1>7, <2>1 DEF CallMoves, ServerKeeps, Came
    <2>3. server'[d].state \notin {"booting", "up"}
        BY <1>1, StoppedDead DEF TypeInv
    <2>4. QED
        BY <2>2, <2>3 DEF Came
<1>11. CallOf(c)'
    <2>1. call[c].end => alloc[m].probe \/
              \A u \in call[c].players : scores[d][u] > 0 /\ u \in history[d]
        BY <1>2, <1>3, <1>9 DEF CallOf
    <2>2. faults' = 0 => d \notin registered'
        BY <1>9 DEF CallOf, matchRows
    <2>3. QED
        BY <1>2, <1>3, <1>4, <1>7, <1>10, <2>1, <2>2, OwnCall
<1>12. BackendOf(c)'
    <2>1. faults' = 0 /\ m \notin cancelled /\ (d \in registered' \/ d \notin overlapped) =>
              call'[c].kind = server[d].kind
        BY <1>2, <1>3, <1>4, <1>9 DEF BackendOf, matchRows
    <2>2. call'[c].pc \notin {"idle", "cancel.synthetic"} /\ call[c].pc # "cancel.synthetic"
        BY <1>4
    <2>3. QED
        BY <1>3, <1>7, <2>1, <2>2, OwnBackend
<1>13. AloneOf(d)'
    BY <1>1, <1>4, <1>7, AloneKept
<1>14. EndedOf(d)' /\ ResultOf(d)' /\ (server'[d].match # None => Recorded(d)')
    BY <1>1, <1>7, EndedKept, ResultKept
<1>15. GaugeExact'
    BY <1>1, <1>7, GaugeKept
<1>16. Released(d)'
    <2>1. SUFFICES ASSUME faults = 0, d \notin registered \cup swept, m \notin cancelled,
                          server'[d].state = "up" \/ tracked[d] # NoPorts
                   PROVE  \E b \in About(d)' : /\ call'[b].pc \in Closing
                                               /\ call'[b].kind = server'[d].kind
        BY <1>3, <1>7 DEF Released, CallMoves, matchRows, portVars
    <2>2. PICK b \in About(d) : call[b].pc \in Closing /\ call[b].kind = server[d].kind
        BY <1>1, <1>3, <1>7, <2>1 DEF ReleasedInv, Released, CallMoves
    <2>3. call'[b].pc \in Closing /\ call'[b].kind = server[d].kind /\ b \in About(d)'
        BY <1>2, <1>4, <2>2 DEF About, OthersSame
    <2>4. QED
        BY <1>7, <2>3 DEF CallMoves
<1>17. QED
    BY <1>6, <1>7, <1>8, <1>11, <1>12, <1>13, <1>14, <1>15, <1>16, CallInv

LEMMA StopServerInv ==
    ASSUME LifeInv, NEW c \in Calls, StopServer(c)
    PROVE  LifeInv'
<1>1. call[c].pc = "stop" /\ FleetInv /\ TypeInv /\ ResultTypes
    BY DEF StopServer, CallAt, LifeInv, FleetInv
<1>2. PICK d \in RequestIds, m \in Matches :
          d = call[c].d /\ m = server[d].match /\ call[c].kind \in {"none", server[d].kind}
    BY <1>1, Known
<1>3. UNCHANGED <<alloc, cancelled, inflight, portVars, matchRows, told, callerVars, scores,
                  history, swept>>
    BY DEF StopServer
<1>4. PICK pc \in CallLabels, what \in {"lifecycle"} : pc = "release" /\ what = "lifecycle"
    BY DEF CallLabels
<1>5. CASE call[c].kind = "local" /\ server' = Stopped(d) /\ CallTo(c, pc)
           /\ UNCHANGED <<gauge, accepted, ended, faults>>
    <2>1. UNCHANGED <<gauge, accepted, ended, faults, alloc, cancelled, inflight, portVars,
                      matchRows, told, callerVars, scores, history, swept>>
        BY <1>3, <1>5
    <2>2. QED
        BY <1>1, <1>2, <1>4, <1>5, <2>1, StopLocalInv
<1>6. ASSUME RecordEnd(c), MayFail, server' \in {server, Stopped(d)},
             faults' = 0 /\ call[c].kind = server[d].kind =>
                 server'[d].state # "up" /\ tracked'[d] = NoPorts
      PROVE  LifeInv'
    <2>1. gauge' \in [Kinds -> Nat]
        BY <1>1, <1>6, EndGaugeType
    <2>2. FleetInv'
        BY <1>1, <1>3, <1>6, <2>1, StopFleet
    <2>3. \A e \in RequestIds :
              /\ ServerKeeps(e)
              /\ server'[e].match = server[e].match /\ server'[e].kind = server[e].kind
              /\ server'[e].state = "up" => server[e].state = "up"
              /\ tracked'[e] # NoPorts => tracked[e] # NoPorts
        BY <1>1, <1>3, <1>6, StopMoves DEF portVars
    <2>4. QED
        BY <1>1, <1>2, <1>3, <1>6, <2>2, <2>3, EndingInv
<1>7. CASE /\ call[c].kind # "local" /\ RecordEnd(c) /\ UNCHANGED faults
           /\ server' = IF server[d].kind = "edgegap" THEN Stopped(d) ELSE server
    <2>1. ASSUME call[c].kind = server[d].kind
          PROVE  server'[d].state # "up" /\ tracked'[d] = NoPorts
        <3>1. server[d].kind = "edgegap"
            BY <1>1, <1>7, <2>1 DEF TypeInv, RestOK, Server, Kinds
        <3>2. server'[d].state # "up"
            BY <1>1, <1>7, <3>1, StoppedDead DEF TypeInv
        <3>3. tracked[d] = NoPorts
            BY <1>1, <3>1 DEF FleetInv, StoryInv, HostOf
        <3>4. QED
            BY <1>3, <3>2, <3>3 DEF portVars
    <2>2. QED
        BY <1>6, <1>7, <2>1 DEF MayFail
<1>8. CASE Fault("lifecycle") /\ RecordEnd(c) /\ UNCHANGED server
    <2>1. faults' # 0
        BY <1>1, <1>4, <1>8, FaultClock DEF FleetInv
    <2>2. QED
        BY <1>6, <1>8, <2>1 DEF MayFail
<1>9. QED
    BY <1>2, <1>4, <1>5, <1>7, <1>8 DEF StopServer

LEMMA ReleasePortsInv ==
    ASSUME LifeInv, NEW c \in Calls, ReleasePorts(c)
    PROVE  LifeInv'
<1>1. call[c].pc = "release" /\ FleetInv /\ TypeInv /\ RecordEnd(c)
    BY DEF ReleasePorts, CallAt, LifeInv, FleetInv
<1>2. PICK d \in RequestIds : d = call[c].d
    BY <1>1, Known
<1>3. /\ UNCHANGED <<alloc, cancelled, inflight, matchRows, server, told, faults, callerVars,
                     scores, history, swept>>
      /\ IF tracked[d] # NoPorts
         THEN Release(tracked[d]) /\ tracked' = [tracked EXCEPT ![d] = NoPorts]
         ELSE UNCHANGED portVars
    BY <1>2 DEF ReleasePorts
<1>4. gauge' \in [Kinds -> Nat]
    BY <1>1, EndGaugeType
<1>5. FleetInv' /\ \A e \in RequestIds : tracked'[e] = IF e = d THEN NoPorts ELSE tracked[e]
    BY <1>1, <1>3, <1>4, ReleaseFleet
<1>6. \A e \in RequestIds :
          /\ ServerKeeps(e)
          /\ server'[e].match = server[e].match /\ server'[e].kind = server[e].kind
          /\ server'[e].state = "up" => server[e].state = "up"
          /\ tracked'[e] # NoPorts => tracked[e] # NoPorts
    BY <1>3, <1>5 DEF ServerKeeps
<1>7. server[d].state = "gone"
    BY <1>1, <1>2 DEF LifeInv, CallsInv, CallOf
<1>8. server'[d].state # "up" /\ tracked'[d] = NoPorts
    BY <1>3, <1>5, <1>7
<1>9. MayFail
    BY <1>3 DEF MayFail
<1>10. UNCHANGED <<alloc, cancelled, inflight, matchRows, told, callerVars, scores, history,
                   swept>>
    BY <1>3
<1>11. QED
    BY <1>1, <1>2, <1>5, <1>6, <1>8, <1>9, <1>10, EndingInv

(* Whatever a call does next. *)
LEMMA CallStepInv ==
    ASSUME LifeInv, NEW c \in Calls, CallStep(c)
    PROVE  LifeInv'
BY EndMetadataInv, EndSyntheticInv, EndScoresInv, EndHistoryInv, CancelSweepInv,
   CancelSyntheticInv, CancelMetadataInv, DeleteRowsInv, StopServerInv, ReleasePortsInv
DEF CallStep

-----------------------------------------------------------------------------
(* A call begins. *)

LEMMA PendingBegins ==
    ASSUME ResultTypes, NEW c \in Calls, call[c].pc = "idle", OthersSame(c), call'[c].pc # "idle"
    PROVE  /\ IsFiniteSet(Unscored') /\ IsFiniteSet(Active')
           /\ Cardinality(Unscored) \in Nat /\ Cardinality(Active) \in Nat
           /\ Cardinality(Unscored') \in Nat
           /\ Cardinality(Unscored') <= Cardinality(Unscored) + 1
           /\ Cardinality(Active') = Cardinality(Active) + 1
<1>1. /\ c \notin Active /\ c \notin Unscored
      /\ Active' = Active \cup {c}
      /\ Unscored' = Unscored \cup {c} \/ Unscored' = Unscored
    BY DEF Active, Unscored, OthersSame
<1>2. IsFiniteSet(Active) /\ IsFiniteSet(Unscored)
    BY DEF ResultTypes
<1>3. /\ IsFiniteSet(Active') /\ Cardinality(Active) \in Nat
      /\ Cardinality(Active') = Cardinality(Active) + 1
    BY <1>1, <1>2, FS_AddElement, FS_CardinalityType
<1>4. Cardinality(Unscored) \in Nat
    BY <1>2, FS_CardinalityType
<1>5. CASE Unscored' = Unscored
    BY <1>2, <1>3, <1>4, <1>5
<1>6. CASE Unscored' = Unscored \cup {c}
    <2>1. IsFiniteSet(Unscored') /\ Cardinality(Unscored') = Cardinality(Unscored) + 1
        BY <1>1, <1>2, <1>6, FS_AddElement
    <2>2. QED
        BY <1>3, <1>4, <2>1
<1>7. QED
    BY <1>1, <1>5, <1>6

(* It may be about a match another call is about already, and then nothing   *)
(* more is promised of the match's gauge.                                    *)
LEMMA BeginInv ==
    ASSUME LifeInv, NEW c \in Calls, NEW d \in RequestIds, NEW r \in Call, Begin(c, d, r),
           r.d = d, r.pc \notin {"idle", "stop", "release"},
           r.pc # "sweep" => d \in registered,
           closing' \in [RequestIds -> {"none", "end", "cancel"}],
           reported' \in [RequestIds -> SUBSET Users],
           \A e \in RequestIds :
               /\ closing[e] = "end" => closing'[e] = "end" /\ reported'[e] = reported[e]
               /\ server[e].match = None => closing'[e] = "none",
           CallOf(c)', BackendOf(c)'
    PROVE  LifeInv'
<1>1. /\ FleetInv /\ TypeInv /\ StoryInv /\ ResultTypes /\ CallsInv /\ EndsInv /\ ResultsInv
      /\ ReleasedInv /\ NotLost /\ GaugeExact
    BY DEF LifeInv, FleetInv
<1>2. /\ UNCHANGED <<alloc, cancelled, inflight, portVars, gauge, matchRows, server, told, faults>>
      /\ UNCHANGED <<scores, history, accepted, swept, ended>>
    BY DEF Begin, fleetVars, resultVars, portVars, matchRows
<1>3. call[c].pc = "idle" /\ call[c] = NoCall
    BY <1>1 DEF Begin, CallAt, CallsInv, CallOf
<1>4. call'[c] = r /\ OthersSame(c) /\ call' \in [Calls -> Call]
    BY <1>1 DEF Begin, ResultTypes, OthersSame
<1>5. FleetInv'
    BY <1>1, <1>2, QuietFleet DEF MayFail
<1>6. overlapped \subseteq overlapped' /\ overlapped' \subseteq RequestIds
      /\ (d \notin overlapped' => About(d) = {})
    BY <1>1 DEF Begin, ResultTypes
<1>7. ResultTypes'
    <2>1. made' = made + 1 /\ made' \in 0 .. MaxCalls /\ made \in Nat
        BY <1>1, LifecycleAssumption DEF Begin, ResultTypes
    <2>2. /\ IsFiniteSet(Unscored') /\ IsFiniteSet(Active')
          /\ Cardinality(Unscored) \in Nat /\ Cardinality(Active) \in Nat
          /\ Cardinality(Unscored') \in Nat
          /\ Cardinality(Unscored') <= Cardinality(Unscored) + 1
          /\ Cardinality(Active') = Cardinality(Active) + 1
        BY <1>1, <1>3, <1>4, PendingBegins
    <2>3. \A e \in RequestIds :
              /\ ended[e] \in Nat /\ ended[e] + Cardinality(Active) <= made
              /\ \A u \in Users : /\ scores[e][u] \in Nat
                                  /\ scores[e][u] + Cardinality(Unscored) <= made
        BY <1>1 DEF ResultTypes
    <2>4. \A e \in RequestIds :
              /\ ended[e] + Cardinality(Active') <= made'
              /\ \A u \in Users : scores[e][u] + Cardinality(Unscored') <= made'
        BY <2>1, <2>2, <2>3
    <2>5. QED
        BY <1>1, <1>2, <1>4, <1>6, <2>1, <2>2, <2>4 DEF ResultTypes
<1>8. CallsInv'
    <2>1. \A e \in RequestIds : Moves(e)
        BY <1>2 DEF Moves, ServerKeeps, ResultsKeep, matchRows
    <2>2. \A m \in Matches : MatchKeeps(m)
        BY <1>2 DEF MatchKeeps
    <2>3. Clock
        BY <1>2 DEF Clock
    <2>4. \A b \in Calls \ {c} : CallOf(b)' /\ BackendOf(b)'
        BY <1>1, <1>4, <1>6, <2>1, <2>2, <2>3, CallFrame DEF CallsInv, OthersSame
    <2>5. QED
        BY <2>4 DEF CallsInv
<1>9. ASSUME NEW e \in RequestIds
      PROVE  About(e)' = IF e = d THEN About(e) \cup {c} ELSE About(e)
    <2>1. c \notin About(e)
        BY <1>3, Constants DEF About, NoCall
    <2>2. \A b \in Calls : b \in About(e)' <=> call'[b].d = e
        BY DEF About
    <2>3. \A b \in Calls : b \in About(e) <=> call[b].d = e
        BY DEF About
    <2>4. About(e) \subseteq Calls /\ About(e)' \subseteq Calls
        BY DEF About
    <2>5. \A b \in Calls : b \in About(e)' <=> b \in About(e) \/ (b = c /\ e = d)
        BY <1>4, <2>1, <2>2, <2>3 DEF OthersSame
    <2>6. CASE e = d
        BY <2>4, <2>5, <2>6
    <2>7. CASE e # d
        BY <2>4, <2>5, <2>7
    <2>8. QED
        BY <2>6, <2>7
<1>10. ASSUME NEW e \in RequestIds
       PROVE  AloneOf(e)' /\ EndedOf(e)'
    <2>1. AloneOf(e) /\ EndedOf(e)
        BY <1>1 DEF EndsInv
    <2>2. EndedOf(e)'
        BY <1>2, <2>1 DEF EndedOf, matchRows
    <2>3. CASE e # d
        <3>1. \A b \in About(e) : call'[b] = call[b]
            BY <1>3, <1>4, Constants DEF About, NoCall, OthersSame
        <3>2. About(e)' = About(e)
            BY <1>9, <2>3
        <3>3. AloneOf(e)'
            BY <1>2, <1>6, <2>1, <3>1, <3>2 DEF AloneOf, matchRows
        <3>4. QED
            BY <2>2, <3>3
    <2>4. CASE e = d
        <3>1. d \notin overlapped' => About(d)' = {c}
            BY <1>6, <1>9
        <3>2. d \in registered /\ faults = 0 => ended[d] = 0
            BY <2>1, <2>4 DEF EndedOf
        <3>3. AloneOf(d)'
            BY <1>2, <1>4, <3>1, <3>2 DEF AloneOf, matchRows
        <3>4. QED
            BY <2>2, <2>4, <3>3
    <2>5. QED
        BY <2>3, <2>4
<1>11. ASSUME NEW e \in RequestIds
       PROVE  ResultOf(e)' /\ (server'[e].match # None => Recorded(e)')
    <2>1. ResultOf(e) /\ (server[e].match # None => Recorded(e))
        BY <1>1 DEF ResultsInv
    <2>2. ResultOf(e)'
        BY <1>2, <2>1 DEF ResultOf
    <2>3. server[e].match # None => Recorded(e)'
        <3>1. CASE closing[e] = "end"
            BY <1>2, <2>1, <3>1 DEF Recorded, MatchOf
        <3>2. CASE closing[e] # "end"
            BY <1>2, <2>1, <3>2 DEF ResultOf, Recorded
        <3>3. QED
            BY <3>1, <3>2
    <2>4. QED
        BY <1>2, <2>2, <2>3
<1>12. ASSUME NEW e \in RequestIds
       PROVE  Released(e)'
    <2>1. Released(e)
        BY <1>1 DEF ReleasedInv
    <2>2. ASSUME NEW b \in About(e), call[b].pc \in Closing
          PROVE  b \in About(e)' /\ call'[b] = call[b]
        BY <1>3, <1>4, <1>9, <2>2 DEF Closing, OthersSame, About
    <2>3. QED
        BY <1>2, <2>1, <2>2 DEF Released, matchRows, portVars
<1>13. NotLost'
    BY <1>1, <1>2 DEF NotLost
<1>14. GaugeExact'
    <2>1. Started' = Started /\ (overlapped' = {} => overlapped = {})
        BY <1>2, <1>6 DEF Started, MatchOf
    <2>2. GaugeCounts <=> GaugeCounts'
        BY <1>2, <2>1 DEF GaugeCounts
    <2>3. QED
        BY <1>1, <1>2, <2>1, <2>2 DEF GaugeExact
<1>15. EndsInv' /\ ResultsInv' /\ ReleasedInv'
    BY <1>10, <1>11, <1>12 DEF EndsInv, ResultsInv, ReleasedInv
<1>16. QED
    BY <1>5, <1>7, <1>8, <1>13, <1>14, <1>15 DEF LifeInv

LEMMA EndBeginInv ==
    ASSUME LifeInv, NEW c \in Calls, NEW d \in RequestIds, NEW us \in SUBSET Users,
           EndBegin(c, d, us)
    PROVE  LifeInv'
<1> DEFINE r == [NoCall EXCEPT !.pc = "end.metadata", !.end = TRUE, !.d = d]
<1>1. /\ r \in Call /\ r.pc = "end.metadata" /\ r.end /\ r.d = d /\ ~r.client /\ r.kind = "none"
      /\ ~r.failed
    BY DEF NoCall, Call, CallLabels
<1>2. /\ server[d].state = "up" /\ d \in registered /\ told[server[d].match] = "ready"
      /\ closing[d] = "end" => us = reported[d]
      /\ closing' = [closing EXCEPT ![d] = "end"]
      /\ reported' = [reported EXCEPT ![d] = us]
      /\ Begin(c, d, r)
    BY DEF EndBegin, MatchOf
<1> HIDE DEF r
<1>3. TypeInv /\ StoryInv /\ ResultTypes
    BY DEF LifeInv, FleetInv
<1>4. PICK m \in Matches : m = server[d].match
    BY <1>2, <1>3 DEF StoryInv, HostOf, TypeInv, RestOK, Server
<1>5. alloc[m].pc \in Ended /\ (faults = 0 /\ m \notin cancelled => alloc[m].d = d)
    BY <1>2, <1>3, <1>4 DEF StoryInv, StoryOf, HostOf, Live
<1>6. /\ UNCHANGED <<alloc, cancelled, server, told, faults>>
      /\ call'[c] = r
    BY <1>2, <1>3 DEF Begin, fleetVars, ResultTypes
<1>7. closing'[d] = "end"
    BY <1>2, <1>3 DEF ResultTypes
<1>8. CallOf(c)'
    BY <1>1, <1>2, <1>4, <1>5, <1>6, <1>7 DEF CallOf, CancelOnly, Came, Closing
<1>9. BackendOf(c)'
    BY <1>1, <1>2, <1>4, <1>5, <1>6 DEF BackendOf, Closing
<1>10. \A e \in RequestIds :
           /\ closing[e] = "end" => closing'[e] = "end" /\ reported'[e] = reported[e]
           /\ server[e].match = None => closing'[e] = "none"
    <2>1. \A e \in RequestIds : server[e].match = None => closing[e] = "none"
        BY DEF LifeInv, ResultsInv, ResultOf
    <2>2. server[d].match # None
        BY <1>4, Constants
    <2>3. QED
        BY <1>2, <1>3, <2>1, <2>2 DEF ResultTypes
<1>11. /\ closing' \in [RequestIds -> {"none", "end", "cancel"}]
       /\ reported' \in [RequestIds -> SUBSET Users]
    BY <1>2, <1>3 DEF ResultTypes
<1>12. QED
    BY <1>1, <1>2, <1>8, <1>9, <1>10, <1>11, BeginInv

LEMMA CancelBeginInv ==
    ASSUME LifeInv, NEW c \in Calls, NEW d \in RequestIds, NEW client \in BOOLEAN,
           CancelBegin(c, d, client)
    PROVE  LifeInv'
<1> DEFINE r == [NoCall EXCEPT !.pc = IF d \in registered THEN "cancel.synthetic" ELSE "sweep",
                               !.client = client, !.d = d]
<1>1. /\ r \in Call /\ ~r.end /\ r.d = d /\ r.client = client /\ r.kind = "none"
      /\ r.pc = IF d \in registered THEN "cancel.synthetic" ELSE "sweep"
    BY DEF NoCall, Call, CallLabels
<1> DEFINE m == server[d].match
<1>2. /\ m # None /\ alloc[m].pc \in {"finish", "done", "lost"}
      /\ \/ client /\ told[m] = "ready" /\ UNCHANGED closing
         \/ /\ ~client /\ server[d].state = "up" /\ closing[d] \in {"none", "cancel"}
            /\ closing' = [closing EXCEPT ![d] = "cancel"]
      /\ Begin(c, d, r) /\ reported' = reported
    BY DEF CancelBegin, MatchOf
<1> HIDE DEF r
<1>3. TypeInv /\ StoryInv /\ ResultTypes
    BY DEF LifeInv, FleetInv
<1>4. m \in Matches /\ alloc[m].pc \in Ended /\ alloc[m].pc \notin Serving
    BY <1>2, <1>3 DEF TypeInv, RestOK, Server, Ended, Serving, Going
<1>5. /\ UNCHANGED <<alloc, cancelled, server, told, faults, registered>>
      /\ call'[c] = r
    BY <1>2, <1>3 DEF Begin, fleetVars, ResultTypes
<1>6. d \in registered => server[d].state \in Came
    BY <1>3 DEF StoryInv, HostOf
<1>7. alloc[m].d = d => server[d].state \in Came
    <2>1. client => told[m] = "ready"
        BY <1>2
    <2>2. told[m] = "ready" /\ alloc[m].d = d => server[d].state \in Came
        BY <1>3, <1>4 DEF StoryInv, StoryOf
    <2>3. ~client => server[d].state \in Came
        BY <1>2 DEF Came
    <2>4. QED
        BY <2>1, <2>2, <2>3
<1>8. CallOf(c)'
    <2>1. r.pc \notin EndOnly \cup {"idle", "stop", "release", "end.history"}
        BY <1>1 DEF EndOnly
    <2> HIDE DEF m
    <2>2. server[d].match = m
        BY DEF m
    <2>3. QED
        BY <1>1, <1>4, <1>5, <1>6, <1>7, <2>1, <2>2 DEF CallOf
<1>9. BackendOf(c)'
    <2>1. faults = 0 /\ m \notin cancelled /\ ~client => alloc[m].d = d /\ told[m] = "ready"
        BY <1>2, <1>3, <1>4 DEF StoryInv, HostOf, Live
    <2>2. r.pc \in {"sweep", "cancel.synthetic"} /\ r.pc \notin Closing
        BY <1>1 DEF Closing
    <2>3. client => told[m] = "ready"
        BY <1>2
    <2>4. QED
        BY <1>1, <1>5, <2>1, <2>2, <2>3 DEF BackendOf
<1>10. \A e \in RequestIds :
           /\ closing[e] = "end" => closing'[e] = "end" /\ reported'[e] = reported[e]
           /\ server[e].match = None => closing'[e] = "none"
    <2>1. \A e \in RequestIds : server[e].match = None => closing[e] = "none"
        BY DEF LifeInv, ResultsInv, ResultOf
    <2>2. QED
        BY <1>2, <1>3, <2>1 DEF ResultTypes
<1>11. /\ closing' \in [RequestIds -> {"none", "end", "cancel"}]
       /\ reported' \in [RequestIds -> SUBSET Users]
    BY <1>2, <1>3 DEF ResultTypes
<1>12. /\ r.pc \notin {"idle", "stop", "release"}
       /\ r.pc # "sweep" => d \in registered
    BY <1>1
<1>13. QED
    BY <1>1, <1>2, <1>8, <1>9, <1>10, <1>11, <1>12, BeginInv

-----------------------------------------------------------------------------
(* The hourly sweep takes the rows of matches no call is about. *)

LEMMA SweepInv ==
    ASSUME LifeInv, NEW stale \in SUBSET RequestIds, SweepStaleRows(stale)
    PROVE  LifeInv'
<1>1. /\ FleetInv /\ TypeInv /\ StoryInv /\ ResultTypes /\ CallsInv /\ EndsInv /\ ResultsInv
      /\ ReleasedInv /\ NotLost /\ GaugeExact
    BY DEF LifeInv, FleetInv
<1>2. /\ \A d \in stale : About(d) = {}
      /\ meta' = [d \in RequestIds |-> IF d \in stale THEN "none" ELSE meta[d]]
      /\ registered' = registered \ stale /\ marked' = marked \ stale /\ swept' = swept \cup stale
      /\ UNCHANGED <<alloc, cancelled, inflight, portVars, gauge, server, told, faults, call,
                     callerVars, resultVars, ended>>
    BY DEF SweepStaleRows
<1>3. UNCHANGED <<closing, reported, overlapped, made, scores, history, accepted, tracked>>
    BY <1>2 DEF callerVars, resultVars, portVars
<1>4. FleetInv'
    <2>1. /\ meta' \in [RequestIds -> Kinds \cup {"none"}]
          /\ \A e \in RequestIds : meta'[e] \in {meta[e], "none"}
        BY <1>1, <1>2 DEF TypeInv, RestOK
    <2>2. ASSUME NEW m \in Matches, alloc[m].d \in registered'
          PROVE  meta'[alloc[m].d] = meta[alloc[m].d]
        BY <1>1, <1>2, <2>2 DEF TypeInv, RestOK
    <2>3. MayFail /\ registered' \subseteq registered /\ marked' \subseteq marked
        BY <1>2 DEF MayFail
    <2>4. QED
        BY <1>1, <1>2, <2>1, <2>2, <2>3, RowsFleet
<1>5. ResultTypes'
    <2>1. Active' = Active /\ Unscored' = Unscored
        BY <1>2 DEF Active, Unscored
    <2>2. QED
        BY <1>1, <1>2, <1>3, <2>1 DEF ResultTypes
<1>6. CallsInv'
    <2>1. \A e \in RequestIds : Moves(e)
        BY <1>2, <1>3 DEF Moves, ServerKeeps, ResultsKeep
    <2>2. \A m \in Matches : MatchKeeps(m)
        BY <1>2 DEF MatchKeeps
    <2>3. Clock /\ overlapped \subseteq overlapped'
        BY <1>2, <1>3 DEF Clock
    <2>4. QED
        BY <1>1, <1>2, <2>1, <2>2, <2>3, CallFrame DEF CallsInv
<1>7. ASSUME NEW e \in RequestIds
      PROVE  AloneOf(e)' /\ EndedOf(e)' /\ ResultOf(e)' /\ Released(e)'
             /\ (server'[e].match # None => Recorded(e)')
    <2>1. /\ AloneOf(e) /\ EndedOf(e) /\ ResultOf(e) /\ Released(e)
          /\ server[e].match # None => Recorded(e)
        BY <1>1 DEF EndsInv, ResultsInv, ReleasedInv
    <2>2. About(e)' = About(e) /\ (About(e) # {} /\ e \in registered => e \in registered')
        BY <1>2 DEF About
    <2>3. AloneOf(e)'
        BY <1>2, <1>3, <2>1, <2>2 DEF AloneOf
    <2>4. EndedOf(e)'
        BY <1>2, <2>1 DEF EndedOf
    <2>5. ResultOf(e)' /\ (server'[e].match # None => Recorded(e)')
        BY <1>2, <1>3, <2>1 DEF ResultOf, Recorded, MatchOf
    <2>6. Released(e)'
        BY <1>2, <1>3, <2>1, <2>2 DEF Released
    <2>7. QED
        BY <2>3, <2>4, <2>5, <2>6
<1>8. NotLost'
    BY <1>1, <1>2 DEF NotLost
<1>9. GaugeExact'
    <2>1. Started' = Started
        BY <1>2 DEF Started, MatchOf
    <2>2. QED
        BY <1>1, <1>2, <1>3, <2>1 DEF GaugeExact, GaugeCounts
<1>10. EndsInv' /\ ResultsInv' /\ ReleasedInv'
    BY <1>7 DEF EndsInv, ResultsInv, ReleasedInv
<1>11. QED
    BY <1>4, <1>5, <1>6, <1>8, <1>9, <1>10 DEF LifeInv

-----------------------------------------------------------------------------
(* The runtime restarts: no call is in flight, and nothing is promised of     *)
(* what the calls would have freed.                                           *)

LEMMA RestartInv ==
    ASSUME LifeInv, RestartRuntime
    PROVE  LifeInv'
<1>1. /\ FleetInv /\ TypeInv /\ StoryInv /\ ResultTypes /\ EndsInv /\ ResultsInv
    BY DEF LifeInv, FleetInv
<1>2. /\ Restart /\ call' = [c \in Calls |-> NoCall]
      /\ UNCHANGED <<closing, reported, overlapped, made, scores, history, accepted, swept, ended>>
    BY DEF RestartRuntime, callerVars, resultVars
<1>3. FleetInv'
    BY <1>1, <1>2, TypeStep, LedgerStep, StoryStep DEF FleetInv, FleetNext
<1>4. faults' # 0
    <2>1. PICK what : Fault(what)
        BY <1>2 DEF Restart
    <2>2. QED
        BY <1>1, <2>1, FaultClock DEF TypeInv
<1>5. /\ server' = server
      /\ \A m \in Matches : /\ alloc'[m].users = alloc[m].users
                            /\ alloc'[m].probe = alloc[m].probe
                            /\ alloc[m].pc \in Ended => alloc'[m].pc \in Ended
    <2>1. ASSUME NEW m \in Matches
          PROVE  /\ alloc'[m].users = alloc[m].users /\ alloc'[m].probe = alloc[m].probe
                 /\ alloc[m].pc \in Ended => alloc'[m].pc \in Ended
        <3>1. alloc'[m] = IF Running(m) THEN [alloc[m] EXCEPT !.pc = "lost"] ELSE alloc[m]
            BY <1>2 DEF Restart
        <3>2. alloc[m] \in Allocation
            BY <1>1, KnownDeploy
        <3>3. QED
            BY <3>1, <3>2 DEF Allocation, Ended
    <2>2. QED
        BY <1>2, <2>1 DEF Restart
<1>6. \A c \in Calls : call'[c] = NoCall /\ call'[c].pc = "idle" /\ call'[c].d = 0
    BY <1>2 DEF NoCall
<1>7. ResultTypes'
    <2>1. call' \in [Calls -> Call]
        BY <1>2 DEF NoCall, Call, CallLabels
    <2>2. Active' = {} /\ Unscored' = {}
        BY <1>6 DEF Active, Unscored
    <2>3. /\ IsFiniteSet(Active') /\ Cardinality(Active') = 0
          /\ IsFiniteSet(Unscored') /\ Cardinality(Unscored') = 0
        BY <2>2, FS_EmptySet
    <2>4. Cardinality(Active) \in Nat /\ Cardinality(Unscored) \in Nat /\ made \in Nat
        BY <1>1, LifecycleAssumption, FS_CardinalityType DEF ResultTypes
    <2>5. \A d \in RequestIds : /\ ended[d] + 0 <= made
                                /\ \A u \in Users : scores[d][u] + 0 <= made
        <3>1. \A d \in RequestIds :
                  /\ ended[d] \in Nat /\ ended[d] + Cardinality(Active) <= made
                  /\ \A u \in Users : /\ scores[d][u] \in Nat
                                      /\ scores[d][u] + Cardinality(Unscored) <= made
            BY <1>1 DEF ResultTypes
        <3>2. QED
            BY <2>4, <3>1
    <2>6. QED
        BY <1>1, <1>2, <2>1, <2>3, <2>5 DEF ResultTypes
<1>8. CallsInv'
    BY <1>6, IdleCall DEF CallsInv
<1>9. ASSUME NEW e \in RequestIds
      PROVE  AloneOf(e)' /\ EndedOf(e)' /\ ResultOf(e)' /\ Released(e)'
             /\ (server'[e].match # None => Recorded(e)')
    <2>1. /\ EndedOf(e) /\ ResultOf(e)
          /\ server[e].match # None => Recorded(e)
        BY <1>1 DEF EndsInv, ResultsInv
    <2>2. About(e)' = {}
        BY <1>6, Constants DEF About
    <2>3. AloneOf(e)' /\ Released(e)'
        BY <1>4, <2>2 DEF AloneOf, Released
    <2>4. server[e].match # None => server[e].match \in Matches
        BY <1>1 DEF TypeInv, RestOK, Server
    <2>5. EndedOf(e)'
        BY <1>2, <1>4, <1>5, <2>1, <2>4 DEF EndedOf
    <2>6. ResultOf(e)' /\ (server'[e].match # None => Recorded(e)')
        BY <1>2, <1>5, <2>1, <2>4 DEF ResultOf, Recorded, MatchOf
    <2>7. QED
        BY <2>3, <2>5, <2>6
<1>10. NotLost' /\ GaugeExact'
    BY <1>4 DEF NotLost, GaugeExact
<1>11. EndsInv' /\ ResultsInv' /\ ReleasedInv'
    BY <1>9 DEF EndsInv, ResultsInv, ReleasedInv
<1>12. QED
    BY <1>3, <1>7, <1>8, <1>10, <1>11 DEF LifeInv

-----------------------------------------------------------------------------
(* The steps of the allocation: one counts its match, the others leave what   *)
(* the gauges count as it is.                                                 *)

Counted(m) ==
    \/ alloc[m].pc \in {"mark", "meta", "notify"}
    \/ alloc[m].pc \in {"finish", "done"} /\ told[m] = "ready"

StartedIsCounted ==
    \A d \in RequestIds : d \in Started <=> \E m \in Matches : Counted(m) /\ alloc[m].d = d

LEMMA StartedCounted == TypeInv /\ StoryInv => StartedIsCounted
<1>1. SUFFICES ASSUME TypeInv, StoryInv, NEW d \in RequestIds
               PROVE  d \in Started <=> \E m \in Matches : Counted(m) /\ alloc[m].d = d
    BY DEF StartedIsCounted
<1>2. \A m \in Matches : alloc[m].d = d => server[d].match = m
    BY <1>1, Constants DEF StoryInv, StoryOf
<1>3. server[d].match # None => server[d].match \in Matches
    BY <1>1 DEF TypeInv, RestOK, Server
<1>4. QED
    BY <1>2, <1>3, Constants DEF Started, MatchOf, Counted

LEMMA GotoPlace ==
    ASSUME TypeInv, NEW m \in Matches, NEW pc, Goto(m, pc)
    PROVE  alloc'[m].pc = pc /\ alloc'[m].d = alloc[m].d
BY KnownDeploy DEF Goto, TypeInv, Allocation

LEMMA AllocateCounts ==
    ASSUME TypeInv, StoryInv, NEW m \in Matches, Allocate(m)
    PROVE  /\ alloc'[m].pc # "lost"
           /\ m \notin cancelled =>
                IF Checkpoint(m)
                THEN /\ ~Counted(m) /\ Counted(m)' /\ alloc'[m].d = alloc[m].d
                     /\ gauge' = [gauge EXCEPT ![alloc[m].kind] = @ + 1]
                ELSE /\ Counted(m)' <=> Counted(m)
                     /\ Counted(m) => alloc'[m].d = alloc[m].d
                     /\ gauge' = gauge
<1> DEFINE Early == {"checks", "port", "create", "start", "wait", "undo", "deploy", "poll",
                     "stop", "backoff"}
<1>1. StoryOf(m)
    BY DEF StoryInv
<1>2. ASSUME alloc[m].pc \in Early
      PROVE  ~Counted(m) /\ told[m] # "ready"
    BY <1>1, <1>2 DEF Counted, StoryOf, Ended
<1>3. ASSUME GiveUp(m)
      PROVE  alloc'[m].pc = "finish" /\ told'[m] # "ready"
    <2>1. PICK o, pc : Tell(m, o) /\ o \in {"cancelled", "failed"} /\ pc = "finish"
        BY <1>3 DEF GiveUp
    <2>2. Goto(m, pc) /\ told'[m] = o
        BY <2>1 DEF Tell, TypeInv, RestOK
    <2>3. QED
        BY <2>1, <2>2, GotoPlace
<1>4. ASSUME NEW pc, Goto(m, pc)
      PROVE  alloc'[m].pc = pc /\ alloc'[m].d = alloc[m].d
    BY <1>4, GotoPlace
<1>5. ASSUME alloc[m].pc \in Early, alloc'[m].pc \in Early \cup {"checkpoint"}, gauge' = gauge
      PROVE  ~Counted(m) /\ ~Counted(m)' /\ ~Checkpoint(m)
    BY <1>2, <1>5 DEF Counted, Checkpoint, At
<1>6. ASSUME alloc[m].pc \in Early, alloc'[m].pc = "finish", told'[m] # "ready"
      PROVE  ~Counted(m) /\ ~Counted(m)' /\ ~Checkpoint(m)
    BY <1>2, <1>6 DEF Counted, Checkpoint, At
<1>7. CASE Checks(m)
    <2>1. alloc[m].pc \in Early /\ gauge' = gauge
        BY <1>7 DEF Checks, At
    <2>2. CASE Tell(m, "failed")
        <3>1. PICK pc : pc = "finish" /\ Goto(m, pc) /\ told'[m] = "failed"
            BY <2>2 DEF Tell, TypeInv, RestOK
        <3>2. QED
            BY <1>4, <1>6, <2>1, <3>1
    <2>3. CASE Goto(m, IF alloc[m].kind = "local" THEN "port" ELSE "deploy")
        <3>1. PICK pc \in {"port", "deploy"} : Goto(m, pc)
            BY <2>3
        <3>2. QED
            BY <1>4, <1>5, <2>1, <3>1
    <2>4. QED
        BY <1>7, <2>2, <2>3 DEF Checks
<1>8. CASE AllocatePorts(m)
    <2>1. alloc[m].pc \in Early /\ gauge' = gauge
        BY <1>8 DEF AllocatePorts, At
    <2>2. CASE alloc' = [alloc EXCEPT ![m].pc = "create", ![m].pair = FreePair]
        <3>1. alloc'[m].pc = "create"
            BY <2>2, KnownDeploy DEF TypeInv, Allocation
        <3>2. QED
            BY <1>5, <2>1, <3>1
    <2>3. CASE GiveUp(m)
        BY <1>3, <1>6, <2>1, <2>3
    <2>4. QED
        BY <1>8, <2>2, <2>3 DEF AllocatePorts
<1>9. CASE CreateContainer(m)
    <2>1. alloc[m].pc \in Early /\ gauge' = gauge
        BY <1>9 DEF CreateContainer, At
    <2>2. CASE alloc' = [alloc EXCEPT ![m].pc = "start", ![m].d = NewId]
        <3>1. alloc'[m].pc = "start"
            BY <2>2, KnownDeploy DEF TypeInv, Allocation
        <3>2. QED
            BY <1>5, <2>1, <3>1
    <2>3. CASE GiveUp(m)
        BY <1>3, <1>6, <2>1, <2>3
    <2>4. QED
        BY <1>9, <2>2, <2>3 DEF CreateContainer
<1>10. CASE StartContainer(m) \/ WaitForServer(m) \/ PollDeploy(m)
    <2>1. alloc[m].pc \in Early /\ gauge' = gauge
        BY <1>10 DEF StartContainer, WaitForServer, PollDeploy, At
    <2>2. PICK pc \in {"wait", "undo", "checkpoint", "stop"} : Goto(m, pc)
        BY <1>10 DEF StartContainer, WaitForServer, PollDeploy
    <2>3. QED
        BY <1>4, <1>5, <2>1, <2>2
<1>11. CASE UndoStart(m)
    <2>1. alloc[m].pc \in Early /\ gauge' = gauge /\ GiveUp(m)
        BY <1>11 DEF UndoStart, At
    <2>2. QED
        BY <1>3, <1>6, <2>1
<1>12. CASE Deploy(m)
    <2>1. alloc[m].pc \in Early /\ gauge' = gauge
        BY <1>12 DEF Deploy, At
    <2>2. alloc'[m].pc \in {"poll", "stop"}
        BY <1>12, KnownDeploy DEF Deploy, TypeInv, Allocation
    <2>3. QED
        BY <1>5, <2>1, <2>2
<1>13. CASE StopAttempt(m) \/ Backoff(m)
    <2>1. alloc[m].pc \in Early /\ gauge' = gauge
        BY <1>13 DEF StopAttempt, Backoff, At
    <2>2. CASE GiveUp(m)
        BY <1>3, <1>6, <2>1, <2>2
    <2>3. CASE ~GiveUp(m)
        <3>1. PICK pc \in {"backoff", "deploy"} : Goto(m, pc)
            BY <1>13, <2>3 DEF StopAttempt, AfterAttempt, Backoff
        <3>2. QED
            BY <1>4, <1>5, <2>1, <3>1
    <2>4. QED
        BY <2>2, <2>3
<1>14. CASE Checkpoint(m)
    <2>1. alloc[m].pc = "checkpoint"
        BY <1>14 DEF Checkpoint, At
    <2>2. CASE m \in cancelled
        <3>1. PICK pc : pc = "teardown" /\ Goto(m, pc)
            BY <1>14, <2>2 DEF Checkpoint
        <3>2. QED
            BY <1>4, <2>2, <3>1
    <2>3. CASE m \notin cancelled
        <3>1. PICK pc \in {"mark", "meta"} : Goto(m, pc)
            BY <1>14, <2>3 DEF Checkpoint
        <3>2. gauge' = [gauge EXCEPT ![alloc[m].kind] = @ + 1]
            BY <1>14, <2>3 DEF Checkpoint, RecordStart
        <3>3. QED
            BY <1>4, <1>14, <2>1, <3>1, <3>2 DEF Counted
    <2>4. QED
        BY <2>2, <2>3
<1>15. CASE Teardown(m)
    <2>1. alloc[m].pc = "teardown"
        BY <1>15 DEF Teardown, At
    <2>2. PICK pc : pc = "finish" /\ Goto(m, pc)
        BY <1>15 DEF Teardown, Tell
    <2>3. QED
        BY <1>1, <1>4, <2>1, <2>2 DEF StoryOf
<1>16. CASE MarkSynthetic(m) \/ WriteMetadata(m)
    <2>1. alloc[m].pc \in {"mark", "meta"} /\ gauge' = gauge
        BY <1>16 DEF MarkSynthetic, WriteMetadata, At
    <2>2. PICK pc \in {"meta", "notify"} : Goto(m, pc)
        BY <1>16 DEF MarkSynthetic, WriteMetadata
    <2>3. QED
        BY <1>4, <2>1, <2>2 DEF Counted, Checkpoint, At
<1>17. CASE NotifyReady(m)
    <2>1. alloc[m].pc = "notify" /\ gauge' = gauge
        BY <1>17 DEF NotifyReady, At
    <2>2. PICK pc : pc = "finish" /\ Goto(m, pc) /\ told'[m] = "ready"
        BY <1>17 DEF NotifyReady, Tell, TypeInv, RestOK
    <2>3. QED
        BY <1>4, <2>1, <2>2 DEF Counted, Checkpoint, At
<1>18. CASE Finish(m)
    <2>1. alloc[m].pc = "finish" /\ gauge' = gauge /\ told' = told
        BY <1>18 DEF Finish, At
    <2>2. PICK pc : pc = "done" /\ Goto(m, pc)
        BY <1>18 DEF Finish
    <2>3. QED
        BY <1>4, <2>1, <2>2 DEF Counted, Checkpoint, At
<1>19. QED
    BY <1>7, <1>8, <1>9, <1>10, <1>11, <1>12, <1>13, <1>14, <1>15, <1>16, <1>17, <1>18
    DEF Allocate

(* What a step of the allocation counts, unless a player cancels. *)
LEMMA FleetCounts ==
    ASSUME TypeInv, StoryInv, FleetStep, cancelled' = {}
    PROVE  \/ /\ gauge' = gauge
              /\ \A n \in Matches : /\ Counted(n)' <=> Counted(n)
                                    /\ Counted(n) => alloc'[n].d = alloc[n].d
           \/ \E m \in Matches :
                /\ alloc[m].pc = "checkpoint" /\ ~Counted(m)
                /\ Counted(m)' /\ alloc'[m].d = alloc[m].d
                /\ gauge' = [gauge EXCEPT ![alloc[m].kind] = @ + 1]
                /\ \A n \in Matches \ {m} : /\ Counted(n)' <=> Counted(n)
                                            /\ alloc'[n] = alloc[n]
<1>1. cancelled = {}
    BY FleetStepMoves DEF Clock
<1>2. ASSUME NEW m \in Matches, NEW us, NEW k, NEW p, Matched(m, us, k, p)
      PROVE  /\ gauge' = gauge
             /\ \A n \in Matches : /\ Counted(n)' <=> Counted(n)
                                   /\ Counted(n) => alloc'[n].d = alloc[n].d
    <2>1. /\ alloc[m].pc = "idle" /\ alloc'[m].pc = "checks" /\ gauge' = gauge /\ told' = told
          /\ \A n \in Matches \ {m} : alloc'[n] = alloc[n]
        BY <1>2 DEF Matched, At, TypeInv, NoAllocation
    <2>2. QED
        BY <2>1 DEF Counted
<1>3. ASSUME UNCHANGED <<alloc, told, gauge>>
      PROVE  /\ gauge' = gauge
             /\ \A n \in Matches : /\ Counted(n)' <=> Counted(n)
                                   /\ Counted(n) => alloc'[n].d = alloc[n].d
    BY <1>3 DEF Counted
<1>4. CASE \/ \E u \in Users : Cancel(u)
           \/ \E d \in RequestIds : RegisterServer(d) \/ ServerExit(d)
    <2>1. UNCHANGED <<alloc, told, gauge>>
        BY <1>4 DEF Cancel, RegisterServer, ServerExit
    <2>2. QED
        BY <1>3, <2>1
<1>5. ASSUME NEW m \in Matches, Allocate(m)
      PROVE  \/ /\ gauge' = gauge
                /\ \A n \in Matches : /\ Counted(n)' <=> Counted(n)
                                      /\ Counted(n) => alloc'[n].d = alloc[n].d
             \/ /\ alloc[m].pc = "checkpoint" /\ ~Counted(m)
                /\ Counted(m)' /\ alloc'[m].d = alloc[m].d
                /\ gauge' = [gauge EXCEPT ![alloc[m].kind] = @ + 1]
                /\ \A n \in Matches \ {m} : /\ Counted(n)' <=> Counted(n)
                                            /\ alloc'[n] = alloc[n]
    <2>1. \A n \in Matches \ {m} : alloc'[n] = alloc[n] /\ told'[n] = told[n]
        BY <1>5, AllocateProfile DEF Profile
    <2>2. \A n \in Matches \ {m} : Counted(n)' <=> Counted(n)
        BY <2>1 DEF Counted
    <2>3. CASE Checkpoint(m)
        <3>1. alloc[m].pc = "checkpoint"
            BY <2>3 DEF Checkpoint, At
        <3>2. /\ ~Counted(m) /\ Counted(m)' /\ alloc'[m].d = alloc[m].d
              /\ gauge' = [gauge EXCEPT ![alloc[m].kind] = @ + 1]
            BY <1>1, <1>5, <2>3, AllocateCounts
        <3>3. QED
            BY <2>1, <2>2, <3>1, <3>2
    <2>4. CASE ~Checkpoint(m)
        <3>1. /\ Counted(m)' <=> Counted(m)
              /\ Counted(m) => alloc'[m].d = alloc[m].d
              /\ gauge' = gauge
            BY <1>1, <1>5, <2>4, AllocateCounts
        <3>2. QED
            BY <2>1, <2>2, <3>1
    <2>5. QED
        BY <2>3, <2>4
<1>6. QED
    BY <1>2, <1>4, <1>5 DEF FleetStep

LEMMA FleetGauge ==
    ASSUME LifeInv, FleetStep, FleetInv', UNCHANGED <<overlapped, ended>>
    PROVE  GaugeExact'
<1>1. TypeInv /\ StoryInv /\ TypeInv' /\ StoryInv' /\ ResultTypes
    BY DEF LifeInv, FleetInv
<1>2. (\A e \in RequestIds : FleetMoves(e)) /\ Clock
    BY <1>1, FleetStepMoves
<1>3. SUFFICES ASSUME faults' = 0, cancelled' = {}, overlapped = {}
               PROVE  GaugeCounts'
    BY DEF GaugeExact
<1>4. GaugeCounts
    BY <1>2, <1>3 DEF LifeInv, GaugeExact, Clock
<1>5. \A e \in Started : e \in RequestIds /\ server'[e].kind = server[e].kind
    BY <1>1, <1>2 DEF Started, FleetMoves, ServerKeeps, StoryInv, HostOf
<1>6. \A e \in RequestIds : e \in Started <=> \E n \in Matches : Counted(n) /\ alloc[n].d = e
    BY <1>1, StartedCounted DEF StartedIsCounted
<1>7. \A e \in RequestIds : e \in Started' <=> \E n \in Matches : Counted(n)' /\ alloc'[n].d = e
    <2>1. StartedIsCounted'
        BY <1>1, StartedCounted, PTL
    <2>2. QED
        BY <2>1 DEF StartedIsCounted
<1>8. Started \subseteq RequestIds /\ Started' \subseteq RequestIds
    BY DEF Started
<1>9. CASE /\ gauge' = gauge
           /\ \A n \in Matches : /\ Counted(n)' <=> Counted(n)
                                 /\ Counted(n) => alloc'[n].d = alloc[n].d
    <2>1. Started' = Started
        BY <1>6, <1>7, <1>8, <1>9
    <2>2. \A k \in Kinds : {d \in Started : server'[d].kind = k /\ ended'[d] = 0}
                         = {d \in Started : server[d].kind = k /\ ended[d] = 0}
        BY <1>5
    <2>3. QED
        BY <1>4, <1>9, <2>1, <2>2 DEF GaugeCounts
<1>10. CASE \E m \in Matches :
                /\ alloc[m].pc = "checkpoint" /\ ~Counted(m)
                /\ Counted(m)' /\ alloc'[m].d = alloc[m].d
                /\ gauge' = [gauge EXCEPT ![alloc[m].kind] = @ + 1]
                /\ \A n \in Matches \ {m} : /\ Counted(n)' <=> Counted(n)
                                            /\ alloc'[n] = alloc[n]
    <2>1. PICK m \in Matches :
              /\ alloc[m].pc = "checkpoint" /\ ~Counted(m)
              /\ Counted(m)' /\ alloc'[m].d = alloc[m].d
              /\ gauge' = [gauge EXCEPT ![alloc[m].kind] = @ + 1]
              /\ \A n \in Matches \ {m} : /\ Counted(n)' <=> Counted(n)
                                          /\ alloc'[n] = alloc[n]
        BY <1>10
    <2>2. PICK d \in RequestIds : d = alloc[m].d
        BY <1>1, <2>1, KnownDeploy DEF Knows
    <2>3. server[d].match = m /\ server[d].kind = alloc[m].kind
        BY <1>1, <2>2, Constants DEF StoryInv, StoryOf
    <2>4. d \notin Started
        <3>1. \A n \in Matches : alloc[n].d = d => n = m
            BY <1>1, <2>3, Constants DEF StoryInv, StoryOf
        <3>2. QED
            BY <1>6, <2>1, <3>1
    <2>5. Started' = Started \cup {d}
        BY <1>6, <1>7, <1>8, <2>1, <2>2
    <2>6. ended[d] = 0
        <3>1. "checkpoint" \notin Ended /\ ended[d] \in Nat
            BY <1>1 DEF Ended, ResultTypes
        <3>2. EndedOf(d)
            BY DEF LifeInv, EndsInv
        <3>3. QED
            BY <2>1, <2>3, <3>1, <3>2 DEF EndedOf
    <2>7. server'[d].kind = server[d].kind
        BY <1>1, <1>2, <2>3, Constants DEF FleetMoves, ServerKeeps, StoryInv, HostOf
    <2> DEFINE S(k) == {e \in Started : server[e].kind = k /\ ended[e] = 0}
    <2>8. ASSUME NEW k \in Kinds
          PROVE  /\ {e \in Started : server[e].kind = k /\ ended[e] = 0}'
                      = IF k = server[d].kind THEN S(k) \cup {d} ELSE S(k)
                 /\ IsFiniteSet(S(k)) /\ gauge[k] = Cardinality(S(k)) /\ gauge[k] \in Nat
                 /\ d \notin S(k)
        <3>1. {e \in Started : server[e].kind = k /\ ended[e] = 0}'
                  = {e \in Started \cup {d} : server[e].kind = k /\ ended[e] = 0}
            BY <1>5, <2>5, <2>7
        <3>2. {e \in Started : server[e].kind = k /\ ended[e] = 0}'
                  = IF k = server[d].kind THEN S(k) \cup {d} ELSE S(k)
            BY <2>6, <3>1
        <3>3. 1 \in Int /\ MaxRequests \in Int
            BY Constants
        <3>4. IsFiniteSet(RequestIds)
            BY <3>3, FS_Interval DEF RequestIds
        <3>5. S(k) \in SUBSET RequestIds
            BY <1>8
        <3>6. IsFiniteSet(S(k))
            BY <3>4, <3>5, FS_Subset
        <3>7. gauge[k] = Cardinality(S(k)) /\ gauge[k] \in Nat /\ d \notin S(k)
            BY <1>1, <1>4, <2>4 DEF GaugeCounts, TypeInv, RestOK
        <3>8. QED
            BY <3>2, <3>6, <3>7
    <2> HIDE DEF S
    <2>9. ASSUME NEW k \in Kinds
          PROVE  gauge'[k] = Cardinality(IF k = server[d].kind THEN S(k) \cup {d} ELSE S(k))
        <3>1. gauge \in [Kinds -> Nat]
            BY <1>1 DEF TypeInv, RestOK
        <3>2. CASE k = server[d].kind
            <4>1. Cardinality(S(k) \cup {d}) = Cardinality(S(k)) + 1
                BY <2>8, FS_AddElement
            <4>2. gauge'[k] = gauge[k] + 1
                BY <2>1, <2>3, <3>1, <3>2
            <4>3. QED
                BY <2>8, <3>2, <4>1, <4>2
        <3>3. CASE k # server[d].kind
            BY <2>1, <2>3, <2>8, <3>1, <3>3
        <3>4. QED
            BY <3>2, <3>3
    <2>10. QED
        BY <2>8, <2>9 DEF GaugeCounts
<1>11. QED
    BY <1>1, <1>3, <1>9, <1>10, FleetCounts

(* A step of the allocation, whichever it is. *)
LEMMA FleetStepInv ==
    ASSUME LifeInv, FleetStep, UNCHANGED <<call, callerVars, resultVars, swept, ended>>
    PROVE  LifeInv'
<1>1. /\ FleetInv /\ TypeInv /\ StoryInv /\ ResultTypes /\ CallsInv /\ EndsInv /\ ResultsInv
      /\ ReleasedInv /\ NotLost
    BY DEF LifeInv, FleetInv
<1>2. FleetInv'
    BY <1>1, TypeStep, LedgerStep, StoryStep DEF FleetInv, FleetNext
<1>3. /\ \A e \in RequestIds : FleetMoves(e)
      /\ \A n \in Matches : MatchKeeps(n)
      /\ Clock
    BY <1>1, FleetStepMoves
<1>4. UNCHANGED <<closing, reported, overlapped, made, scores, history, accepted>>
    BY DEF callerVars, resultVars
<1>5. ResultTypes'
    <2>1. Active' = Active /\ Unscored' = Unscored
        BY DEF Active, Unscored
    <2>2. QED
        BY <1>1, <1>4, <2>1 DEF ResultTypes
<1>6. CallsInv'
    <2>1. \A e \in RequestIds : Moves(e)
        BY <1>3, <1>4 DEF FleetMoves, Moves, ResultsKeep
    <2>2. QED
        BY <1>1, <1>3, <1>4, <2>1, CallFrame DEF CallsInv
<1>7. ASSUME NEW e \in RequestIds
      PROVE  AloneOf(e)' /\ EndedOf(e)' /\ ResultOf(e)' /\ Released(e)'
             /\ (server'[e].match # None => Recorded(e)')
    <2>1. /\ AloneOf(e) /\ EndedOf(e) /\ ResultOf(e) /\ Released(e)
          /\ server[e].match # None => Recorded(e)
        BY <1>1 DEF EndsInv, ResultsInv, ReleasedInv
    <2>2. FleetMoves(e) /\ (faults' = 0 => faults = 0) /\ cancelled \subseteq cancelled'
        BY <1>3 DEF Clock
    <2>3. /\ server[e].match # None => server[e].match \in Matches
          /\ server[e].state = "none" <=> server[e].match = None
          /\ server[e].match # None => alloc[server[e].match].pc # "idle"
          /\ tracked[e] # NoPorts => server[e].match # None
        BY <1>1 DEF TypeInv, RestOK, Server, StoryInv, HostOf
    <2>4. server[e].match # None =>
              /\ server'[e].match = server[e].match /\ server'[e].kind = server[e].kind
              /\ server[e].state \in Came => server'[e].state \in Came
        BY <2>2, <2>3 DEF FleetMoves, ServerKeeps
    <2>5. About(e)' = About(e)
        BY DEF About
    <2>6. AloneOf(e)'
        BY <1>4, <2>1, <2>2, <2>5 DEF AloneOf, FleetMoves
    <2>7. EndedOf(e)'
        <3>1. ended[e] > 0 => /\ server'[e].match = server[e].match /\ server[e].match # None
                              /\ server'[e].state \in Came
                              /\ alloc'[server[e].match].pc \in Ended
            BY <1>3, <2>1, <2>3, <2>4 DEF EndedOf, MatchKeeps
        <3>2. ended[e] \in Nat /\ "booting" \notin Came
            BY <1>1 DEF ResultTypes, Came
        <3>3. faults' = 0 /\ e \in registered' => ended[e] = 0
            <4>1. e \in registered' => e \in registered \/ server[e].state = "booting"
                BY <2>2 DEF FleetMoves
            <4>2. server[e].state = "booting" => ~(ended[e] > 0)
                BY <2>1, <3>2 DEF EndedOf
            <4>3. QED
                BY <2>1, <2>2, <3>2, <4>1, <4>2 DEF EndedOf
        <3>4. QED
            BY <3>1, <3>3 DEF EndedOf
    <2>8. ResultOf(e)'
        BY <1>4, <2>1, <2>4 DEF ResultOf
    <2>9. server'[e].match # None => Recorded(e)'
        <3>1. CASE server[e].match = None
            BY <1>4, <2>1, <3>1 DEF ResultOf, Recorded
        <3>2. CASE server[e].match # None
            <4>1. /\ server'[e].match = server[e].match
                  /\ alloc'[server[e].match].users = alloc[server[e].match].users
                  /\ alloc'[server[e].match].probe = alloc[server[e].match].probe
                BY <1>3, <2>3, <2>4, <3>2 DEF MatchKeeps
            <4>2. QED
                BY <1>4, <2>1, <3>2, <4>1 DEF Recorded, MatchOf
        <3>3. QED
            BY <3>1, <3>2
    <2>10. Released(e)'
        <3>1. SUFFICES ASSUME faults' = 0, e \notin registered' \cup swept,
                              server'[e].match \notin cancelled',
                              server'[e].state = "up" \/ tracked'[e] # NoPorts
                       PROVE  \E b \in About(e) : /\ call[b].pc \in Closing
                                                  /\ call[b].kind = server'[e].kind
            BY <2>5 DEF Released
        <3>2. faults = 0 /\ e \notin registered /\ (server[e].state = "up" \/ tracked[e] # NoPorts)
            BY <2>2, <3>1 DEF FleetMoves
        <3>3. server[e].match # None
            BY <2>3, <3>2
        <3>4. server[e].match \notin cancelled
            BY <2>2, <2>4, <3>1, <3>3
        <3>5. QED
            BY <2>1, <2>4, <3>1, <3>2, <3>3, <3>4 DEF Released
    <2>11. QED
        BY <2>6, <2>7, <2>8, <2>9, <2>10
<1>8. NotLost'
    <2>1. ASSUME faults = 0, faults' = 0, NEW n \in Matches
          PROVE  alloc'[n].pc # "lost"
        <3>1. alloc[n].pc # "lost"
            BY <1>1, <2>1 DEF NotLost
        <3>2. ASSUME NEW m \in Matches, Allocate(m)
              PROVE  alloc'[n].pc # "lost"
            BY <1>1, <3>1, <3>2, AllocateCounts, AllocateProfile DEF Profile
        <3>3. ASSUME NEW m \in Matches, NEW us, NEW k, NEW p, Matched(m, us, k, p)
              PROVE  alloc'[n].pc # "lost"
            BY <1>1, <3>1, <3>3 DEF Matched, TypeInv, NoAllocation
        <3>4. CASE alloc' = alloc
            BY <3>1, <3>4
        <3>5. QED
            BY <3>2, <3>3, <3>4 DEF FleetStep, Cancel, RegisterServer, ServerExit
    <2>2. QED
        BY <1>3, <2>1 DEF NotLost, Clock
<1>9. GaugeExact'
    BY <1>2, <1>4, FleetGauge
<1>10. EndsInv' /\ ResultsInv' /\ ReleasedInv'
    BY <1>7 DEF EndsInv, ResultsInv, ReleasedInv
<1>11. QED
    BY <1>2, <1>5, <1>6, <1>8, <1>9, <1>10 DEF LifeInv

-----------------------------------------------------------------------------
(* Every step keeps the invariant. *)

LEMMA InitInv == Init => LifeInv
<1>1. SUFFICES ASSUME Init
               PROVE  LifeInv
    OBVIOUS
<1>2. FleetInit
    BY <1>1 DEF Init
<1>3. FleetInv
    BY <1>2, FleetInitType, FleetInitLedger, FleetInitStory DEF FleetInv
<1>4. \A c \in Calls : call[c] = NoCall /\ call[c].pc = "idle" /\ call[c].d = 0
    BY <1>1 DEF Init, NoCall
<1>5. ResultTypes
    <2>1. call \in [Calls -> Call]
        BY <1>1 DEF Init, NoCall, Call, CallLabels
    <2>2. Active = {} /\ Unscored = {}
        BY <1>4 DEF Active, Unscored
    <2>3. /\ IsFiniteSet(Active) /\ Cardinality(Active) = 0
          /\ IsFiniteSet(Unscored) /\ Cardinality(Unscored) = 0
        BY <2>2, FS_EmptySet
    <2>4. made \in 0 .. MaxCalls
        BY <1>1, LifecycleAssumption DEF Init
    <2>5. \A d \in RequestIds : /\ ended[d] + Cardinality(Active) <= made
                                /\ \A u \in Users : scores[d][u] + Cardinality(Unscored) <= made
        BY <1>1, <2>3 DEF Init
    <2>6. QED
        BY <1>1, <2>1, <2>3, <2>4, <2>5 DEF Init, ResultTypes
<1>6. CallsInv
    BY <1>4 DEF CallsInv, CallOf, BackendOf, EndOnly, CancelOnly
<1>7. EndsInv
    <2>1. \A d \in RequestIds : About(d) = {}
        BY <1>4, Constants DEF About
    <2>2. QED
        BY <1>1, <2>1 DEF Init, EndsInv, AloneOf, EndedOf
<1>8. ResultsInv
    BY <1>1, <1>2 DEF Init, FleetInit, NoServer, ResultsInv, ResultOf
<1>9. ReleasedInv
    BY <1>2 DEF FleetInit, NoServer, ReleasedInv, Released
<1>10. NotLost
    BY <1>2 DEF FleetInit, NoAllocation, NotLost
<1>11. GaugeExact
    <2>1. Started = {}
        BY <1>2 DEF FleetInit, NoServer, Started
    <2>2. \A k \in Kinds : {d \in Started : server[d].kind = k /\ ended[d] = 0} = {}
        BY <2>1
    <2>3. GaugeCounts
        BY <1>2, <2>2, FS_EmptySet DEF FleetInit, GaugeCounts
    <2>4. QED
        BY <2>3 DEF GaugeExact
<1>12. QED
    BY <1>3, <1>5, <1>6, <1>7, <1>8, <1>9, <1>10, <1>11 DEF LifeInv

LEMMA LifeStep ==
    ASSUME LifeInv, [Next]_vars
    PROVE  LifeInv'
<1>1. CASE UNCHANGED vars
    <2>1. /\ UNCHANGED fleetVars
          /\ UNCHANGED <<call, closing, reported, overlapped, made, scores, history, accepted,
                         swept, ended>>
        BY <1>1 DEF vars, callerVars, resultVars
    <2>2. FleetInv'
        BY <2>1, TypeStep, LedgerStep, StoryStep DEF LifeInv, FleetInv
    <2>3. UNCHANGED <<alloc, cancelled, inflight, tracked, gauge, registered, server, told, faults>>
        BY <2>1 DEF fleetVars
    <2>4. ResultTypes'
        BY <2>1 DEF LifeInv, ResultTypes, Active, Unscored
    <2>5. CallsInv'
        <3>1. ASSUME NEW c \in Calls
              PROVE  CallOf(c)'
            BY <2>1, <2>3 DEF LifeInv, CallsInv, CallOf
        <3>2. ASSUME NEW c \in Calls
              PROVE  BackendOf(c)'
            BY <2>1, <2>3 DEF LifeInv, CallsInv, BackendOf
        <3>3. QED
            BY <3>1, <3>2 DEF CallsInv
    <2>6. EndsInv' /\ ReleasedInv'
        BY <2>1, <2>3 DEF LifeInv, EndsInv, AloneOf, EndedOf, ReleasedInv, Released, About
    <2>7. ResultsInv'
        BY <2>1, <2>3 DEF LifeInv, ResultsInv, ResultOf, Recorded, MatchOf
    <2>8. NotLost' /\ GaugeExact'
        BY <2>1, <2>3 DEF LifeInv, NotLost, GaugeExact, GaugeCounts, Started, MatchOf
    <2>9. QED
        BY <2>2, <2>4, <2>5, <2>6, <2>7, <2>8 DEF LifeInv
<1>2. CASE Next
    BY <1>2, FleetStepInv, RestartInv, EndBeginInv, CancelBeginInv, CallStepInv, SweepInv DEF Next
<1>3. QED
    BY <1>1, <1>2

LEMMA LifeInvariant == Spec => []LifeInv
<1>1. LifeInv /\ [Next]_vars => LifeInv'
    BY LifeStep
<1>2. QED
    BY <1>1, InitInv, PTL DEF Spec

(* Every variable of the match lifecycle keeps its type, whatever calls      *)
(* overlap, fail or are lost: a player's record is written at most once a    *)
(* call, and the gauges never go below zero.                                 *)
THEOREM LifecycleTypeCorrect == Spec => []LifecycleTypeOK
<1>1. ASSUME LifeInv
      PROVE  LifecycleTypeOK
    <2>1. FleetTypeOK
        BY <1>1, SoundIsAllocation DEF LifeInv, FleetInv, TypeInv, RestOK, FleetTypeOK
    <2>2. /\ ResultTypes /\ made \in Nat /\ MaxCalls \in Nat /\ made <= MaxCalls
        BY <1>1, LifecycleAssumption DEF LifeInv, ResultTypes
    <2>3. Cardinality(Active) \in Nat /\ Cardinality(Unscored) \in Nat
        BY <2>2, FS_CardinalityType DEF ResultTypes
    <2>4. ASSUME NEW d \in RequestIds
          PROVE  /\ ended[d] \in 0 .. MaxCalls
                 /\ \A u \in Users : scores[d][u] \in 0 .. MaxCalls
        <3>1. /\ ended[d] \in Nat /\ ended[d] + Cardinality(Active) <= made
              /\ \A u \in Users : /\ scores[d][u] \in Nat
                                  /\ scores[d][u] + Cardinality(Unscored) <= made
            BY <2>2 DEF ResultTypes
        <3>2. QED
            BY <2>2, <2>3, <3>1
    <2>5. /\ ended \in [RequestIds -> 0 .. MaxCalls]
          /\ scores \in [RequestIds -> [Users -> 0 .. MaxCalls]]
        BY <2>2, <2>4 DEF ResultTypes
    <2>6. QED
        BY <2>1, <2>2, <2>5 DEF ResultTypes, LifecycleTypeOK
<1>2. QED
    BY <1>1, LifeInvariant, PTL

(* MatchEndRpc: a match_end that was answered ok has its results written for  *)
(* every matched player it reported, through failed writes, restarts and      *)
(* overlapping calls, and no player ever gets a result who was not both.      *)
THEOREM AcceptedHolds == Spec => []AcceptedIsRecorded
<1>1. LifeInv => AcceptedIsRecorded
    BY DEF LifeInv, ResultsInv, Recorded, AcceptedIsRecorded, MatchOf
<1>2. QED
    BY <1>1, LifeInvariant, PTL

(* The call that deletes a registration frees the server and the ports it     *)
(* stood for; no port pair is ever given back twice.                          *)
THEOREM ReleasedHolds == Spec => []ResolvedMatchIsReleased
<1>1. LifeInv => ResolvedMatchIsReleased
    BY DEF LifeInv, FleetInv, LedgerInv, ReleasedInv, Released, Closing, MatchOf,
        ResolvedMatchIsReleased
<1>2. QED
    BY <1>1, LifeInvariant, PTL

(* recordAllocationStart and recordAllocationEnd: for any number of matches   *)
(* and calls the gauges count the matches that are on, as long as the runtime *)
(* runs, no player cancels and no two calls about a match overlap.            *)
THEOREM GaugeHolds == Spec => []GaugeExact
<1>1. LifeInv => GaugeExact
    BY DEF LifeInv
<1>2. QED
    BY <1>1, LifeInvariant, PTL

=============================================================================
