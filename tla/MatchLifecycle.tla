--------------------------- MODULE MatchLifecycle ---------------------------
(***************************************************************************)
(* The end of a match: match_end, match_cancel and stopMatchByKind of      *)
(* match_lifecycle.go, LocalDockerAllocator.Stop, the active-match gauges  *)
(* of allocator_metrics.go and the hourly sweep of match_sweep.go, on top  *)
(* of the allocation of Fleet.                                             *)
(*                                                                         *)
(* A call is a record with a program counter, like an allocation.  A game  *)
(* server reports the end of its match, or gives it up, and calls again    *)
(* when no answer came in time: its second call may overlap the first.     *)
(* The client of a probe may cancel the probe's match on its own.  Calls   *)
(* come after the allocation has told its players, for the timers of a     *)
(* server run for minutes.                                                 *)
(***************************************************************************)
EXTENDS Fleet

CONSTANTS
    Calls,          \* RPC calls that can be in flight at once
    MaxCalls        \* bound: match_end and match_cancel calls ever made

ASSUME LifecycleAssumption == MaxCalls \in Nat

VARIABLES
    call,           \* match_end and match_cancel calls
    closing,        \* which call each server makes about its match
    reported,       \* the users each server's match_end names
    scores,         \* leaderboard records written, by match and user
    history,        \* match_history rows: the users of each match
    accepted,       \* matches whose match_end was answered ok
    swept,          \* matches whose rows the hourly sweep deleted
    ended,          \* recordAllocationEnd calls made about each match
    overlapped,     \* matches two calls were about at once
    made            \* calls so far

resultVars == <<scores, history, accepted>>
callerVars == <<closing, reported, overlapped, made>>
vars == <<fleetVars, call, callerVars, resultVars, swept, ended>>

CallLabels == {"idle", "end.metadata", "end.synthetic", "end.scores", "end.history",
               "sweep", "cancel.synthetic", "cancel.metadata", "delete", "stop", "release"}

Call == [pc        : CallLabels,
         end       : BOOLEAN,                \* match_end, or match_cancel
         client    : BOOLEAN,                \* called by a client session
         d         : RequestIds \cup {0},
         kind      : Kinds \cup {"none"},    \* metadata.AllocatorKind
         synthetic : BOOLEAN,
         players   : SUBSET Users,           \* the reported players it keeps
         failed    : BOOLEAN]                \* writeFailed

NoCall == [pc |-> "idle", end |-> FALSE, client |-> FALSE, d |-> 0, kind |-> "none",
           synthetic |-> FALSE, players |-> {}, failed |-> FALSE]

CallAt(c, pc) == call[c].pc = pc

CallTo(c, pc) == call' = [call EXCEPT ![c].pc = pc]

Answer(c) == call' = [call EXCEPT ![c] = NoCall]

About(d) == {c \in Calls : call[c].d = d}

MatchOf(d) == server[d].match

(* A storage read: it may fail, and changes nothing but the call. *)
ReadOnly == UNCHANGED <<alloc, cancelled, inflight, portVars, gauge, matchRows, server,
                        told, callerVars, resultVars, swept, ended>>

-----------------------------------------------------------------------------
(* Beginning a call: it reads the registration.  A match_end without one is *)
(* rejected, which changes nothing.                                          *)

Begin(c, d, r) ==
    /\ CallAt(c, "idle")
    /\ made < MaxCalls
    /\ made' = made + 1
    /\ call' = [call EXCEPT ![c] = r]
    /\ overlapped' = IF About(d) = {} THEN overlapped ELSE overlapped \cup {d}
    /\ UNCHANGED <<fleetVars, resultVars, swept, ended>>

EndBegin(c, d, us) ==
    /\ server[d].state = "up" /\ d \in registered
    /\ told[MatchOf(d)] = "ready"
    /\ us # {}
    /\ \/ closing[d] = "none"
       \/ closing[d] = "end" /\ us = reported[d]
    /\ closing' = [closing EXCEPT ![d] = "end"]
    /\ reported' = [reported EXCEPT ![d] = us]
    /\ Begin(c, d, [NoCall EXCEPT !.pc = "end.metadata", !.end = TRUE, !.d = d])

CancelBegin(c, d, client) ==
    /\ MatchOf(d) # None
    /\ alloc[MatchOf(d)].pc \in {"finish", "done", "lost"}
    /\ IF client
       THEN /\ alloc[MatchOf(d)].probe /\ told[MatchOf(d)] = "ready"
            /\ UNCHANGED closing
       ELSE /\ server[d].state = "up"
            /\ closing[d] \in {"none", "cancel"}
            /\ closing' = [closing EXCEPT ![d] = "cancel"]
    /\ Begin(c, d, [NoCall EXCEPT
                      !.pc = IF d \in registered THEN "cancel.synthetic" ELSE "sweep",
                      !.client = client, !.d = d])
    /\ UNCHANGED reported

-----------------------------------------------------------------------------
(* match_end: check the metadata, write the results. *)

(* Mutant: players the matchmaker did not match are kept. *)
EndMetadataKeepsAll(c) ==
    LET d == call[c].d IN
    /\ CallAt(c, "end.metadata")
    /\ \/ /\ meta[d] # "none"
          /\ call' = [call EXCEPT ![c].pc = "end.synthetic", ![c].kind = meta[d],
                                  ![c].players = reported[d]]
          /\ UNCHANGED faults
       \/ meta[d] = "none" /\ Answer(c) /\ UNCHANGED faults
       \/ Fault("lifecycle") /\ Answer(c)
    /\ ReadOnly

(* restrictToMatchedPlayers; a match without a metadata row, and one none of *)
(* whose reported players was matched, is rejected.                          *)
EndMetadata(c) ==
    LET d == call[c].d
        kept == reported[d] \cap alloc[MatchOf(d)].users IN
    /\ CallAt(c, "end.metadata")
    /\ \/ /\ meta[d] # "none" /\ kept # {}
          /\ call' = [call EXCEPT ![c].pc = "end.synthetic", ![c].kind = meta[d],
                                  ![c].players = kept]
          /\ UNCHANGED faults
       \/ (meta[d] = "none" \/ kept = {}) /\ Answer(c) /\ UNCHANGED faults
       \/ Fault("lifecycle") /\ Answer(c)
    /\ ReadOnly

(* isSyntheticMatch: an unreadable marker counts as none. *)
EndSynthetic(c) ==
    LET marker == call[c].d \in marked IN
    /\ CallAt(c, "end.synthetic")
    /\ \/ /\ call' = [call EXCEPT ![c].synthetic = marker,
                                  ![c].pc = IF marker THEN "delete" ELSE "end.scores"]
          /\ UNCHANGED faults
       \/ Fault("lifecycle") /\ CallTo(c, "end.scores")
    /\ ReadOnly

(* The leaderboard writes: a failed one is remembered, the others go on. *)
EndScores(c) ==
    LET d == call[c].d
        ps == call[c].players IN
    /\ CallAt(c, "end.scores")
    /\ \E lost \in SUBSET ps :
         /\ IF lost = {} THEN UNCHANGED faults ELSE Fault("lifecycle")
         /\ scores' = [scores EXCEPT ![d] =
                         [u \in Users |-> IF u \in ps \ lost THEN @[u] + 1 ELSE @[u]]]
         /\ call' = [call EXCEPT ![c].pc = "end.history", ![c].failed = (lost # {})]
    /\ UNCHANGED <<alloc, cancelled, inflight, portVars, gauge, matchRows, server, told,
                   callerVars, history, accepted, swept, ended>>

(* Mutant: write failures are only logged. *)
EndHistoryIgnoresFailure(c) ==
    LET d == call[c].d IN
    /\ CallAt(c, "end.history")
    /\ \/ history' = [history EXCEPT ![d] = @ \cup call[c].players] /\ UNCHANGED faults
       \/ Fault("lifecycle") /\ UNCHANGED history
    /\ CallTo(c, "delete")
    /\ UNCHANGED <<alloc, cancelled, inflight, portVars, gauge, matchRows, server, told,
                   callerVars, scores, accepted, swept, ended>>

(* The match_history rows, in one write.  A write that failed here or before *)
(* fails the call and keeps the registration for a retry.                    *)
EndHistory(c) ==
    LET d == call[c].d IN
    /\ CallAt(c, "end.history")
    /\ \/ /\ history' = [history EXCEPT ![d] = @ \cup call[c].players]
          /\ UNCHANGED faults
          /\ IF call[c].failed THEN Answer(c) ELSE CallTo(c, "delete")
       \/ /\ Fault("lifecycle")
          /\ UNCHANGED history
          /\ Answer(c)
    /\ UNCHANGED <<alloc, cancelled, inflight, portVars, gauge, matchRows, server, told,
                   callerVars, scores, accepted, swept, ended>>

-----------------------------------------------------------------------------
(* match_cancel. *)

(* Mutant: the no-op is counted as the end of a match. *)
CancelSweepCounts(c) ==
    LET d == call[c].d IN
    /\ CallAt(c, "sweep")
    /\ meta' = [meta EXCEPT ![d] = "none"] /\ marked' = marked \ {d}
    /\ gauge' = [gauge EXCEPT ![server[d].kind] = IF @ > 0 THEN @ - 1 ELSE 0]
    /\ Answer(c)
    /\ UNCHANGED <<alloc, cancelled, inflight, portVars, registered, server, told, faults,
                   callerVars, resultVars, swept, ended>>

(* Without a registration: delete what a test match can leave behind. *)
CancelSweep(c) ==
    LET d == call[c].d IN
    /\ CallAt(c, "sweep")
    /\ \/ /\ meta' = [meta EXCEPT ![d] = "none"] /\ marked' = marked \ {d}
          /\ UNCHANGED faults
       \/ Fault("lifecycle") /\ UNCHANGED <<meta, marked>>
    /\ Answer(c)
    /\ UNCHANGED <<alloc, cancelled, inflight, portVars, gauge, registered, server, told,
                   callerVars, resultVars, swept, ended>>

(* A client session may cancel a synthetic match only. *)
CancelSynthetic(c) ==
    /\ CallAt(c, "cancel.synthetic")
    /\ \E marker \in BOOLEAN :
         /\ IF marker = (call[c].d \in marked) THEN UNCHANGED faults ELSE ~marker /\ Fault("lifecycle")
         /\ IF call[c].client /\ ~marker
            THEN Answer(c)
            ELSE call' = [call EXCEPT ![c].pc = "cancel.metadata", ![c].synthetic = marker]
    /\ ReadOnly

(* Mutant: the backend is not looked up before the rows are deleted. *)
CancelMetadataSkipped(c) ==
    /\ CallAt(c, "cancel.metadata")
    /\ CallTo(c, "delete")
    /\ UNCHANGED <<fleetVars, callerVars, resultVars, swept, ended>>

(* readMatchMetadata: no row and an unreadable one leave the kind empty. *)
CancelMetadata(c) ==
    /\ CallAt(c, "cancel.metadata")
    /\ \/ /\ call' = [call EXCEPT ![c].pc = "delete", ![c].kind = meta[call[c].d]]
          /\ UNCHANGED faults
       \/ Fault("lifecycle") /\ CallTo(c, "delete")
    /\ ReadOnly

-----------------------------------------------------------------------------
(* What both end with: delete the rows, stop the server, count it as ended. *)

DeleteRows(c) ==
    LET d == call[c].d IN
    /\ CallAt(c, "delete")
    /\ \/ /\ registered' = registered \ {d}
          /\ meta' = [meta EXCEPT ![d] = "none"]
          /\ marked' = IF call[c].synthetic THEN marked \ {d} ELSE marked
          /\ UNCHANGED faults
       \/ Fault("lifecycle") /\ UNCHANGED matchRows
    /\ CallTo(c, "stop")
    /\ UNCHANGED <<alloc, cancelled, inflight, portVars, gauge, server, told,
                   callerVars, resultVars, swept, ended>>

(* Mutant: the gauge goes below zero. *)
RecordEndUnbounded(c) ==
    LET k == IF call[c].kind = "local" THEN "local" ELSE "edgegap" IN
    /\ gauge' = [gauge EXCEPT ![k] = @ - 1]
    /\ ended' = [ended EXCEPT ![call[c].d] = @ + 1]
    /\ accepted' = IF call[c].end THEN accepted \cup {call[c].d} ELSE accepted
    /\ Answer(c)

(* recordAllocationEnd: an empty kind counts as edgegap; never below zero. *)
RecordEnd(c) ==
    LET k == IF call[c].kind = "local" THEN "local" ELSE "edgegap" IN
    /\ gauge' = [gauge EXCEPT ![k] = IF @ > 0 THEN @ - 1 ELSE 0]
    /\ ended' = [ended EXCEPT ![call[c].d] = @ + 1]
    /\ accepted' = IF call[c].end THEN accepted \cup {call[c].d} ELSE accepted
    /\ Answer(c)

(* The backend stops the server, or the call fails: a local pair is then     *)
(* not released.  A server that is gone is as good as stopped.               *)
StopServer(c) ==
    LET d == call[c].d
        local == call[c].kind = "local" IN
    /\ CallAt(c, "stop")
    /\ \/ /\ local
          /\ server' = Stopped(d)
          /\ CallTo(c, "release")
          /\ UNCHANGED <<gauge, accepted, ended, faults>>
       \/ /\ ~local
          /\ server' = IF server[d].kind = "edgegap" THEN Stopped(d) ELSE server
          /\ RecordEnd(c)
          /\ UNCHANGED faults
       \/ /\ Fault("lifecycle")
          /\ RecordEnd(c)
          /\ UNCHANGED server
    /\ UNCHANGED <<alloc, cancelled, inflight, portVars, matchRows, told,
                   callerVars, scores, history, swept>>

(* releasePortsFor: the pair of a tracked deploy, once. *)
ReleasePorts(c) ==
    LET d == call[c].d IN
    /\ CallAt(c, "release")
    /\ IF tracked[d] # NoPorts
       THEN Release(tracked[d]) /\ tracked' = [tracked EXCEPT ![d] = NoPorts]
       ELSE UNCHANGED portVars
    /\ RecordEnd(c)
    /\ UNCHANGED <<alloc, cancelled, inflight, matchRows, server, told, faults,
                   callerVars, scores, history, swept>>

-----------------------------------------------------------------------------
(* sweepStaleMatchRows: the rows of every match whose metadata is more than  *)
(* a day old.  No server and no call lives that long: max_duration ends an   *)
(* Edgegap deploy, and its own timers a local server.                        *)
SweepStaleRows(stale) ==
    /\ stale # {}
    /\ \A d \in stale : /\ meta[d] # "none" /\ server[d].state = "gone"
                        /\ About(d) = {} /\ ~Running(MatchOf(d))
    /\ meta' = [d \in RequestIds |-> IF d \in stale THEN "none" ELSE meta[d]]
    /\ registered' = registered \ stale
    /\ marked' = marked \ stale
    /\ swept' = swept \cup stale
    /\ UNCHANGED <<alloc, cancelled, inflight, portVars, gauge, server, told, faults,
                   call, callerVars, resultVars, ended>>

-----------------------------------------------------------------------------
Init ==
    /\ FleetInit
    /\ call = [c \in Calls |-> NoCall]
    /\ closing = [d \in RequestIds |-> "none"]
    /\ reported = [d \in RequestIds |-> {}]
    /\ scores = [d \in RequestIds |-> [u \in Users |-> 0]]
    /\ history = [d \in RequestIds |-> {}]
    /\ accepted = {} /\ swept = {} /\ overlapped = {}
    /\ ended = [d \in RequestIds |-> 0]
    /\ made = 0

CallStep(c) ==
    \/ EndMetadata(c) \/ EndSynthetic(c) \/ EndScores(c) \/ EndHistory(c)
    \/ CancelSweep(c) \/ CancelSynthetic(c) \/ CancelMetadata(c)
    \/ DeleteRows(c) \/ StopServer(c) \/ ReleasePorts(c)

(* The runtime restarts: the calls in flight are lost too. *)
RestartRuntime ==
    /\ Restart
    /\ call' = [c \in Calls |-> NoCall]
    /\ UNCHANGED <<callerVars, resultVars, swept, ended>>

Next ==
    \/ FleetStep /\ UNCHANGED <<call, callerVars, resultVars, swept, ended>>
    \/ RestartRuntime
    \/ \E c \in Calls :
         \/ \E d \in RequestIds :
              \/ \E us \in SUBSET Users : EndBegin(c, d, us)
              \/ \E client \in BOOLEAN : CancelBegin(c, d, client)
         \/ CallStep(c)
    \/ \E stale \in SUBSET RequestIds : SweepStaleRows(stale)

Spec == Init /\ [][Next]_vars

-----------------------------------------------------------------------------
(* Every variable keeps its type; no gauge goes below zero. *)
LifecycleTypeOK ==
    /\ FleetTypeOK
    /\ call \in [Calls -> Call]
    /\ closing \in [RequestIds -> {"none", "end", "cancel"}]
    /\ reported \in [RequestIds -> SUBSET Users]
    /\ scores \in [RequestIds -> [Users -> 0 .. MaxCalls]]
    /\ history \in [RequestIds -> SUBSET Users]
    /\ accepted \subseteq RequestIds
    /\ swept \subseteq RequestIds
    /\ ended \in [RequestIds -> 0 .. MaxCalls]
    /\ overlapped \subseteq RequestIds
    /\ made \in 0 .. MaxCalls

(* SP58's comment, "a failed write fails the whole call instead of being      *)
(* dropped": once a match_end is answered ok, every player it reported who    *)
(* was matched has a leaderboard record and a history row, through failed     *)
(* writes, restarts and calls that overlap; and nobody else ever gets one.    *)
AcceptedIsRecorded ==
    \A d \in {e \in RequestIds : server[e].match # None} :
        /\ d \in accepted /\ ~alloc[MatchOf(d)].probe =>
             \A u \in reported[d] \cap alloc[MatchOf(d)].users :
                 scores[d][u] > 0 /\ u \in history[d]
        /\ \A u \in Users : scores[d][u] > 0 \/ u \in history[d] =>
             u \in reported[d] \cap alloc[MatchOf(d)].users

(* The registration is what a later call is refused on, so whoever deletes it *)
(* must free the rest: when no call fails and no player cancels, an           *)
(* unregistered match has its server stopped and its ports back in the pool,  *)
(* or a call that knows its backend is about to do so.  And no pair is given  *)
(* back twice, or while the next match already uses it, whatever fails.       *)
ResolvedMatchIsReleased ==
    /\ PortLedger
    /\ faults = 0 => \A d \in RequestIds \ (registered \cup swept) :
         MatchOf(d) \notin cancelled /\ (server[d].state = "up" \/ tracked[d] # NoPorts) =>
           \E c \in About(d) : /\ call[c].pc \in {"delete", "stop", "release"}
                               /\ call[c].kind = server[d].kind

(* The matches recordAllocationStart has counted. *)
Started == {d \in RequestIds : server[d].match # None
                /\ LET r == alloc[MatchOf(d)] IN
                      /\ r.d = d
                      /\ \/ r.pc \in {"mark", "meta", "notify"}
                         \/ r.pc \in {"finish", "done"} /\ told[MatchOf(d)] = "ready"}

GaugeCounts ==
    \A k \in Kinds :
        gauge[k] = Cardinality({d \in Started : server[d].kind = k /\ ended[d] = 0})

(* recordAllocationStart and recordAllocationEnd: while the runtime runs, no  *)
(* player cancels and no two calls about a match overlap, a gauge counts the  *)
(* matches of its backend that started and have not been ended.               *)
GaugeExact == faults = 0 /\ cancelled = {} /\ overlapped = {} => GaugeCounts

(* MatchEndRpc's comment, "a second call for the same request_id finds the    *)
(* registration gone and is rejected", and MatchCancelRpc's on two racing     *)
(* probes: calls about a match that overlap are counted once.                 *)
GaugeCountsOnce == faults = 0 => GaugeCounts

=============================================================================
