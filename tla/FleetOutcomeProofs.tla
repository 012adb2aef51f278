------------------------- MODULE FleetOutcomeProofs -------------------------
(***************************************************************************)
(* What the players of a match are told and what is left of its servers:   *)
(* proofs of OneOutcome, LastMatchCancellable, FailedMatchLeavesNoServer    *)
(* and BoundPortsInUse.  The invariant is also what the proofs about the    *)
(* end of a match start from.                                               *)
(***************************************************************************)
EXTENDS FleetProofs

OnLocal == {"port", "create", "start", "wait", "undo"}

OnEdgegap == {"deploy", "poll", "stop", "backoff"}

(* The server has registered: what is left is the bookkeeping. *)
Going == {"checkpoint", "teardown", "mark", "meta", "notify"}

Ended == {"finish", "done", "lost"}

(* Where a goroutine may have a live server. *)
Serving == {"wait", "undo", "poll", "stop"} \cup Going

Came == {"up", "gone"}

(* What is known of one match: its deploy is its own and of its kind, it has *)
(* told its players something only at its end, and then for a reason.        *)
StoryOf(m) ==
    LET r == alloc[m]
        s == server[r.d] IN
    /\ r.pc = "idle" => r = NoAllocation /\ told[m] = "none"
    /\ told[m] # "none" => r.pc \in Ended
    /\ told[m] = "cancelled" \/ r.pc = "teardown" => m \in cancelled
    /\ r.pc \in OnLocal => r.kind = "local"
    /\ r.pc \in OnEdgegap => r.kind = "edgegap"
    /\ r.pc = "mark" => r.probe
    /\ r.d # 0 => s.match = m /\ s.kind = r.kind
    /\ r.pc \in Owning => s.pair = r.pair
    /\ r.pc = "start" => s.state = "created"
    /\ r.pc \in Going \/ told[m] = "ready" => r.d # 0 /\ s.state \in Came

(* What is known of one request id: its rows and its ports are those of the  *)
(* match it was created for, and when no call fails a live server is the one *)
(* its match last asked for, and still serves it.                            *)
HostOf(d) ==
    LET s == server[d]
        m == s.match
        r == alloc[m] IN
    /\ s.state = "none" <=> m = None
    /\ m # None => r.pc # "idle"
    /\ d \in registered => s.state \in Came
    /\ meta[d] # "none" => m # None /\ meta[d] = s.kind
    /\ d \in marked => m # None /\ r.probe /\ r.d = d /\ r.pc \in Going \cup Ended
    /\ tracked[d] # NoPorts =>
         /\ m # None /\ s.kind = "local" /\ r.d = d
         /\ r.pc \in Going \/ told[m] \in {"ready", "cancelled"}
    /\ faults = 0 /\ Live(d) /\ m \notin cancelled =>
         r.d = d /\ (r.pc \in Serving \/ told[m] = "ready")

(* As long as no write fails, a match that is on has its metadata. *)
Written(m) ==
    LET r == alloc[m] IN
    faults = 0 /\ (r.pc = "notify" \/ told[m] = "ready") /\ r.d \in registered =>
        meta[r.d] = r.kind

(* Matches are formed in order. *)
InOrder ==
    \A m, n \in Matches : m < n /\ alloc[m].pc = "idle" => alloc[n].pc = "idle"

StoryInv ==
    /\ \A m \in Matches : StoryOf(m) /\ Written(m)
    /\ \A d \in RequestIds : HostOf(d)

-----------------------------------------------------------------------------
(* What no step takes back: a server keeps its match, its kind and its ports *)
(* and never comes back, rows are not made up, a fault and a cancel remain.  *)

Advances(e) ==
    /\ server'[e].match = server[e].match
    /\ server'[e].kind = server[e].kind
    /\ server'[e].pair = server[e].pair
    /\ server'[e].state = "none" <=> server[e].state = "none"
    /\ server[e].state = "created" => server'[e].state = "created"
    /\ server[e].state \in Came => server'[e].state \in Came
    /\ server'[e].state \in {"booting", "up"} => server[e].state \in {"booting", "up"}

FewerRows(e) ==
    /\ e \in registered' => e \in registered
    /\ meta'[e] \in {meta[e], "none"}
    /\ e \in marked' => e \in marked
    /\ tracked'[e] \in {tracked[e], NoPorts}

SameRows == UNCHANGED <<registered, meta, marked, tracked>>

Clock == (faults' = 0 => faults = 0) /\ cancelled \subseteq cancelled'

LEMMA SameServerAdvances ==
    ASSUME UNCHANGED server
    PROVE  \A e \in RequestIds : Advances(e)
BY DEF Advances

LEMMA SameRowsFewer ==
    ASSUME SameRows
    PROVE  \A e \in RequestIds : FewerRows(e)
BY DEF SameRows, FewerRows

LEMMA InStateAdvances ==
    ASSUME RestOK, NEW d \in RequestIds, NEW s \in ServerStates \ {"none"},
           server' = InState(d, s), server[d].state \notin {"none", "created"},
           server[d].state \in Came => s \in Came,
           s \in {"booting", "up"} => Live(d)
    PROVE  \A e \in RequestIds : Advances(e)
<1>1. server[d] \in Server /\ server' = [server EXCEPT ![d] = [server[d] EXCEPT !.state = s]]
    BY DEF RestOK, InState
<1>2. /\ server'[d].match = server[d].match /\ server'[d].kind = server[d].kind
      /\ server'[d].pair = server[d].pair /\ server'[d].state = s
    BY <1>1 DEF RestOK, Server
<1>3. \A e \in RequestIds \ {d} : server'[e] = server[e]
    BY <1>1 DEF RestOK
<1>4. QED
    BY <1>2, <1>3 DEF Advances, Live

LEMMA StoppedAdvances ==
    ASSUME RestOK, NEW d \in RequestIds, server' \in {server, Stopped(d)}
    PROVE  \A e \in RequestIds : Advances(e)
<1>1. CASE server' = server
    BY <1>1, SameServerAdvances
<1>2. CASE Live(d) /\ server' = InState(d, "gone")
    BY <1>2, InStateAdvances DEF Live, ServerStates, Came
<1>3. QED
    BY <1>1, <1>2 DEF Stopped

(* A stop that reaches the backend leaves no live server. *)
LEMMA StoppedDead ==
    ASSUME RestOK, NEW d \in RequestIds, server' = Stopped(d)
    PROVE  server'[d].state \notin {"booting", "up"}
<1>1. server[d] \in Server
    BY DEF RestOK
<1>2. CASE Live(d)
    <2>1. server' = [server EXCEPT ![d] = [server[d] EXCEPT !.state = "gone"]]
        BY <1>2 DEF Stopped, InState
    <2>2. QED
        BY <1>1, <2>1 DEF RestOK, Server
<1>3. CASE ~Live(d)
    BY <1>3 DEF Stopped, Live
<1>4. QED
    BY <1>2, <1>3

-----------------------------------------------------------------------------
(* What a step that does not touch a match, or a request id, leaves as it is. *)

LEMMA KnownDeploy ==
    ASSUME TypeInv, NEW m \in Matches
    PROVE  /\ alloc[m].d \in RequestIds \cup {0}
           /\ alloc[m].pc \in Knows => alloc[m].d \in RequestIds
           /\ alloc[m] \in Allocation
BY DEF TypeInv, Sound, Allocation

LEMMA StoryFrame ==
    ASSUME TypeInv, NEW m \in Matches, StoryOf(m), Clock,
           alloc'[m] = alloc[m], told'[m] = told[m],
           alloc[m].d # 0 => Advances(alloc[m].d)
    PROVE  StoryOf(m)'
<1>1. alloc[m].pc \in Owning \/ alloc[m].pc = "start" => alloc[m].d # 0
    BY KnownDeploy, Constants DEF Owning, Knows
<1>2. QED
    BY <1>1 DEF StoryOf, Clock, Advances

LEMMA HostFrame ==
    ASSUME TypeInv, NEW d \in RequestIds, HostOf(d), Clock, Advances(d), FewerRows(d),
           server[d].match # None =>
              /\ alloc'[server[d].match] = alloc[server[d].match]
              /\ told'[server[d].match] = told[server[d].match]
    PROVE  HostOf(d)'
<1> DEFINE m == server[d].match
<1>1. CASE m = None
    <2>1. server'[d].match = None /\ server[d].state = "none" /\ server'[d].state = "none"
        BY <1>1 DEF HostOf, Advances
    <2>2. d \notin registered' /\ meta'[d] = "none" /\ d \notin marked' /\ tracked'[d] = NoPorts
        BY <1>1, <2>1 DEF HostOf, FewerRows, Came
    <2>3. QED
        BY <2>1, <2>2 DEF HostOf, Live
<1>2. CASE m # None
    <2>1. /\ server'[d].match = server[d].match /\ server[d].match # None
          /\ alloc'[server[d].match] = alloc[server[d].match]
          /\ told'[server[d].match] = told[server[d].match]
        BY <1>2 DEF Advances
    <2>2. Live(d)' => Live(d)
        BY DEF Live, Advances
    <2>3. QED
        BY <2>1, <2>2 DEF HostOf, Advances, FewerRows, Clock
<1>3. QED
    BY <1>1, <1>2

LEMMA WrittenFrame ==
    ASSUME TypeInv, NEW m \in Matches, Written(m), Clock,
           alloc'[m] = alloc[m], told'[m] = told[m],
           alloc[m].d \in registered' =>
               alloc[m].d \in registered /\ meta'[alloc[m].d] = meta[alloc[m].d]
    PROVE  Written(m)'
BY DEF Written, Clock

(* A step of the world keeps the invariant. *)
LEMMA StoryWorld ==
    ASSUME TypeInv, TypeInv', StoryInv, Clock, UNCHANGED <<alloc, told>>,
           \A e \in RequestIds : Advances(e) /\ FewerRows(e),
           \A m \in Matches : alloc[m].d \in registered' => meta'[alloc[m].d] = meta[alloc[m].d]
    PROVE  StoryInv'
<1>1. \A m \in Matches : StoryOf(m)'
    BY KnownDeploy, StoryFrame DEF StoryInv
<1>2. \A d \in RequestIds : HostOf(d)'
    BY HostFrame DEF StoryInv
<1>3. ASSUME NEW m \in Matches PROVE Written(m)'
    <2>1. alloc[m].d \in registered' => alloc[m].d \in RequestIds
        BY DEF TypeInv, RestOK
    <2>2. QED
        BY <2>1, KnownDeploy, WrittenFrame DEF StoryInv, FewerRows
<1>4. QED
    BY <1>1, <1>2, <1>3 DEF StoryInv

-----------------------------------------------------------------------------
(* A goroutine goes on from one place to another, its servers with it. *)

(* What the place it goes to, and what it tells there, must agree with. *)
Tells(m, pc) ==
    /\ told'[m] # "none" => pc \in Ended
    /\ told'[m] = "cancelled" \/ pc = "teardown" => m \in cancelled
    /\ pc \in OnLocal => alloc[m].kind = "local"
    /\ pc \in OnEdgegap => alloc[m].kind = "edgegap"
    /\ pc = "mark" => alloc[m].probe
    /\ pc # "start"
    /\ pc \in Owning => alloc[m].pc \in Owning
    /\ pc \in Going \/ told'[m] = "ready" =>
         alloc[m].d # 0 /\ server[alloc[m].d].state \in Came

Continues(m, pc) ==
    /\ alloc[m].pc \in Going => pc \in Going \/ told'[m] \in {"ready", "cancelled"}
    /\ alloc[m].pc \in Ended => pc \in Ended
    /\ told[m] \in {"ready", "cancelled"} => told'[m] = told[m]

LEMMA GotoStory ==
    ASSUME TypeInv, NEW m \in Matches, StoryOf(m), NEW pc, pc # "idle", Goto(m, pc),
           Clock, Tells(m, pc), alloc[m].d # 0 => Advances(alloc[m].d)
    PROVE  StoryOf(m)'
<1> DEFINE r == [alloc[m] EXCEPT !.pc = pc]
<1>1. alloc'[m] = r
    BY DEF Goto, TypeInv
<1>2. r.pc = pc /\ r.kind = alloc[m].kind /\ r.probe = alloc[m].probe /\ r.d = alloc[m].d
      /\ r.pair = alloc[m].pair
    BY KnownDeploy DEF Allocation
<1>3. alloc[m].pc \in Owning => alloc[m].d # 0
    BY KnownDeploy, Constants DEF Owning, Knows
<1> HIDE DEF r
<1>4. QED
    BY <1>1, <1>2, <1>3 DEF StoryOf, Tells, Clock, Advances

LEMMA GotoHost ==
    ASSUME TypeInv, NEW m \in Matches, NEW d \in RequestIds, HostOf(d),
           server[d].match = m, NEW pc, pc # "idle", Goto(m, pc), Clock, Tells(m, pc),
           Continues(m, pc),
           Advances(d),
           d \in registered' => d \in registered,
           meta'[d] # "none" => meta'[d] = meta[d] \/ (meta'[d] = alloc[m].kind /\ alloc[m].d = d),
           alloc[m].d = d => server[d].kind = alloc[m].kind,
           d \in marked' => d \in marked
               \/ (alloc[m].probe /\ alloc[m].d = d /\ pc \in Going),
           tracked'[d] # NoPorts => tracked[d] # NoPorts
               \/ (alloc[m].kind = "local" /\ alloc[m].d = d /\ pc \in Going),
           faults' = 0 /\ m \notin cancelled /\ Live(d) /\ Live(d)' =>
               pc \in Serving \/ told'[m] = "ready"
    PROVE  HostOf(d)'
<1> DEFINE r == [alloc[m] EXCEPT !.pc = pc]
<1>1. alloc'[m] = r
    BY DEF Goto, TypeInv
<1>2. r.pc = pc /\ r.probe = alloc[m].probe /\ r.d = alloc[m].d
    BY KnownDeploy DEF Allocation
<1> HIDE DEF r
<1>3. server'[d].match = m /\ m # None
    BY Constants DEF Advances
<1>4. /\ server'[d].state = "none" <=> server'[d].match = None
      /\ d \in registered' => server'[d].state \in Came
      /\ meta'[d] # "none" => meta'[d] = server'[d].kind
    BY <1>3 DEF HostOf, Advances
<1>5. d \in marked' => r.probe /\ r.d = d /\ r.pc \in Going \cup Ended
    BY <1>2, <1>3 DEF HostOf, Continues, Tells
<1>6. tracked'[d] # NoPorts =>
         /\ server'[d].kind = "local" /\ r.d = d
         /\ r.pc \in Going \/ told'[m] \in {"ready", "cancelled"}
    BY <1>2, <1>3 DEF HostOf, Continues, Advances
<1>7. faults' = 0 /\ Live(d)' /\ m \notin cancelled' =>
         r.d = d /\ (r.pc \in Serving \/ told'[m] = "ready")
    BY <1>2, <1>3 DEF HostOf, Clock, Advances, Live
<1>8. QED
    BY <1>1, <1>2, <1>3, <1>4, <1>5, <1>6, <1>7 DEF HostOf, Live

(* The other matches, and their request ids, notice nothing. *)
LEMMA OthersStory ==
    ASSUME TypeInv, StoryInv, Clock, NEW m \in Matches,
           \A n \in Matches \ {m} : alloc'[n] = alloc[n] /\ told'[n] = told[n],
           NEW n \in Matches \ {m},
           \A e \in RequestIds : server[e].match = n =>
              /\ Advances(e)
              /\ e \in registered' => e \in registered /\ meta'[e] = meta[e]
    PROVE  StoryOf(n)' /\ Written(n)'
<1>1. alloc[n].d # 0 => alloc[n].d \in RequestIds /\ server[alloc[n].d].match = n
    BY KnownDeploy DEF StoryInv, StoryOf
<1>2. StoryOf(n)'
    BY <1>1, StoryFrame DEF StoryInv
<1>3. ASSUME alloc[n].d # 0
      PROVE  Written(n)'
    BY <1>1, <1>3, WrittenFrame DEF StoryInv
<1>4. ASSUME alloc[n].d = 0
      PROVE  Written(n)'
    <2>1. StoryOf(n) /\ alloc'[n] = alloc[n] /\ told'[n] = told[n]
        BY DEF StoryInv
    <2>2. alloc[n].pc # "notify" /\ told[n] # "ready"
        BY <1>4, <2>1 DEF StoryOf, Going
    <2>3. QED
        BY <2>1, <2>2 DEF Written
<1>5. QED
    BY <1>2, <1>3, <1>4

LEMMA OthersHost ==
    ASSUME TypeInv, StoryInv, Clock, NEW m \in Matches,
           \A n \in Matches \ {m} : alloc'[n] = alloc[n] /\ told'[n] = told[n],
           NEW d \in RequestIds, server[d].match # m, Advances(d), FewerRows(d)
    PROVE  HostOf(d)'
<1>1. server[d].match # None => server[d].match \in Matches \ {m}
    BY DEF TypeInv, RestOK, Server
<1>2. QED
    BY <1>1, HostFrame DEF StoryInv

(* A step that changes no row, tells at most its end, and stops what it       *)
(* must.                                                                      *)
LEMMA QuietStory ==
    ASSUME TypeInv, StoryInv, NEW m \in Matches, NEW pc, pc \notin {"idle", "notify"},
           Goto(m, pc), Clock, Tells(m, pc), Continues(m, pc), SameRows,
           \A n \in Matches \ {m} : told'[n] = told[n],
           \A e \in RequestIds : Advances(e),
           told'[m] = "ready" => alloc[m].pc = "notify" \/ told[m] = "ready",
           faults' = 0 /\ m \notin cancelled =>
               \A d \in RequestIds : alloc[m].d = d /\ Live(d) /\ Live(d)' =>
                   pc \in Serving \/ told'[m] = "ready"
    PROVE  StoryInv'
<1>1. \A n \in Matches \ {m} : alloc'[n] = alloc[n]
    BY DEF Goto, TypeInv
<1>2. UNCHANGED <<registered, meta, marked, tracked>>
    BY DEF SameRows
<1>3. StoryOf(m)'
    BY KnownDeploy, GotoStory DEF StoryInv
<1>4. Written(m)'
    <2>1. alloc'[m].pc = pc /\ alloc'[m].d = alloc[m].d /\ alloc'[m].kind = alloc[m].kind
        BY KnownDeploy DEF Goto, TypeInv, Allocation
    <2>2. QED
        BY <1>2, <2>1 DEF Written, StoryInv, Clock
<1>5. \A n \in Matches \ {m} : StoryOf(n)' /\ Written(n)'
    BY <1>1, <1>2, OthersStory
<1>6. ASSUME NEW d \in RequestIds, server[d].match = m
      PROVE  HostOf(d)'
    <2>1. HostOf(d) /\ StoryOf(m)
        BY DEF StoryInv
    <2>2. alloc[m].d = d => server[d].kind = alloc[m].kind
        BY <2>1, Constants DEF StoryOf
    <2>3. faults' = 0 /\ m \notin cancelled /\ Live(d) /\ Live(d)' =>
              pc \in Serving \/ told'[m] = "ready"
        BY <1>6, <2>1 DEF HostOf, Clock
    <2>4. /\ Advances(d) /\ pc # "idle" /\ UNCHANGED tracked
          /\ registered' = registered /\ meta' = meta /\ marked' = marked
        BY <1>2
    <2>5. QED
        BY <1>6, <2>1, <2>2, <2>3, <2>4, GotoHost
<1>7. ASSUME NEW d \in RequestIds, server[d].match # m
      PROVE  HostOf(d)'
    BY <1>1, <1>7, SameRowsFewer, OthersHost
<1>8. QED
    BY <1>3, <1>4, <1>5, <1>6, <1>7 DEF StoryInv

-----------------------------------------------------------------------------
(* The steps of an allocation that only go on, tell or stop. *)

LEMMA FaultClock ==
    ASSUME TypeInv, NEW what, Fault(what)
    PROVE  faults' # 0
BY Constants DEF TypeInv, RestOK, Fault

LEMMA CallFailsClock ==
    ASSUME TypeInv, NEW m, CallFails(m)
    PROVE  /\ faults' = 0 => faults = 0
           /\ m \notin cancelled => faults' # 0
BY FaultClock DEF CallFails

LEMMA NoLiveBefore ==
    ASSUME StoryInv, NEW m \in Matches, alloc[m].pc \notin Serving, told[m] # "ready",
           faults = 0, m \notin cancelled, NEW d \in RequestIds, server[d].match = m
    PROVE  ~Live(d)
BY DEF StoryInv, HostOf

LEMMA GiveUpStory ==
    ASSUME TypeInv, StoryInv, NEW m \in Matches, GiveUp(m),
           alloc[m].pc \notin Going \cup Ended, Clock, SameRows,
           \A e \in RequestIds : Advances(e),
           faults' = 0 /\ m \notin cancelled =>
               \A d \in RequestIds : alloc[m].d = d /\ Live(d) => ~Live(d)'
    PROVE  StoryInv'
<1>1. StoryOf(m)
    BY DEF StoryInv
<1>2. told[m] = "none"
    BY <1>1 DEF StoryOf
<1> DEFINE o == IF m \in cancelled THEN "cancelled" ELSE "failed"
<1>3. Goto(m, "finish") /\ told' = [told EXCEPT ![m] = o]
    BY DEF GiveUp, Tell
<1>4. told'[m] = o /\ \A n \in Matches \ {m} : told'[n] = told[n]
    BY <1>3 DEF TypeInv, RestOK
<1>5. "finish" \in Ended /\ "finish" \notin OnLocal \cup OnEdgegap \cup Owning \cup Going
    BY DEF Ended, OnLocal, OnEdgegap, Owning, Going
<1>6. Tells(m, "finish")
    BY <1>4, <1>5 DEF Tells
<1>7. Continues(m, "finish")
    BY <1>2, <1>5 DEF Continues
<1>8. told'[m] # "ready"
    BY <1>4
<1>9. QED
    BY <1>3, <1>4, <1>6, <1>7, <1>8, QuietStory

(* A goroutine goes on and tells nothing. *)
LEMMA SilentStory ==
    ASSUME TypeInv, StoryInv, NEW m \in Matches, NEW pc,
           pc \notin {"idle", "notify", "start"} \cup Ended,
           Goto(m, pc), told' = told, alloc[m].pc \notin Ended,
           alloc[m].pc \in Going => pc \in Going, Clock, SameRows,
           \A e \in RequestIds : Advances(e),
           pc = "teardown" => m \in cancelled,
           pc \in OnLocal => alloc[m].kind = "local",
           pc \in OnEdgegap => alloc[m].kind = "edgegap",
           pc = "mark" => alloc[m].probe,
           pc \in Owning => alloc[m].pc \in Owning,
           pc \in Going => alloc[m].d # 0 /\ server[alloc[m].d].state \in Came,
           faults' = 0 /\ m \notin cancelled =>
               \A d \in RequestIds : alloc[m].d = d /\ Live(d) /\ Live(d)' => pc \in Serving
    PROVE  StoryInv'
<1>1. StoryOf(m)
    BY DEF StoryInv
<1>2. told[m] = "none"
    BY <1>1 DEF StoryOf
<1>3. Tells(m, pc)
    BY <1>2 DEF Tells
<1>4. Continues(m, pc)
    BY <1>2 DEF Continues
<1>5. QED
    BY <1>2, <1>3, <1>4, QuietStory

LEMMA ChecksStory ==
    ASSUME NEW m \in Matches, TypeInv, StoryInv, Checks(m)
    PROVE  StoryInv'
<1>1. /\ alloc[m].pc = "checks" /\ "checks" \notin Going \cup Ended \cup Serving
      /\ Clock /\ SameRows /\ \A e \in RequestIds : Advances(e)
    BY SameServerAdvances
    DEF Checks, At, Going, Ended, Serving, Clock, SameRows, matchRows, portVars
<1>2. StoryOf(m) /\ told[m] = "none" /\ alloc[m].kind \in Kinds
    BY <1>1, KnownDeploy DEF StoryInv, StoryOf, Allocation
<1>3. CASE Tell(m, "failed")
    <2>1. Goto(m, "finish") /\ told' = [told EXCEPT ![m] = "failed"]
        BY <1>3 DEF Tell
    <2>2. told'[m] = "failed" /\ \A n \in Matches \ {m} : told'[n] = told[n]
        BY <2>1 DEF TypeInv, RestOK
    <2>3. Tells(m, "finish") /\ Continues(m, "finish")
        BY <1>1, <1>2, <2>2 DEF Tells, Continues, Ended, OnLocal, OnEdgegap, Owning, Going
    <2>4. faults' = 0 /\ m \notin cancelled =>
              \A d \in RequestIds : alloc[m].d = d /\ Live(d) /\ Live(d)' => FALSE
        <3>1. \A d \in RequestIds : alloc[m].d = d => server[d].match = m
            BY <1>2, Constants DEF StoryOf
        <3>2. faults' = faults
            BY DEF Checks
        <3>3. QED
            BY <1>1, <1>2, <3>1, <3>2, NoLiveBefore
    <2>5. QED
        BY <1>1, <2>1, <2>2, <2>3, <2>4, QuietStory
<1>4. ASSUME Goto(m, IF alloc[m].kind = "local" THEN "port" ELSE "deploy"), told' = told
      PROVE  StoryInv'
    <2> DEFINE pc == IF alloc[m].kind = "local" THEN "port" ELSE "deploy"
    <2>1. /\ pc \notin {"idle", "notify", "mark", "teardown", "start"} \cup Ended \cup Owning \cup Going
          /\ pc \in OnLocal => alloc[m].kind = "local"
          /\ pc \in OnEdgegap => alloc[m].kind = "edgegap"
        BY <1>2 DEF Ended, Owning, Going, OnLocal, OnEdgegap, Kinds
    <2>2. faults' = 0 /\ m \notin cancelled =>
              \A d \in RequestIds : alloc[m].d = d => ~Live(d)
        <3>1. \A d \in RequestIds : alloc[m].d = d => server[d].match = m
            BY <1>2, Constants DEF StoryOf
        <3>2. faults' = faults
            BY DEF Checks
        <3>3. QED
            BY <1>1, <1>2, <3>1, <3>2, NoLiveBefore
    <2> HIDE DEF pc
    <2>3. Goto(m, pc)
        BY <1>4 DEF pc
    <2>4. QED
        BY <1>1, <1>4, <2>1, <2>2, <2>3, SilentStory
<1>5. QED
    BY <1>3, <1>4 DEF Checks

(* While a goroutine has no server of its own, its earlier ones are stopped. *)
LEMMA EarlyHost ==
    ASSUME TypeInv, StoryInv, NEW m \in Matches, NEW d \in RequestIds, server[d].match = m,
           alloc[m].pc \notin Serving \cup Ended, Clock, Advances(d), FewerRows(d),
           alloc'[m].pc # "idle"
    PROVE  HostOf(d)'
<1>1. HostOf(d) /\ StoryOf(m)
    BY DEF StoryInv
<1>2. told[m] = "none" /\ alloc[m].pc \notin Going
    BY <1>1 DEF StoryOf, Serving
<1>3. d \notin marked /\ tracked[d] = NoPorts
    BY <1>1, <1>2 DEF HostOf
<1>4. d \notin marked' /\ tracked'[d] = NoPorts /\ server'[d].match = m /\ m # None
    BY <1>3, Constants DEF FewerRows, Advances
<1>5. ~(faults' = 0 /\ Live(d)' /\ m \notin cancelled')
    BY <1>1, <1>2 DEF HostOf, Clock, Advances, Live
<1>6. /\ server'[d].state = "none" <=> m = None
      /\ d \in registered' => server'[d].state \in Came
      /\ meta'[d] # "none" => meta'[d] = server'[d].kind
    BY <1>1, <1>4 DEF HostOf, Advances, FewerRows
<1>7. QED
    BY <1>4, <1>5, <1>6 DEF HostOf

LEMMA AllocatePortsStory ==
    ASSUME NEW m \in Matches, TypeInv, StoryInv, AllocatePorts(m)
    PROVE  StoryInv'
<1>1. /\ alloc[m].pc = "port" /\ "port" \notin Going \cup Ended \cup Serving \cup Owning
      /\ Clock /\ SameRows /\ \A e \in RequestIds : Advances(e)
      /\ UNCHANGED <<registered, meta, marked, tracked>> /\ faults' = faults
    BY SameServerAdvances
    DEF AllocatePorts, At, Going, Ended, Serving, Owning, Clock, SameRows, matchRows
<1>2. StoryOf(m) /\ told[m] = "none"
    BY <1>1 DEF StoryInv, StoryOf
<1>3. CASE GiveUp(m)
    <2>1. faults' = 0 /\ m \notin cancelled =>
              \A d \in RequestIds : alloc[m].d = d => ~Live(d)
        <3>1. \A d \in RequestIds : alloc[m].d = d => server[d].match = m
            BY <1>2, Constants DEF StoryOf
        <3>2. QED
            BY <1>1, <1>2, <3>1, NoLiveBefore
    <2>2. QED
        BY <1>1, <1>3, <2>1, GiveUpStory
<1>4. ASSUME alloc' = [alloc EXCEPT ![m].pc = "create", ![m].pair = FreePair], told' = told
      PROVE  StoryInv'
    <2>1. /\ alloc'[m].pc = "create" /\ alloc'[m].kind = alloc[m].kind
          /\ alloc'[m].d = alloc[m].d
          /\ \A n \in Matches \ {m} : alloc'[n] = alloc[n]
        BY <1>4, KnownDeploy DEF TypeInv, Allocation
    <2>2. StoryOf(m)' /\ Written(m)'
        BY <1>1, <1>2, <1>4, <2>1, Constants
        DEF StoryOf, Written, OnLocal, OnEdgegap, Going, Owning, AllocatePorts
    <2>3. \A n \in Matches \ {m} : StoryOf(n)' /\ Written(n)'
        BY <1>1, <1>4, <2>1, OthersStory
    <2>4. \A d \in RequestIds : server[d].match = m => HostOf(d)'
        BY <1>1, <2>1, SameRowsFewer, EarlyHost
    <2>5. \A d \in RequestIds : server[d].match # m => HostOf(d)'
        BY <1>1, <1>4, <2>1, SameRowsFewer, OthersHost
    <2>6. QED
        BY <2>2, <2>3, <2>4, <2>5 DEF StoryInv
<1>5. QED
    BY <1>3, <1>4 DEF AllocatePorts

LEMMA PollDeployStory ==
    ASSUME NEW m \in Matches, TypeInv, StoryInv, PollDeploy(m)
    PROVE  StoryInv'
<1>1. /\ alloc[m].pc = "poll" /\ "poll" \notin Going \cup Ended
      /\ "poll" \in OnEdgegap \cap Knows
      /\ Clock /\ SameRows /\ told' = told /\ \A e \in RequestIds : Advances(e)
    BY SameServerAdvances
    DEF PollDeploy, At, Going, Ended, OnEdgegap, Knows, Clock, SameRows, matchRows, portVars
<1>2. alloc[m].d \in RequestIds /\ alloc[m].kind = "edgegap"
    BY <1>1, KnownDeploy DEF StoryInv, StoryOf
<1>3. CASE alloc[m].d \in registered /\ Goto(m, "checkpoint")
    <2>1. /\ "checkpoint" \notin {"idle", "notify", "mark", "teardown", "start"} \cup Ended
          /\ "checkpoint" \notin OnLocal \cup OnEdgegap \cup Owning
          /\ "checkpoint" \in Serving
        BY DEF Ended, OnLocal, OnEdgegap, Owning, Serving, Going
    <2>2. alloc[m].d # 0 /\ server[alloc[m].d].state \in Came
        BY <1>2, <1>3, Constants DEF StoryInv, HostOf
    <2>3. QED
        BY <1>1, <1>3, <2>1, <2>2, SilentStory
<1>4. CASE Goto(m, "stop")
    <2>1. /\ "stop" \notin {"idle", "notify", "mark", "teardown", "start"} \cup Ended
          /\ "stop" \notin OnLocal \cup Owning \cup Going
          /\ "stop" \in Serving
        BY DEF Ended, OnLocal, Owning, Serving, Going
    <2>2. QED
        BY <1>1, <1>2, <1>4, <2>1, SilentStory
<1>5. QED
    BY <1>3, <1>4 DEF PollDeploy

LEMMA BackoffStory ==
    ASSUME NEW m \in Matches, TypeInv, StoryInv, Backoff(m)
    PROVE  StoryInv'
<1>1. /\ alloc[m].pc = "backoff" /\ "backoff" \notin Going \cup Ended \cup Serving
      /\ "backoff" \in OnEdgegap /\ faults' = faults
      /\ Clock /\ SameRows /\ \A e \in RequestIds : Advances(e)
    BY SameServerAdvances
    DEF Backoff, At, Going, Ended, OnEdgegap, Serving, Clock, SameRows, matchRows, portVars
<1>2. StoryOf(m) /\ told[m] = "none" /\ alloc[m].kind = "edgegap"
    BY <1>1 DEF StoryInv, StoryOf
<1>3. faults' = 0 /\ m \notin cancelled => \A d \in RequestIds : alloc[m].d = d => ~Live(d)
    <2>1. \A d \in RequestIds : alloc[m].d = d => server[d].match = m
        BY <1>2, Constants DEF StoryOf
    <2>2. QED
        BY <1>1, <1>2, <2>1, NoLiveBefore
<1>4. CASE GiveUp(m)
    BY <1>1, <1>3, <1>4, GiveUpStory
<1>5. CASE Goto(m, "deploy") /\ UNCHANGED told
    <2>1. "deploy" \notin {"idle", "notify", "mark", "teardown", "start"} \cup Ended \cup OnLocal
                            \cup Owning \cup Going
        BY DEF Ended, OnLocal, Owning, Going
    <2>2. QED
        BY <1>1, <1>2, <1>3, <1>5, <2>1, SilentStory
<1>6. QED
    BY <1>4, <1>5 DEF Backoff

(* A stop of the goroutine's own server, made with allocCtx. *)
LEMMA StopsOwn ==
    ASSUME TypeInv, NEW m \in Matches, NEW d \in RequestIds,
           \/ m \notin cancelled /\ server' = Stopped(d) /\ UNCHANGED faults
           \/ CallFails(m) /\ server' \in {server, Stopped(d)}
    PROVE  /\ \A e \in RequestIds : Advances(e)
           /\ faults' = 0 => faults = 0
           /\ faults' = 0 /\ m \notin cancelled => ~Live(d)'
<1>1. \A e \in RequestIds : Advances(e)
    BY StoppedAdvances DEF TypeInv
<1>2. (faults' = 0 => faults = 0) /\ (faults' = 0 /\ m \notin cancelled => server' = Stopped(d))
    BY CallFailsClock
<1>3. QED
    BY <1>1, <1>2, StoppedDead DEF TypeInv, Live

LEMMA UndoStartStory ==
    ASSUME NEW m \in Matches, TypeInv, StoryInv, UndoStart(m)
    PROVE  StoryInv'
<1>1. /\ alloc[m].pc = "undo" /\ "undo" \notin Going \cup Ended
      /\ "undo" \in Knows /\ SameRows /\ GiveUp(m) /\ cancelled' = cancelled
    BY DEF UndoStart, At, Going, Ended, Knows, SameRows, matchRows
<1>2. PICK d \in RequestIds : d = alloc[m].d
    BY <1>1, KnownDeploy
<1>3. /\ \A e \in RequestIds : Advances(e)
      /\ faults' = 0 => faults = 0
      /\ faults' = 0 /\ m \notin cancelled => ~Live(d)'
    <2>1. \/ m \notin cancelled /\ server' = Stopped(d) /\ UNCHANGED faults
          \/ CallFails(m) /\ server' \in {server, Stopped(d)}
        BY <1>2 DEF UndoStart
    <2>2. QED
        BY <2>1, StopsOwn
<1>4. Clock
    BY <1>1, <1>3 DEF Clock
<1>5. ASSUME faults' = 0, m \notin cancelled, NEW e \in RequestIds, alloc[m].d = e
      PROVE  ~Live(e)'
    BY <1>2, <1>3, <1>5
<1>6. QED
    BY <1>1, <1>3, <1>4, <1>5, GiveUpStory

LEMMA AfterAttemptStory ==
    ASSUME TypeInv, StoryInv, NEW m \in Matches, alloc[m].pc = "stop", AfterAttempt(m),
           Clock, SameRows, \A e \in RequestIds : Advances(e),
           faults' = 0 /\ m \notin cancelled =>
               \A d \in RequestIds : alloc[m].d = d => ~Live(d)'
    PROVE  StoryInv'
<1>1. "stop" \notin Going \cup Ended /\ "stop" \in OnEdgegap
    BY DEF Going, Ended, OnEdgegap
<1>2. CASE GiveUp(m)
    BY <1>1, <1>2, GiveUpStory
<1>3. CASE Goto(m, "backoff") /\ UNCHANGED told
    <2>1. "backoff" \notin {"idle", "notify", "mark", "teardown", "start"} \cup Ended \cup OnLocal
                             \cup Owning \cup Going
        BY DEF Ended, OnLocal, Owning, Going
    <2>2. alloc[m].kind = "edgegap"
        BY <1>1 DEF StoryInv, StoryOf
    <2>3. QED
        BY <1>1, <1>3, <2>1, <2>2, SilentStory
<1>4. QED
    BY <1>2, <1>3 DEF AfterAttempt

LEMMA StopAttemptStory ==
    ASSUME NEW m \in Matches, TypeInv, StoryInv, StopAttempt(m)
    PROVE  StoryInv'
<1>1. /\ alloc[m].pc = "stop" /\ SameRows /\ cancelled' = cancelled /\ AfterAttempt(m)
    BY DEF StopAttempt, At, SameRows, matchRows, portVars
<1>2. CASE alloc[m].d = 0
    <2>1. server' = server /\ faults' = faults
        BY <1>2 DEF StopAttempt
    <2>2. Clock /\ \A e \in RequestIds : Advances(e)
        BY <1>1, <2>1, SameServerAdvances DEF Clock
    <2>3. QED
        BY <1>1, <1>2, <2>2, Constants, AfterAttemptStory
<1>3. CASE alloc[m].d # 0
    <2>1. PICK d \in RequestIds : d = alloc[m].d
        BY <1>3, KnownDeploy
    <2>2. /\ \A e \in RequestIds : Advances(e)
          /\ faults' = 0 => faults = 0
          /\ faults' = 0 /\ m \notin cancelled => ~Live(d)'
        <3>1. \/ m \notin cancelled /\ server' = Stopped(d) /\ UNCHANGED faults
              \/ CallFails(m) /\ server' \in {server, Stopped(d)}
            BY <1>3, <2>1 DEF StopAttempt
        <3>2. QED
            BY <3>1, StopsOwn
    <2>3. Clock
        BY <1>1, <2>2 DEF Clock
    <2>4. ASSUME faults' = 0, m \notin cancelled, NEW e \in RequestIds, alloc[m].d = e
          PROVE  ~Live(e)'
        BY <2>1, <2>2, <2>4
    <2>5. QED
        BY <1>1, <2>2, <2>3, <2>4, AfterAttemptStory
<1>4. QED
    BY <1>2, <1>3

LEMMA CheckpointStory ==
    ASSUME NEW m \in Matches, TypeInv, StoryInv, Checkpoint(m)
    PROVE  StoryInv'
<1>1. /\ alloc[m].pc = "checkpoint" /\ "checkpoint" \in Going /\ "checkpoint" \notin Ended
      /\ Clock /\ SameRows /\ told' = told
      /\ \A e \in RequestIds : Advances(e)
    BY SameServerAdvances
    DEF Checkpoint, At, Going, Ended, Clock, SameRows, matchRows, portVars
<1>2. alloc[m].d # 0 /\ server[alloc[m].d].state \in Came
    BY <1>1 DEF StoryInv, StoryOf
<1>3. ASSUME NEW pc \in {"teardown", "mark", "meta"}, Goto(m, pc),
             pc = "teardown" => m \in cancelled, pc = "mark" => alloc[m].probe
      PROVE  StoryInv'
    <2>1. /\ pc \notin {"idle", "notify", "start"} \cup Ended \cup OnLocal \cup OnEdgegap \cup Owning
          /\ pc \in Going \cap Serving
        BY <1>3 DEF Ended, OnLocal, OnEdgegap, Owning, Serving, Going
    <2>2. QED
        BY <1>1, <1>2, <1>3, <2>1, SilentStory
<1>4. CASE m \in cancelled
    BY <1>3, <1>4 DEF Checkpoint
<1>5. CASE m \notin cancelled
    BY <1>3, <1>5 DEF Checkpoint
<1>6. QED
    BY <1>4, <1>5

LEMMA TeardownStory ==
    ASSUME NEW m \in Matches, TypeInv, StoryInv, Teardown(m)
    PROVE  StoryInv'
<1>1. /\ alloc[m].pc = "teardown" /\ "teardown" \in Going \cap Knows /\ "teardown" \notin Ended
      /\ SameRows /\ cancelled' = cancelled
    BY DEF Teardown, At, Going, Ended, Knows, SameRows, matchRows, portVars
<1>2. StoryOf(m) /\ m \in cancelled /\ told[m] = "none" /\ alloc[m].d \in RequestIds
    BY <1>1, KnownDeploy DEF StoryInv, StoryOf
<1>3. \A e \in RequestIds : Advances(e)
    <2>1. server' \in {server, Stopped(alloc[m].d)}
        BY DEF Teardown
    <2>2. QED
        BY <1>2, <2>1, StoppedAdvances DEF TypeInv
<1>4. Clock
    BY <1>1, FaultClock DEF Teardown, Clock
<1>5. /\ Goto(m, "finish") /\ told'[m] = "cancelled"
      /\ \A n \in Matches \ {m} : told'[n] = told[n]
    BY DEF Teardown, Tell, TypeInv, RestOK
<1>6. Tells(m, "finish") /\ Continues(m, "finish")
    BY <1>2, <1>5 DEF Tells, Continues, Ended, OnLocal, OnEdgegap, Owning, Going
<1>7. QED
    BY <1>1, <1>2, <1>3, <1>4, <1>5, <1>6, QuietStory

(* A goroutine writes down what it knows of its deploy, and goes on. *)
LEMMA RecordStory ==
    ASSUME TypeInv, StoryInv, NEW m \in Matches, NEW pc \in {"checkpoint", "meta", "notify"},
           Goto(m, pc), Clock, UNCHANGED <<server, told, registered>>,
           alloc[m].pc \in Going \cup {"wait"},
           alloc[m].d \in RequestIds, server[alloc[m].d].state \in Came,
           \A e \in RequestIds \ {alloc[m].d} :
               /\ e \in marked' => e \in marked
               /\ meta'[e] = meta[e] /\ tracked'[e] = tracked[e],
           alloc[m].d \in marked' => alloc[m].d \in marked \/ alloc[m].probe,
           meta'[alloc[m].d] \in {meta[alloc[m].d], alloc[m].kind},
           tracked'[alloc[m].d] = tracked[alloc[m].d] \/ alloc[m].kind = "local",
           pc = "notify" /\ faults' = 0 => meta'[alloc[m].d] = alloc[m].kind
    PROVE  StoryInv'
<1>1. /\ pc \in Going \cap Serving /\ pc \notin Ended \cup OnLocal \cup OnEdgegap \cup Owning
      /\ alloc[m].pc \notin Ended
    BY DEF Going, Serving, Ended, OnLocal, OnEdgegap, Owning
<1>2. \A n \in Matches \ {m} : alloc'[n] = alloc[n] /\ told'[n] = told[n]
    BY DEF Goto, TypeInv
<1>3. StoryOf(m) /\ told[m] = "none" /\ told' = told /\ alloc[m].d # 0
    BY <1>1, Constants DEF StoryInv, StoryOf
<1>4. Tells(m, pc) /\ Continues(m, pc)
    BY <1>1, <1>3 DEF Tells, Continues, Owning
<1>5. \A e \in RequestIds : Advances(e)
    BY SameServerAdvances
<1>6. StoryOf(m)'
    BY <1>3, <1>4, <1>5, GotoStory
<1>7. Written(m)'
    <2>1. alloc'[m].pc = pc /\ alloc'[m].d = alloc[m].d /\ alloc'[m].kind = alloc[m].kind
        BY KnownDeploy DEF Goto, TypeInv, Allocation
    <2>2. QED
        BY <1>3, <2>1 DEF Written
<1>8. \A e \in RequestIds : server[e].match # m => e # alloc[m].d
    BY <1>3 DEF StoryOf
<1>9. \A n \in Matches \ {m} : StoryOf(n)' /\ Written(n)'
    BY <1>2, <1>5, <1>8, OthersStory
<1>10. ASSUME NEW d \in RequestIds, server[d].match = m
       PROVE  HostOf(d)'
    <2>1. HostOf(d) /\ (alloc[m].d = d => server[d].kind = alloc[m].kind)
        BY <1>3 DEF StoryInv, StoryOf
    <2>2. /\ d \in registered' => d \in registered
          /\ meta'[d] # "none" =>
               meta'[d] = meta[d] \/ (meta'[d] = alloc[m].kind /\ alloc[m].d = d)
          /\ d \in marked' => d \in marked \/ (alloc[m].probe /\ alloc[m].d = d /\ pc \in Going)
          /\ tracked'[d] # NoPorts => tracked[d] # NoPorts
               \/ (alloc[m].kind = "local" /\ alloc[m].d = d /\ pc \in Going)
        BY <1>1
    <2>3. QED
        BY <1>1, <1>4, <1>5, <1>10, <2>1, <2>2, GotoHost
<1>11. ASSUME NEW d \in RequestIds, server[d].match # m
       PROVE  HostOf(d)'
    <2>1. FewerRows(d)
        BY <1>8, <1>11 DEF FewerRows
    <2>2. QED
        BY <1>2, <1>5, <1>11, <2>1, OthersHost
<1>12. QED
    BY <1>6, <1>7, <1>9, <1>10, <1>11 DEF StoryInv

LEMMA WaitForServerStory ==
    ASSUME NEW m \in Matches, TypeInv, StoryInv, WaitForServer(m)
    PROVE  StoryInv'
<1>1. /\ alloc[m].pc = "wait" /\ "wait" \notin Going \cup Ended
      /\ "wait" \in OnLocal \cap Owning \cap Knows
      /\ Clock /\ told' = told /\ server' = server
      /\ UNCHANGED <<registered, meta, marked>>
      /\ \A e \in RequestIds : Advances(e)
    BY SameServerAdvances
    DEF WaitForServer, At, Going, Ended, OnLocal, Owning, Knows, Clock, matchRows
<1>2. alloc[m].d \in RequestIds /\ alloc[m].kind = "local"
    BY <1>1, KnownDeploy DEF StoryInv, StoryOf
<1>3. CASE Goto(m, "undo") /\ UNCHANGED tracked
    <2>1. SameRows
        BY <1>1, <1>3 DEF SameRows
    <2>2. /\ "undo" \notin {"idle", "notify", "mark", "teardown", "start"} \cup Ended \cup Going \cup OnEdgegap
          /\ "undo" \in Serving
        BY DEF Ended, Going, OnEdgegap, Serving
    <2>3. QED
        BY <1>1, <1>2, <1>3, <2>1, <2>2, SilentStory
<1>4. CASE /\ alloc[m].d \in registered /\ Goto(m, "checkpoint")
           /\ tracked' = [tracked EXCEPT ![alloc[m].d] = alloc[m].pair]
    <2>1. server[alloc[m].d].state \in Came
        BY <1>2, <1>4 DEF StoryInv, HostOf
    <2>2. PICK pc \in {"checkpoint", "meta", "notify"} : pc = "checkpoint"
        OBVIOUS
    <2>3. Goto(m, pc) /\ pc # "notify"
        BY <1>4, <2>2
    <2>4. \A e \in RequestIds \ {alloc[m].d} : tracked'[e] = tracked[e]
        BY <1>4 DEF TypeInv, RestOK
    <2>5. QED
        BY <1>1, <1>2, <2>1, <2>3, <2>4, RecordStory
<1>5. QED
    BY <1>3, <1>4 DEF WaitForServer

LEMMA MarkSyntheticStory ==
    ASSUME NEW m \in Matches, TypeInv, StoryInv, MarkSynthetic(m)
    PROVE  StoryInv'
<1>1. /\ alloc[m].pc = "mark" /\ "mark" \in Going \cap Knows
      /\ UNCHANGED <<server, told, registered, meta, tracked>> /\ cancelled' = cancelled
    BY DEF MarkSynthetic, At, Going, Knows, portVars
<1>2. /\ alloc[m].d \in RequestIds /\ alloc[m].probe
      /\ server[alloc[m].d].state \in Came
    BY <1>1, KnownDeploy DEF StoryInv, StoryOf
<1>3. Clock
    BY <1>1, FaultClock DEF MarkSynthetic, Clock
<1>4. marked' \in {marked, marked \cup {alloc[m].d}}
    BY DEF MarkSynthetic
<1>5. PICK pc \in {"checkpoint", "meta", "notify"} : pc = "meta"
    OBVIOUS
<1>6. Goto(m, pc) /\ pc # "notify"
    BY <1>5 DEF MarkSynthetic
<1>7. QED
    BY <1>1, <1>2, <1>3, <1>4, <1>6, RecordStory

LEMMA WriteMetadataStory ==
    ASSUME NEW m \in Matches, TypeInv, StoryInv, WriteMetadata(m)
    PROVE  StoryInv'
<1>1. /\ alloc[m].pc = "meta" /\ "meta" \in Going \cap Knows
      /\ UNCHANGED <<server, told, registered, marked, tracked>> /\ cancelled' = cancelled
    BY DEF WriteMetadata, At, Going, Knows, portVars
<1>2. alloc[m].d \in RequestIds /\ server[alloc[m].d].state \in Came
    BY <1>1, KnownDeploy DEF StoryInv, StoryOf
<1>3. Clock
    BY <1>1, FaultClock DEF WriteMetadata, Clock
<1>4. /\ \A e \in RequestIds \ {alloc[m].d} : meta'[e] = meta[e]
      /\ meta'[alloc[m].d] \in {meta[alloc[m].d], alloc[m].kind}
      /\ faults' = 0 => meta'[alloc[m].d] = alloc[m].kind
    BY <1>2, FaultClock DEF WriteMetadata, TypeInv, RestOK
<1>5. PICK pc \in {"checkpoint", "meta", "notify"} : pc = "notify"
    OBVIOUS
<1>6. Goto(m, pc)
    BY <1>5 DEF WriteMetadata
<1>7. QED
    BY <1>1, <1>2, <1>3, <1>4, <1>6, RecordStory

LEMMA NotifyReadyStory ==
    ASSUME NEW m \in Matches, TypeInv, StoryInv, NotifyReady(m)
    PROVE  StoryInv'
<1>1. /\ alloc[m].pc = "notify" /\ "notify" \in Going /\ "notify" \notin Ended
      /\ SameRows /\ Clock
      /\ \A e \in RequestIds : Advances(e)
    BY SameServerAdvances
    DEF NotifyReady, At, Going, Ended, SameRows, Clock, matchRows, portVars
<1>2. StoryOf(m) /\ told[m] = "none" /\ alloc[m].d # 0 /\ server[alloc[m].d].state \in Came
    BY <1>1 DEF StoryInv, StoryOf
<1>3. /\ Goto(m, "finish") /\ told'[m] = "ready"
      /\ \A n \in Matches \ {m} : told'[n] = told[n]
    BY DEF NotifyReady, Tell, TypeInv, RestOK
<1>4. Tells(m, "finish") /\ Continues(m, "finish")
    BY <1>2, <1>3 DEF Tells, Continues, Ended, OnLocal, OnEdgegap, Owning, Going
<1>5. QED
    BY <1>1, <1>2, <1>3, <1>4, QuietStory

LEMMA FinishStory ==
    ASSUME NEW m \in Matches, TypeInv, StoryInv, Finish(m)
    PROVE  StoryInv'
<1>1. /\ alloc[m].pc = "finish" /\ "finish" \in Ended /\ "finish" \notin Going \cup Serving
      /\ SameRows /\ Clock /\ told' = told /\ Goto(m, "done") /\ faults' = faults
      /\ \A e \in RequestIds : Advances(e)
    BY SameServerAdvances
    DEF Finish, At, Going, Ended, Serving, SameRows, Clock, matchRows, portVars
<1>2. StoryOf(m)
    BY DEF StoryInv
<1>3. Tells(m, "done") /\ Continues(m, "done")
    BY <1>1, <1>2 DEF StoryOf, Tells, Continues, Ended, OnLocal, OnEdgegap, Owning, Going
<1>4. ASSUME NEW d \in RequestIds, alloc[m].d = d, faults = 0, m \notin cancelled, Live(d)
      PROVE  told[m] = "ready"
    <2>1. server[d].match = m
        BY <1>2, <1>4, Constants DEF StoryOf
    <2>2. QED
        BY <1>1, <1>4, <2>1 DEF StoryInv, HostOf
<1>5. QED
    BY <1>1, <1>3, <1>4, QuietStory

-----------------------------------------------------------------------------
(* The steps that begin a match, create a server or start it. *)

LEMMA StartContainerStory ==
    ASSUME NEW m \in Matches, TypeInv, StoryInv, StartContainer(m)
    PROVE  StoryInv'
<1>1. /\ alloc[m].pc = "start" /\ "start" \notin Going \cup Ended \cup Serving
      /\ "start" \in OnLocal \cap Owning \cap Knows
      /\ SameRows /\ UNCHANGED <<registered, meta, marked, tracked, told, cancelled>>
    BY DEF StartContainer, At, Going, Ended, Serving, Owning, OnLocal, Knows, SameRows,
       matchRows, portVars
<1>2. Clock
    BY CallFailsClock DEF StartContainer, Clock
<1>3. PICK d \in RequestIds : d = alloc[m].d
    BY <1>1, KnownDeploy
<1>4. StoryOf(m) /\ server[d].match = m /\ server[d].state = "created"
      /\ server[d].kind = "local" /\ alloc[m].kind = "local" /\ told[m] = "none"
    BY <1>1, <1>3, Constants DEF StoryInv, StoryOf
<1>5. \A n \in Matches \ {m} : alloc'[n] = alloc[n] /\ told'[n] = told[n]
    BY <1>1 DEF StartContainer, Goto, TypeInv
<1>6. CASE server' = server /\ Goto(m, "undo")
    <2>1. /\ "undo" \notin {"idle", "notify", "mark", "teardown", "start"} \cup Ended
                             \cup Going \cup OnEdgegap
          /\ "undo" \in Serving
        BY DEF Ended, Going, OnEdgegap, Serving
    <2>2. \A e \in RequestIds : Advances(e)
        BY <1>6, SameServerAdvances
    <2>3. QED
        BY <1>1, <1>2, <1>4, <1>6, <2>1, <2>2, SilentStory
<1>7. ASSUME server' = InState(d, "booting"), NEW pc \in {"wait", "undo"}, Goto(m, pc)
      PROVE  StoryInv'
    <2>1. /\ pc \in Serving \cap OnLocal \cap Owning
          /\ pc \notin Ended \cup Going \cup OnEdgegap \cup {"idle", "start", "mark", "teardown"}
        BY <1>7 DEF Serving, OnLocal, Owning, Ended, Going, OnEdgegap
    <2>2. /\ server'[d].match = m /\ server'[d].kind = "local" /\ server'[d].state = "booting"
          /\ server'[d].pair = server[d].pair
        <3>1. server[d] \in Server
            BY DEF TypeInv, RestOK
        <3>2. QED
            BY <1>4, <1>7, <3>1 DEF InState, TypeInv, RestOK, Server
    <2>3. \A e \in RequestIds \ {d} : server'[e] = server[e] /\ Advances(e)
        BY <1>7 DEF InState, TypeInv, RestOK, Advances
    <2>4. /\ alloc'[m].pc = pc /\ alloc'[m].d = d /\ alloc'[m].kind = "local"
          /\ alloc'[m].pair = alloc[m].pair
        BY <1>3, <1>4, <1>7, KnownDeploy DEF Goto, TypeInv, Allocation
    <2>5. StoryOf(m)'
        BY <1>1, <1>3, <1>4, <2>1, <2>2, <2>4 DEF StoryOf
    <2>6. Written(m)'
        BY <1>1, <1>4, <2>1, <2>4 DEF Written, Serving, Going
    <2>7. \A n \in Matches \ {m} : StoryOf(n)' /\ Written(n)'
        BY <1>1, <1>2, <1>4, <1>5, <2>3, OthersStory
    <2>8. \A e \in RequestIds \ {d} : server[e].match = m => HostOf(e)'
        BY <1>1, <1>2, <2>1, <2>3, <2>4, SameRowsFewer, EarlyHost
    <2>9. \A e \in RequestIds \ {d} : server[e].match # m => HostOf(e)'
        BY <1>1, <1>2, <1>5, <2>3, SameRowsFewer, OthersHost
    <2>10. HostOf(d)'
        <3>1. HostOf(d)
            BY DEF StoryInv
        <3>2. d \notin registered /\ d \notin marked /\ tracked[d] = NoPorts
            BY <1>1, <1>4, <3>1 DEF HostOf, Came
        <3>3. QED
            BY <1>1, <1>4, <2>1, <2>2, <2>4, <3>1, <3>2, Constants DEF HostOf
    <2>11. QED
        BY <2>5, <2>6, <2>7, <2>8, <2>9, <2>10 DEF StoryInv
<1>8. QED
    BY <1>3, <1>6, <1>7 DEF StartContainer

(* A new server belongs to the match whose goroutine asked for it. *)
LEMMA NewServerStory ==
    ASSUME TypeInv, StoryInv, NEW m \in Matches, NEW r \in Allocation,
           alloc[m].pc \notin Serving \cup Ended,
           alloc'[m] = r, \A n \in Matches \ {m} : alloc'[n] = alloc[n],
           told' = told, SameRows, Clock,
           r.pc \in {"start", "poll", "stop"},
           r.kind = IF r.pc = "start" THEN "local" ELSE "edgegap",
           NEW id \in RequestIds, server[id].state = "none",
           \A e \in RequestIds \ {id} : server'[e] = server[e],
           NEW s, s.match = m, s.kind = r.kind, s.state \in {"created", "booting"},
           server'[id] \in {server[id], s}, r.d \in {0, id},
           r.d = id => server'[id] = s,
           r.pc = "start" => r.d = id /\ s.state = "created" /\ s.pair = r.pair,
           faults' = 0 /\ m \notin cancelled => r.d = id /\ r.pc \in {"start", "poll"}
    PROVE  StoryInv'
<1>1. /\ r.pc \notin {"idle", "teardown", "mark", "notify"} \cup Ended \cup Going
      /\ r.pc \in Owning => r.pc = "start"
      /\ r.pc \in OnLocal => r.kind = "local"
      /\ r.pc \in OnEdgegap => r.kind = "edgegap"
      /\ {"poll", "stop"} \subseteq Serving /\ id # 0
    BY Constants DEF Ended, Going, Owning, Serving, OnLocal, OnEdgegap
<1>2. /\ told[m] = "none" /\ told' = told /\ alloc'[m] = r
      /\ UNCHANGED <<registered, meta, marked, tracked>>
      /\ \A n \in Matches \ {m} : alloc'[n] = alloc[n] /\ told'[n] = told[n]
    BY DEF StoryInv, StoryOf, SameRows
<1>4. HostOf(id)
    BY DEF StoryInv
<1>5. /\ server[id].match = None /\ id \notin registered /\ id \notin marked
      /\ meta[id] = "none" /\ tracked[id] = NoPorts
    BY <1>4 DEF HostOf, Came
<1>6. \A e \in RequestIds \ {id} : Advances(e)
    BY DEF Advances
<1>8. StoryOf(m)'
    BY <1>1, <1>2 DEF StoryOf
<1>9. Written(m)'
    BY <1>1, <1>2 DEF Written
<1>10. \A n \in Matches \ {m} : StoryOf(n)' /\ Written(n)'
    <2>1. \A n \in Matches : n # None
        BY Constants
    <2>2. QED
        BY <1>2, <1>5, <1>6, <2>1, OthersStory
<1>11. \A e \in RequestIds \ {id} : server[e].match = m => HostOf(e)'
    BY <1>1, <1>2, <1>6, SameRowsFewer, EarlyHost
<1>12. \A e \in RequestIds \ {id} : server[e].match # m => HostOf(e)'
    BY <1>2, <1>6, SameRowsFewer, OthersHost
<1>13. HostOf(id)'
    <2>1. CASE server'[id] = server[id]
        BY <1>2, <1>5, <2>1 DEF HostOf, Live
    <2>2. CASE server'[id] = s
        BY <1>1, <1>2, <1>5, <2>2, Constants DEF HostOf, Live, Clock
    <2>3. QED
        BY <2>1, <2>2
<1>14. QED
    BY <1>8, <1>9, <1>10, <1>11, <1>12, <1>13 DEF StoryInv

LEMMA CreateContainerStory ==
    ASSUME NEW m \in Matches, TypeInv, StoryInv, CreateContainer(m)
    PROVE  StoryInv'
<1>1. /\ alloc[m].pc = "create" /\ "create" \notin Going \cup Ended \cup Serving \cup Owning
      /\ "create" \in OnLocal \cap Holds
      /\ SameRows /\ cancelled' = cancelled
    BY DEF CreateContainer, At, Going, Ended, Serving, Owning, OnLocal, Holds, SameRows,
       matchRows
<1>2. StoryOf(m) /\ told[m] = "none" /\ alloc[m].kind = "local"
    BY <1>1 DEF StoryInv, StoryOf
<1>3. ASSUME Fresh # {}, UNCHANGED <<told, faults>>,
             server' = [server EXCEPT ![NewId] = [state |-> "created", kind |-> "local",
                                                  match |-> m, pair |-> alloc[m].pair]],
             alloc' = [alloc EXCEPT ![m].pc = "start", ![m].d = NewId]
      PROVE  StoryInv'
    <2>1. PICK id \in RequestIds : id = NewId /\ server[id].state = "none"
        BY <1>3, NewIdIsFresh
    <2>2. PICK r : r = alloc'[m]
        OBVIOUS
    <2>3. /\ r \in Allocation /\ r.pc = "start" /\ r.d = id /\ r.kind = "local"
          /\ r.pair = alloc[m].pair
        BY <1>2, <1>3, <2>1, <2>2, KnownDeploy DEF TypeInv, Allocation, Labels
    <2>4. PICK s : s = server'[id]
        OBVIOUS
    <2>5. /\ s.match = m /\ s.kind = "local" /\ s.state = "created" /\ s.pair = alloc[m].pair
          /\ \A e \in RequestIds \ {id} : server'[e] = server[e]
        BY <1>3, <2>1, <2>4 DEF TypeInv, RestOK
    <2>6. \A n \in Matches \ {m} : alloc'[n] = alloc[n]
        BY <1>3 DEF TypeInv
    <2>7. Clock
        BY <1>1, <1>3 DEF Clock
    <2>8. /\ alloc[m].pc \notin Serving \cup Ended
          /\ told' = told /\ SameRows
          /\ s.state \in {"created", "booting"} /\ server'[id] \in {server[id], s}
        BY <1>1, <1>3, <2>4, <2>5
    <2>9. /\ r.pc \in {"start", "poll", "stop"}
          /\ r.kind = IF r.pc = "start" THEN "local" ELSE "edgegap"
          /\ s.kind = r.kind /\ r.d \in {0, id}
          /\ r.d = id => server'[id] = s
          /\ r.pc = "start" => r.d = id /\ s.state = "created" /\ s.pair = r.pair
          /\ faults' = 0 /\ m \notin cancelled => r.d = id /\ r.pc \in {"start", "poll"}
        BY <2>3, <2>4, <2>5
    <2>10. QED
        BY <2>1, <2>2, <2>3, <2>5, <2>6, <2>7, <2>8, <2>9, NewServerStory
<1>4. CASE CallFails(m) /\ GiveUp(m) /\ UNCHANGED server
    <2>1. Clock /\ \A e \in RequestIds : Advances(e)
        BY <1>1, <1>4, CallFailsClock, SameServerAdvances DEF Clock
    <2>2. faults' = 0 => m \in cancelled
        BY <1>4, CallFailsClock
    <2>3. QED
        BY <1>1, <1>4, <2>1, <2>2, GiveUpStory
<1>5. QED
    BY <1>3, <1>4 DEF CreateContainer

LEMMA DeployStory ==
    ASSUME NEW m \in Matches, TypeInv, TypeInv', StoryInv, Deploy(m)
    PROVE  StoryInv'
<1>1. /\ alloc[m].pc = "deploy" /\ "deploy" \notin Going \cup Ended \cup Serving
      /\ "deploy" \in OnEdgegap /\ Fresh # {}
      /\ SameRows /\ cancelled' = cancelled /\ told' = told
    BY DEF Deploy, At, Going, Ended, Serving, OnEdgegap, SameRows, matchRows, portVars
<1>2. alloc[m].kind = "edgegap"
    BY <1>1 DEF StoryInv, StoryOf
<1>3. PICK id \in RequestIds : id = NewId /\ server[id].state = "none"
    BY <1>1, NewIdIsFresh
<1>4. PICK s : s = [state |-> "booting", kind |-> "edgegap", match |-> m, pair |-> NoPorts]
    OBVIOUS
<1>5. s.match = m /\ s.kind = "edgegap" /\ s.state = "booting"
    BY <1>4
<1>6. Clock
    BY <1>1, CallFailsClock DEF Deploy, Clock
<1>7. ASSUME NEW d \in {id, 0}, NEW pc \in {"poll", "stop"},
             alloc' = [alloc EXCEPT ![m].pc = pc, ![m].d = d, ![m].try = @ + 1],
             \/ server' = server /\ d = 0
             \/ server' = [server EXCEPT ![NewId] = s],
             faults' = 0 /\ m \notin cancelled => d = NewId /\ pc = "poll"
      PROVE  StoryInv'
    <2>1. PICK r : r = alloc'[m]
        OBVIOUS
    <2>2. alloc' = [alloc EXCEPT ![m] = r]
        BY <1>7, <2>1 DEF TypeInv
    <2>3. /\ r \in Allocation /\ r.pc = pc /\ r.d = d /\ r.kind = "edgegap"
        BY <1>2, <1>7, <2>1, KnownDeploy DEF TypeInv, Sound, Allocation
    <2>4. /\ \A e \in RequestIds \ {id} : server'[e] = server[e]
          /\ server'[id] \in {server[id], s} /\ (d = id => server'[id] = s)
        BY <1>3, <1>7, Constants DEF TypeInv, RestOK
    <2>5. \A n \in Matches \ {m} : alloc'[n] = alloc[n]
        BY <2>2 DEF TypeInv
    <2>6. /\ alloc[m].pc \notin Serving \cup Ended
          /\ told' = told /\ SameRows /\ Clock
          /\ s.match = m /\ s.state \in {"created", "booting"}
          /\ server[id].state = "none"
        BY <1>1, <1>3, <1>5, <1>6
    <2>7. /\ r.pc \in {"start", "poll", "stop"}
          /\ r.kind = IF r.pc = "start" THEN "local" ELSE "edgegap"
          /\ s.kind = r.kind /\ r.d \in {0, id}
          /\ r.d = id => server'[id] = s
          /\ r.pc = "start" => r.d = id /\ s.state = "created" /\ s.pair = r.pair
          /\ faults' = 0 /\ m \notin cancelled => r.d = id /\ r.pc \in {"start", "poll"}
        BY <1>3, <1>5, <1>7, <2>3, <2>4
    <2>8. QED
        BY <2>1, <2>3, <2>4, <2>5, <2>6, <2>7, NewServerStory
<1>8. CASE /\ m \notin cancelled
           /\ server' = [server EXCEPT ![NewId] = s]
           /\ alloc' = [alloc EXCEPT ![m].pc = "poll", ![m].d = NewId, ![m].try = @ + 1]
    BY <1>3, <1>7, <1>8
<1>9. CASE /\ CallFails(m)
           /\ server' \in {server, [server EXCEPT ![NewId] = s]}
           /\ alloc' = [alloc EXCEPT ![m].pc = "stop", ![m].d = 0, ![m].try = @ + 1]
    BY <1>3, <1>7, <1>9, CallFailsClock
<1>10. QED
    BY <1>4, <1>8, <1>9 DEF Deploy

LEMMA MatchedStory ==
    ASSUME NEW m \in Matches, NEW us \in Rosters, NEW kind \in Kinds,
           NEW probe \in BOOLEAN, TypeInv, StoryInv, Matched(m, us, kind, probe)
    PROVE  StoryInv'
<1>1. /\ alloc[m].pc = "idle" /\ "idle" \notin Serving \cup Ended \cup Going
      /\ SameRows /\ Clock /\ told' = told /\ server' = server
      /\ \A e \in RequestIds : Advances(e)
    BY SameServerAdvances
    DEF Matched, At, Going, Ended, Serving, SameRows, Clock, matchRows, portVars
<1>2. \A n \in Matches \ {m} : alloc'[n] = alloc[n] /\ told'[n] = told[n]
    BY <1>1 DEF Matched, TypeInv
<1>3. alloc'[m].pc = "checks" /\ alloc'[m].d = 0
    BY DEF Matched, TypeInv, NoAllocation
<1>4. StoryOf(m) /\ told[m] = "none"
    BY <1>1 DEF StoryInv, StoryOf
<1>5. StoryOf(m)' /\ Written(m)'
    BY <1>1, <1>3, <1>4
    DEF StoryOf, Written, Ended, OnLocal, OnEdgegap, Owning, Going
<1>6. \A n \in Matches \ {m} : StoryOf(n)' /\ Written(n)'
    BY <1>1, <1>2, OthersStory DEF SameRows
<1>7. \A d \in RequestIds : server[d].match # m
    BY <1>1, Constants DEF StoryInv, HostOf
<1>8. \A d \in RequestIds : HostOf(d)'
    BY <1>1, <1>2, <1>7, SameRowsFewer, OthersHost
<1>9. QED
    BY <1>5, <1>6, <1>8 DEF StoryInv

-----------------------------------------------------------------------------
(* Players and servers, and the runtime's end. *)

LEMMA WorldStory ==
    ASSUME TypeInv, TypeInv', StoryInv,
           \/ \E u \in Users : Cancel(u)
           \/ \E d \in RequestIds : ServerExit(d)
    PROVE  StoryInv'
<1>1. Clock /\ SameRows /\ UNCHANGED <<alloc, told>> /\ meta' = meta
    BY DEF Cancel, ServerExit, Clock, SameRows, matchRows, portVars
<1>2. \A e \in RequestIds : Advances(e)
    <2>1. CASE UNCHANGED server
        BY <2>1, SameServerAdvances
    <2>2. ASSUME NEW d \in RequestIds, ServerExit(d)
          PROVE  \A e \in RequestIds : Advances(e)
        <3>1. PICK s \in ServerStates \ {"none"} : s = "gone"
            BY DEF ServerStates
        <3>2. server' = InState(d, s) /\ Live(d) /\ s \in Came /\ s \notin {"booting", "up"}
            BY <2>2, <3>1 DEF ServerExit, Came
        <3>3. QED
            BY <3>2, InStateAdvances DEF TypeInv, Live
    <2>3. QED
        BY <2>1, <2>2 DEF Cancel
<1>3. QED
    BY <1>1, <1>2, SameRowsFewer, StoryWorld

LEMMA RegisterServerStory ==
    ASSUME NEW d \in RequestIds, TypeInv, StoryInv, RegisterServer(d)
    PROVE  StoryInv'
<1>1. /\ server[d].state = "booting" /\ server' = InState(d, "up") /\ Clock
      /\ UNCHANGED <<alloc, told, meta, marked, tracked, cancelled, faults>>
      /\ registered' = registered \cup {d}
    BY DEF RegisterServer, Clock, portVars
<1>2. \A e \in RequestIds : Advances(e)
    <2>1. PICK s \in ServerStates \ {"none"} : s = "up"
        BY DEF ServerStates
    <2>2. QED
        BY <1>1, <2>1, InStateAdvances DEF TypeInv, Live, Came
<1>3. ASSUME NEW m \in Matches
      PROVE  StoryOf(m)' /\ Written(m)'
    <2>1. StoryOf(m)'
        BY <1>1, <1>2, KnownDeploy, StoryFrame DEF StoryInv
    <2>2. CASE alloc[m].d = d
        <3>1. alloc[m].pc # "notify" /\ told[m] # "ready"
            BY <1>1, <2>2 DEF StoryInv, StoryOf, Going, Came
        <3>2. QED
            BY <1>1, <2>1, <3>1 DEF Written
    <2>3. CASE alloc[m].d # d
        BY <1>1, <2>1, <2>3, WrittenFrame DEF StoryInv
    <2>4. QED
        BY <2>2, <2>3
<1>4. \A e \in RequestIds \ {d} : HostOf(e)'
    BY <1>1, <1>2, HostFrame DEF StoryInv, FewerRows
<1>5. HostOf(d)'
    <2>1. /\ server'[d].state = "up" /\ server'[d].match = server[d].match
          /\ server'[d].kind = server[d].kind
        BY <1>1, <1>2 DEF InState, TypeInv, RestOK, Advances
    <2>2. HostOf(d)
        BY DEF StoryInv
    <2>3. Live(d) /\ "up" \in Came
        BY <1>1 DEF Live, Came
    <2>4. QED
        BY <1>1, <2>1, <2>2, <2>3 DEF HostOf, Live
<1>6. QED
    BY <1>3, <1>4, <1>5 DEF StoryInv

LEMMA RestartStory ==
    ASSUME TypeInv, StoryInv, Restart
    PROVE  StoryInv'
<1>1. /\ faults' # 0 /\ UNCHANGED <<cancelled, registered, meta, marked, server, told>>
      /\ \A d \in RequestIds : tracked'[d] = NoPorts
    BY FaultClock DEF Restart, matchRows
<1>2. ASSUME NEW m \in Matches
      PROVE  /\ alloc'[m].probe = alloc[m].probe /\ alloc'[m].d = alloc[m].d
             /\ alloc'[m].kind = alloc[m].kind
             /\ \/ alloc[m].pc \in {"idle", "done", "lost"} /\ alloc'[m] = alloc[m]
                \/ alloc[m].pc \notin {"idle", "done", "lost"} /\ alloc'[m].pc = "lost"
    <2>1. alloc'[m] = IF Running(m) THEN [alloc[m] EXCEPT !.pc = "lost"] ELSE alloc[m]
        BY DEF Restart
    <2>2. QED
        BY <2>1, KnownDeploy DEF Running, Allocation
<1>3. "lost" \in Ended /\ {"idle", "done", "lost"} \cap (OnLocal \cup OnEdgegap \cup Owning
                                                         \cup Going) = {}
    BY DEF Ended, OnLocal, OnEdgegap, Owning, Going
<1>4. ASSUME NEW m \in Matches
      PROVE  StoryOf(m)' /\ Written(m)'
    <2>1. StoryOf(m)
        BY DEF StoryInv
    <2>2. StoryOf(m)'
        BY <1>1, <1>2, <1>3, <2>1 DEF StoryOf
    <2>3. QED
        BY <1>1, <2>2 DEF Written
<1>5. ASSUME NEW d \in RequestIds
      PROVE  HostOf(d)'
    <2>1. HostOf(d)
        BY DEF StoryInv
    <2>2. server[d].match # None => server[d].match \in Matches
        BY DEF TypeInv, RestOK, Server
    <2>3. CASE server[d].match = None
        BY <1>1, <2>1, <2>3 DEF HostOf
    <2>4. CASE server[d].match # None
        BY <1>1, <1>2, <1>3, <2>1, <2>2, <2>4 DEF HostOf, Ended
    <2>5. QED
        BY <2>3, <2>4
<1>6. QED
    BY <1>4, <1>5 DEF StoryInv

LEMMA FleetInitStory ==
    ASSUME FleetInit
    PROVE  StoryInv
<1>1. \A m \in Matches : StoryOf(m) /\ Written(m)
    BY DEF FleetInit, NoAllocation, StoryOf, Written, Ended, OnLocal, OnEdgegap, Owning, Going
<1>2. \A d \in RequestIds : HostOf(d)
    BY DEF FleetInit, NoServer, HostOf, Live
<1>3. QED
    BY <1>1, <1>2 DEF StoryInv

LEMMA StoryStep ==
    ASSUME TypeInv, StoryInv, [FleetNext]_fleetVars
    PROVE  StoryInv'
<1>1. TypeInv'
    BY TypeStep
<1>2. ASSUME NEW m \in Matches, NEW us \in Rosters, NEW k \in Backends, NEW p \in Probes,
             Matched(m, us, k, p)
      PROVE  StoryInv'
    <2>1. k \in Kinds /\ p \in BOOLEAN
        BY FleetAssumption DEF FleetAssumption
    <2>2. QED
        BY <1>2, <2>1, MatchedStory
<1>3. ASSUME NEW m \in Matches, Allocate(m)
      PROVE  StoryInv'
    BY <1>1, <1>3, ChecksStory, AllocatePortsStory, CreateContainerStory,
       StartContainerStory, WaitForServerStory, UndoStartStory, DeployStory,
       PollDeployStory, StopAttemptStory, BackoffStory, CheckpointStory, TeardownStory,
       MarkSyntheticStory, WriteMetadataStory, NotifyReadyStory, FinishStory DEF Allocate
<1>4. CASE \/ \E u \in Users : Cancel(u)
           \/ \E d \in RequestIds : RegisterServer(d) \/ ServerExit(d)
    BY <1>1, <1>4, WorldStory, RegisterServerStory
<1>5. CASE Restart
    BY <1>5, RestartStory
<1>6. CASE UNCHANGED fleetVars
    BY <1>6 DEF fleetVars, StoryInv, StoryOf, Written, HostOf, Live
<1>7. QED
    BY <1>2, <1>3, <1>4, <1>5, <1>6 DEF FleetNext, FleetStep

-----------------------------------------------------------------------------
(* What any step of a goroutine leaves of its match. *)

Profile(m) ==
    /\ \A n \in Matches \ {m} : alloc'[n] = alloc[n] /\ told'[n] = told[n]
    /\ alloc'[m].users = alloc[m].users
    /\ alloc'[m].kind = alloc[m].kind
    /\ alloc'[m].probe = alloc[m].probe
    /\ alloc[m].pc \notin {"idle", "done", "lost"} /\ alloc'[m].pc # "idle"
    /\ alloc[m].pc \in Ended => told'[m] = told[m] /\ alloc'[m].pc \in Ended
    /\ alloc'[m].pc \in Going \/ told'[m] = "ready" =>
         /\ alloc'[m].d = alloc[m].d
         /\ alloc[m].pc \in Going \cup {"wait", "poll"} \/ told[m] = "ready"

LEMMA GotoProfile ==
    ASSUME TypeInv, NEW m \in Matches, NEW pc, pc # "idle", Goto(m, pc),
           alloc[m].pc \notin {"idle", "done", "lost"},
           \A n \in Matches \ {m} : told'[n] = told[n],
           alloc[m].pc \in Ended => told'[m] = told[m] /\ pc \in Ended,
           pc \in Going \/ told'[m] = "ready" =>
               alloc[m].pc \in Going \cup {"wait", "poll"} \/ told[m] = "ready"
    PROVE  Profile(m)
<1>1. /\ alloc'[m].pc = pc /\ alloc'[m].users = alloc[m].users
      /\ alloc'[m].kind = alloc[m].kind /\ alloc'[m].probe = alloc[m].probe
      /\ alloc'[m].d = alloc[m].d
    BY KnownDeploy DEF Goto, TypeInv, Allocation
<1>2. \A n \in Matches \ {m} : alloc'[n] = alloc[n]
    BY DEF Goto, TypeInv
<1>3. QED
    BY <1>1, <1>2 DEF Profile

LEMMA TellProfile ==
    ASSUME TypeInv, NEW m \in Matches, NEW o, Tell(m, o),
           alloc[m].pc \notin {"idle"} \cup Ended, o = "ready" => alloc[m].pc \in Going
    PROVE  Profile(m)
<1>1. /\ Goto(m, "finish") /\ told'[m] = o
      /\ \A n \in Matches \ {m} : told'[n] = told[n]
    BY DEF Tell, TypeInv, RestOK
<1>2. "finish" \notin Going /\ {"done", "lost"} \subseteq Ended
    BY DEF Going, Ended
<1>3. QED
    BY <1>1, <1>2, GotoProfile

LEMMA GiveUpProfile ==
    ASSUME TypeInv, NEW m \in Matches, GiveUp(m), alloc[m].pc \notin {"idle"} \cup Ended
    PROVE  Profile(m)
<1>1. PICK o : Tell(m, o) /\ o # "ready"
    BY DEF GiveUp
<1>2. QED
    BY <1>1, TellProfile

(* A goroutine that tells nothing, before its server has registered or after. *)
LEMMA SilentProfile ==
    ASSUME TypeInv, NEW m \in Matches, NEW pc, pc \notin {"idle"} \cup Ended, Goto(m, pc),
           told' = told, alloc[m].pc \notin {"idle"} \cup Ended,
           pc \in Going => alloc[m].pc \in Going \cup {"wait", "poll"}
    PROVE  Profile(m)
<1>1. {"done", "lost"} \subseteq Ended
    BY DEF Ended
<1>2. QED
    BY <1>1, GotoProfile

LEMMA AllocateProfile ==
    ASSUME TypeInv, StoryInv, NEW m \in Matches, Allocate(m)
    PROVE  Profile(m)
<1> DEFINE Early == {"checks", "port", "create", "start", "wait", "undo", "deploy", "poll",
                     "stop", "backoff"}
<1>1. /\ (Early \cup Going) \cap ({"idle"} \cup Ended) = {}
      /\ Early \cap Going = {}
      /\ Going = {"checkpoint", "teardown", "mark", "meta", "notify"}
    BY DEF Going, Ended
<1>2. ASSUME alloc[m].pc \in Early, GiveUp(m)
      PROVE  Profile(m)
    BY <1>1, <1>2, GiveUpProfile
<1>3. ASSUME NEW pc \in Early, Goto(m, pc), told' = told, alloc[m].pc \in Early
      PROVE  Profile(m)
    BY <1>1, <1>3, SilentProfile
<1>4. ASSUME NEW pc \in Going, Goto(m, pc), told' = told,
             alloc[m].pc \in Going \cup {"wait", "poll"}
      PROVE  Profile(m)
    BY <1>1, <1>4, SilentProfile
<1>5. ASSUME NEW r, alloc' = [alloc EXCEPT ![m] = r], told' = told,
             alloc[m].pc \in Early, r.pc \in Early, r.users = alloc[m].users,
             r.kind = alloc[m].kind, r.probe = alloc[m].probe
      PROVE  Profile(m)
    <2>1. alloc'[m] = r /\ \A n \in Matches \ {m} : alloc'[n] = alloc[n]
        BY <1>5 DEF TypeInv
    <2>2. told[m] # "ready"
        BY <1>1, <1>5 DEF StoryInv, StoryOf
    <2>3. {"done", "lost"} \subseteq Ended
        BY DEF Ended
    <2>4. QED
        BY <1>1, <1>5, <2>1, <2>2, <2>3 DEF Profile
<1>6. CASE Checks(m)
    <2>1. CASE Tell(m, "failed")
        BY <1>1, <1>6, <2>1, TellProfile DEF Checks, At
    <2>2. PICK pc \in Early : pc = IF alloc[m].kind = "local" THEN "port" ELSE "deploy"
        OBVIOUS
    <2>3. QED
        BY <1>3, <1>6, <2>1, <2>2 DEF Checks, At
<1>7. CASE AllocatePorts(m)
    <2> DEFINE r == [alloc[m] EXCEPT !.pc = "create", !.pair = FreePair]
    <2>1. /\ r.pc = "create" /\ r.users = alloc[m].users /\ r.kind = alloc[m].kind
          /\ r.probe = alloc[m].probe
        BY KnownDeploy DEF Allocation
    <2>2. alloc[m].pc \in Early
        BY <1>7 DEF AllocatePorts, At
    <2>3. CASE alloc' = [alloc EXCEPT ![m] = r] /\ told' = told
        BY <1>5, <2>1, <2>2, <2>3
    <2>4. QED
        BY <1>2, <1>7, <2>2, <2>3 DEF AllocatePorts
<1>8. CASE CreateContainer(m)
    <2> DEFINE r == [alloc[m] EXCEPT !.pc = "start", !.d = NewId]
    <2>1. /\ r.pc = "start" /\ r.users = alloc[m].users /\ r.kind = alloc[m].kind
          /\ r.probe = alloc[m].probe
        BY KnownDeploy DEF Allocation
    <2>2. alloc[m].pc \in Early
        BY <1>8 DEF CreateContainer, At
    <2>3. CASE alloc' = [alloc EXCEPT ![m] = r] /\ told' = told
        BY <1>5, <2>1, <2>2, <2>3
    <2>4. QED
        BY <1>2, <1>8, <2>2, <2>3 DEF CreateContainer
<1>9. CASE StartContainer(m)
    <2>1. PICK pc \in Early : pc \in {"wait", "undo"} /\ Goto(m, pc)
        BY <1>9 DEF StartContainer
    <2>2. alloc[m].pc \in Early /\ told' = told
        BY <1>9 DEF StartContainer, At
    <2>3. QED
        BY <1>3, <2>1, <2>2
<1>10. CASE WaitForServer(m)
    <2>1. alloc[m].pc = "wait" /\ told' = told
        BY <1>10 DEF WaitForServer, At
    <2>2. "undo" \in Early /\ "checkpoint" \in Going
        BY <1>1
    <2>3. QED
        BY <1>3, <1>4, <1>10, <2>1, <2>2 DEF WaitForServer
<1>11. CASE UndoStart(m)
    BY <1>2, <1>11 DEF UndoStart, At
<1>12. CASE Deploy(m)
    <2>1. alloc[m].pc \in Early /\ told' = told
        BY <1>12 DEF Deploy, At
    <2>2. PICK pc \in {"poll", "stop"}, d \in {NewId, 0} :
              alloc' = [alloc EXCEPT ![m].pc = pc, ![m].d = d, ![m].try = @ + 1]
        BY <1>12 DEF Deploy
    <2> DEFINE r == [alloc[m] EXCEPT !.pc = pc, !.d = d, !.try = @ + 1]
    <2>3. /\ r.pc = pc /\ r.users = alloc[m].users /\ r.kind = alloc[m].kind
          /\ r.probe = alloc[m].probe
        BY KnownDeploy DEF Allocation
    <2>4. QED
        BY <1>5, <2>1, <2>2, <2>3
<1>13. CASE PollDeploy(m)
    <2>1. alloc[m].pc = "poll" /\ told' = told
        BY <1>13 DEF PollDeploy, At
    <2>2. "stop" \in Early /\ "checkpoint" \in Going
        BY <1>1
    <2>3. QED
        BY <1>3, <1>4, <1>13, <2>1, <2>2 DEF PollDeploy
<1>14. CASE StopAttempt(m)
    <2>1. alloc[m].pc \in Early /\ "backoff" \in Early
        BY <1>14 DEF StopAttempt, At
    <2>2. QED
        BY <1>2, <1>3, <1>14, <2>1 DEF StopAttempt, AfterAttempt
<1>15. CASE Backoff(m)
    <2>1. alloc[m].pc \in Early /\ "deploy" \in Early
        BY <1>15 DEF Backoff, At
    <2>2. QED
        BY <1>2, <1>3, <1>15, <2>1 DEF Backoff
<1>16. CASE Checkpoint(m) \/ MarkSynthetic(m) \/ WriteMetadata(m)
    <2>1. PICK pc \in Going : Goto(m, pc)
        BY <1>1, <1>16 DEF Checkpoint, MarkSynthetic, WriteMetadata
    <2>2. alloc[m].pc \in Going /\ told' = told
        BY <1>1, <1>16 DEF Checkpoint, MarkSynthetic, WriteMetadata, At
    <2>3. QED
        BY <1>4, <2>1, <2>2
<1>17. CASE Teardown(m) \/ NotifyReady(m)
    <2>1. alloc[m].pc \in Going /\ \E o : Tell(m, o)
        BY <1>1, <1>17 DEF Teardown, NotifyReady, At
    <2>2. QED
        BY <1>1, <2>1, TellProfile
<1>18. CASE Finish(m)
    <2>1. /\ alloc[m].pc = "finish" /\ Goto(m, "done") /\ told' = told
          /\ {"finish", "done"} \subseteq Ended /\ "done" \notin Going
        BY <1>18 DEF Finish, At, Ended, Going
    <2>2. QED
        BY <2>1, GotoProfile
<1>19. QED
    BY <1>6, <1>7, <1>8, <1>9, <1>10, <1>11, <1>12, <1>13, <1>14, <1>15, <1>16, <1>17, <1>18
    DEF Allocate

-----------------------------------------------------------------------------
(* OneOutcome. *)

LEMMA ToldOnce ==
    ASSUME TypeInv, StoryInv, [FleetNext]_fleetVars
    PROVE  \A m \in Matches : told[m] # "none" => told'[m] = told[m]
<1>1. ASSUME NEW m \in Matches, Allocate(m)
      PROVE  \A n \in Matches : told[n] # "none" => told'[n] = told[n]
    <2>1. Profile(m)
        BY <1>1, AllocateProfile
    <2>2. told[m] # "none" => alloc[m].pc \in Ended
        BY DEF StoryInv, StoryOf
    <2>3. QED
        BY <2>1, <2>2 DEF Profile
<1>2. CASE \/ \E m \in Matches, us \in Rosters, k \in Backends, p \in Probes :
                 Matched(m, us, k, p)
           \/ \E u \in Users : Cancel(u)
           \/ \E d \in RequestIds : RegisterServer(d) \/ ServerExit(d)
           \/ Restart
           \/ UNCHANGED fleetVars
    BY <1>2 DEF Matched, Cancel, RegisterServer, ServerExit, Restart, fleetVars
<1>3. QED
    BY <1>1, <1>2 DEF FleetNext, FleetStep

(* Every step keeps the types, the ports' ledger and the stories. *)
FleetInv == TypeInv /\ LedgerInv /\ StoryInv

LEMMA FleetInvariant == FleetSpec => []FleetInv
<1>1. FleetInit => FleetInv
    BY FleetInitType, FleetInitLedger, FleetInitStory DEF FleetInv
<1>2. FleetInv /\ [FleetNext]_fleetVars => FleetInv'
    BY TypeStep, LedgerStep, StoryStep DEF FleetInv
<1>3. QED
    BY <1>1, <1>2, PTL DEF FleetSpec

(* sendMatchReady, sendMatchCancelled and sendAllocationFailed: whatever      *)
(* fails, is cancelled or restarts, the players of a match are told one       *)
(* outcome and never another.                                                 *)
THEOREM OneOutcomeHolds == FleetSpec => OneOutcome
<1> DEFINE Once == \A m \in Matches : told[m] # "none" => told'[m] = told[m]
<1>1. FleetSpec => []FleetInv
    BY FleetInvariant
<1>2. FleetInv /\ [FleetNext]_fleetVars => [Once]_fleetVars
    BY ToldOnce DEF FleetInv
<1>3. QED
    BY <1>1, <1>2, PTL DEF FleetSpec, OneOutcome

-----------------------------------------------------------------------------
(* FailedMatchLeavesNoServer. *)

(* When no Edgegap, Docker or storage call fails, runAllocation never tells   *)
(* match_failed while a server it created for the match is booting or up:     *)
(* each deploy that a retry gave up, and the last, has been stopped.          *)
THEOREM FailedLeavesNothing == FleetSpec => []FailedMatchLeavesNoServer
<1>1. ASSUME FleetInv, faults = 0, NEW m \in Matches \ cancelled, told[m] = "failed",
             NEW d \in RequestIds, server[d].match = m
      PROVE  ~Live(d)
    <2>1. HostOf(d) /\ StoryOf(m)
        BY <1>1 DEF FleetInv, StoryInv
    <2>2. alloc[m].pc \in Ended /\ Ended \cap Serving = {}
        BY <1>1, <2>1 DEF StoryOf, Ended, Serving, Going
    <2>3. QED
        BY <1>1, <2>1, <2>2 DEF HostOf
<1>2. FleetInv => FailedMatchLeavesNoServer
    BY <1>1 DEF FailedMatchLeavesNoServer
<1>3. QED
    BY <1>2, FleetInvariant, PTL

-----------------------------------------------------------------------------
(* LastMatchCancellable.  It is inductive beside the order in which matches   *)
(* are formed: a later match of a player is formed later.                     *)

CancelInv == InOrder /\ LastMatchCancellable

LEMMA MatchedInOrder ==
    ASSUME NEW m \in Matches, TypeInv, InOrder, alloc[m].pc = "idle",
           m # 1 => alloc[m - 1].pc # "idle"
    PROVE  \A n \in Matches : n < m => alloc[n].pc # "idle"
<1>1. SUFFICES ASSUME NEW n \in Matches, n < m, alloc[n].pc = "idle"
               PROVE  FALSE
    OBVIOUS
<1>2. m - 1 \in Matches /\ n \in Nat /\ m \in Nat /\ n <= m - 1 /\ m # 1
    BY <1>1, Constants DEF Matches
<1>3. CASE n = m - 1
    BY <1>1, <1>2, <1>3
<1>4. CASE n < m - 1
    BY <1>1, <1>2, <1>4 DEF InOrder
<1>5. QED
    BY <1>2, <1>3, <1>4

LEMMA MatchedCancel ==
    ASSUME NEW m \in Matches, NEW us \in Rosters, NEW kind \in Kinds,
           NEW probe \in BOOLEAN, TypeInv, StoryInv, CancelInv, Matched(m, us, kind, probe)
    PROVE  CancelInv'
<1>1. /\ alloc[m].pc = "idle" /\ alloc[m] = NoAllocation
      /\ m # 1 => alloc[m - 1].pc # "idle"
    BY DEF Matched, At, StoryInv, StoryOf
<1>2. \A n \in Matches : n < m => alloc[n].pc # "idle"
    BY <1>1, MatchedInOrder DEF CancelInv
<1>3. /\ \A n \in Matches \ {m} : alloc'[n] = alloc[n]
      /\ alloc'[m].pc = "checks" /\ alloc'[m].users = us
      /\ \A u \in Users : inflight'[u] = IF u \in us THEN m ELSE inflight[u]
      /\ us \subseteq Users /\ faults' = faults
    BY Constants DEF Matched, TypeInv, NoAllocation
<1>4. InOrder'
    BY <1>2, <1>3, Constants DEF CancelInv, InOrder
<1>5. ASSUME faults' = 0, NEW k \in Matches, Running(k)', NEW u \in alloc'[k].users,
             \A n \in Matches : n > k => u \notin alloc'[n].users
      PROVE  inflight'[u] = k
    <2>1. CASE k = m
        BY <1>3, <1>5, <2>1
    <2>2. CASE k # m
        <3>1. Running(k) /\ u \in alloc[k].users /\ alloc[k].users \subseteq Users
            BY <1>3, <1>5, <2>2, KnownDeploy DEF Running, Allocation
        <3>2. k < m
            <4>1. alloc[k].pc # "idle"
                BY <3>1 DEF Running
            <4>2. ~(m < k)
                BY <1>1, <4>1 DEF CancelInv, InOrder
            <4>3. QED
                BY <2>2, <4>2, Constants
        <3>3. u \notin us
            BY <1>3, <1>5, <3>2, Constants
        <3>4. \A n \in Matches : n > k => u \notin alloc[n].users
            BY <1>1, <1>3, <1>5 DEF NoAllocation
        <3>5. inflight[u] = k
            BY <1>3, <1>5, <3>1, <3>4 DEF CancelInv, LastMatchCancellable
        <3>6. QED
            BY <1>3, <3>1, <3>3, <3>5
    <2>3. QED
        BY <2>1, <2>2
<1>6. QED
    BY <1>4, <1>5 DEF CancelInv, LastMatchCancellable

(* A step of a goroutine deletes nobody's entry but its own players'. *)
LEMMA AllocateCancel ==
    ASSUME NEW m \in Matches, TypeInv, StoryInv, CancelInv, Allocate(m)
    PROVE  CancelInv'
<1>1. Profile(m) /\ \A n \in Matches : alloc[n] \in Allocation
    BY AllocateProfile, KnownDeploy
<1>2. faults' = 0 => faults = 0
    BY FaultClock, CallFailsClock
    DEF Allocate, Checks, AllocatePorts, CreateContainer, StartContainer, WaitForServer,
        UndoStart, Deploy, PollDeploy, StopAttempt, Backoff, Checkpoint, Teardown,
        MarkSynthetic, WriteMetadata, NotifyReady, Finish
<1>3. InOrder'
    BY <1>1 DEF CancelInv, InOrder, Profile
<1>4. \A n \in Matches : /\ alloc'[n].users = alloc[n].users
                         /\ Running(n)' => Running(n)
    BY <1>1 DEF Profile, Running
<1>5. \A k \in Matches, u \in Users : Running(k)' /\ inflight[u] = k => inflight'[u] = k
    <2>1. CASE Finish(m)
        <3>1. ~Running(m)'
            BY <2>1, <1>1 DEF Finish, Goto, TypeInv, Running, Allocation
        <3>2. QED
            BY <2>1, <3>1 DEF Finish
    <2>2. CASE ~Finish(m)
        BY <2>2
        DEF Allocate, Checks, AllocatePorts, CreateContainer, StartContainer, WaitForServer,
            UndoStart, Deploy, PollDeploy, StopAttempt, Backoff, Checkpoint, Teardown,
            MarkSynthetic, WriteMetadata, NotifyReady
    <2>3. QED
        BY <2>1, <2>2
<1>6. \A k \in Matches : alloc[k].users \subseteq Users
    BY <1>1 DEF Allocation
<1>7. LastMatchCancellable'
    BY <1>2, <1>4, <1>5, <1>6 DEF CancelInv, LastMatchCancellable
<1>8. QED
    BY <1>3, <1>7 DEF CancelInv

LEMMA CancelStep ==
    ASSUME TypeInv, StoryInv, CancelInv, [FleetNext]_fleetVars
    PROVE  CancelInv'
<1>1. ASSUME NEW m \in Matches, NEW us \in Rosters, NEW k \in Backends, NEW p \in Probes,
             Matched(m, us, k, p)
      PROVE  CancelInv'
    <2>1. k \in Kinds /\ p \in BOOLEAN
        BY FleetAssumption DEF FleetAssumption
    <2>2. QED
        BY <1>1, <2>1, MatchedCancel
<1>2. ASSUME NEW m \in Matches, Allocate(m)
      PROVE  CancelInv'
    BY <1>2, AllocateCancel
<1>3. CASE \/ \E u \in Users : Cancel(u)
           \/ \E d \in RequestIds : RegisterServer(d) \/ ServerExit(d)
           \/ UNCHANGED fleetVars
    <2>1. UNCHANGED <<alloc, inflight, faults>>
        BY <1>3 DEF Cancel, RegisterServer, ServerExit, fleetVars
    <2>2. QED
        BY <2>1 DEF CancelInv, InOrder, LastMatchCancellable, Running
<1>4. CASE Restart
    <2>1. faults' # 0 /\ \A m \in Matches : alloc'[m].pc = "idle" <=> alloc[m].pc = "idle"
        BY <1>4, KnownDeploy, FaultClock DEF Restart, Running, Allocation
    <2>2. QED
        BY <2>1 DEF CancelInv, InOrder, LastMatchCancellable
<1>5. QED
    BY <1>1, <1>2, <1>3, <1>4 DEF FleetNext, FleetStep

(* deregisterInflight's CompareAndDelete: as long as the runtime is up, the   *)
(* last match formed with a player is the one their cancel reaches, until it  *)
(* has finished, however matches and their goroutines overlap.                *)
THEOREM LastMatchIsCancellable == FleetSpec => []LastMatchCancellable
<1>1. FleetInit => CancelInv
    BY DEF FleetInit, CancelInv, InOrder, LastMatchCancellable, Running, NoAllocation
<1>2. FleetInv /\ CancelInv /\ [FleetNext]_fleetVars => CancelInv'
    BY CancelStep DEF FleetInv
<1>3. CancelInv => LastMatchCancellable
    BY DEF CancelInv
<1>4. QED
    BY <1>1, <1>2, <1>3, FleetInvariant, PTL DEF FleetSpec

-----------------------------------------------------------------------------
(* BoundPortsInUse.  It is not inductive by itself: that the ports of a      *)
(* container belong to its goroutine is in StoryOf, and that they are the    *)
(* ones trackPorts keeps, once the goroutine gives them up, is TrackedInv.    *)

TrackedOf(m) ==
    LET d == alloc[m].d IN
    faults = 0 /\ alloc[m].kind = "local" /\ (alloc[m].pc \in Going \/ told[m] = "ready") =>
        tracked[d] = server[d].pair /\ tracked[d] # NoPorts

TrackedInv == \A m \in Matches : TrackedOf(m)

(* A server that came keeps its ports, and they stay tracked. *)
LEMMA TrackedFrame ==
    ASSUME TypeInv, StoryInv, NEW m \in Matches, TrackedOf(m),
           faults' = 0 => faults = 0,
           alloc'[m].kind = alloc[m].kind,
           alloc'[m].pc \in Going \/ told'[m] = "ready" =>
               /\ alloc'[m].d = alloc[m].d
               /\ alloc[m].pc \in Going \/ told[m] = "ready",
           \A e \in RequestIds : server[e].match = m =>
               tracked'[e] = tracked[e] /\ server'[e].pair = server[e].pair
    PROVE  TrackedOf(m)'
<1>1. alloc[m].pc \in Going \/ told[m] = "ready" =>
          alloc[m].d \in RequestIds /\ server[alloc[m].d].match = m
    BY KnownDeploy DEF StoryInv, StoryOf
<1>2. QED
    BY <1>1 DEF TrackedOf

(* No step of a goroutine but trackPorts changes what is tracked, and none   *)
(* changes the ports of a container there is.                                *)
LEMMA AllocateTracks ==
    ASSUME TypeInv, NEW m \in Matches, Allocate(m)
    PROVE  /\ faults' = 0 => faults = 0
           /\ WaitForServer(m) \/ tracked' = tracked
           /\ \A e \in RequestIds : server[e].state # "none" => server'[e].pair = server[e].pair
<1>1. faults' = 0 => faults = 0
    BY FaultClock, CallFailsClock
    DEF Allocate, Checks, AllocatePorts, CreateContainer, StartContainer, WaitForServer,
        UndoStart, Deploy, PollDeploy, StopAttempt, Backoff, Checkpoint, Teardown,
        MarkSynthetic, WriteMetadata, NotifyReady, Finish
<1>2. WaitForServer(m) \/ tracked' = tracked
    BY DEF Allocate, Checks, AllocatePorts, CreateContainer, StartContainer,
        UndoStart, Deploy, PollDeploy, StopAttempt, Backoff, Checkpoint, Teardown,
        MarkSynthetic, WriteMetadata, NotifyReady, Finish, portVars
<1> SUFFICES \A e \in RequestIds : server[e].state # "none" =>
                 server'[e].pair = server[e].pair
    BY <1>1, <1>2
<1>3. ASSUME NEW d \in RequestIds, NEW s \in ServerStates,
             server' \in {server, InState(d, s), Stopped(d)}
      PROVE  \A e \in RequestIds : server'[e].pair = server[e].pair
    <2>1. ASSUME NEW t \in ServerStates, server' = InState(d, t)
          PROVE  \A e \in RequestIds : server'[e].pair = server[e].pair
        BY <2>1 DEF TypeInv, RestOK, Server, InState
    <2>2. "gone" \in ServerStates
        BY DEF ServerStates
    <2>3. QED
        BY <1>3, <2>1, <2>2 DEF Stopped
<1>4. ASSUME Fresh # {}, NEW s, server' \in {server, [server EXCEPT ![NewId] = s]}
      PROVE  \A e \in RequestIds : server[e].state # "none" => server'[e].pair = server[e].pair
    BY <1>4, NewIdIsFresh DEF TypeInv, RestOK
<1>5. CASE CreateContainer(m) \/ Deploy(m)
    BY <1>4, <1>5 DEF CreateContainer, Deploy
<1>6. CASE StartContainer(m)
    <2>1. alloc[m].d \in RequestIds /\ "booting" \in ServerStates
        BY <1>6, KnownDeploy DEF StartContainer, At, Knows, ServerStates
    <2>2. server' \in {server, InState(alloc[m].d, "booting")}
        BY <1>6 DEF StartContainer
    <2>3. QED
        BY <1>3, <2>1, <2>2
<1>7. CASE UndoStart(m) \/ StopAttempt(m) \/ Teardown(m)
    <2>1. "gone" \in ServerStates /\ alloc[m].d \in RequestIds \cup {0}
        BY KnownDeploy DEF ServerStates
    <2>2. CASE alloc[m].d = 0
        <3>1. server' = server
            BY <1>7, <2>2, KnownDeploy, Constants
            DEF UndoStart, StopAttempt, Teardown, At, Knows
        <3>2. QED
            BY <3>1
    <2>3. CASE alloc[m].d # 0
        <3>1. server' \in {server, Stopped(alloc[m].d)}
            BY <1>7, <2>3 DEF UndoStart, StopAttempt, Teardown
        <3>2. QED
            BY <1>3, <2>1, <2>3, <3>1
    <2>4. QED
        BY <2>2, <2>3
<1>8. CASE server' = server
    BY <1>8
<1>9. QED
    BY <1>1, <1>2, <1>5, <1>6, <1>7, <1>8
    DEF Allocate, Checks, AllocatePorts, WaitForServer, PollDeploy, Backoff, Checkpoint,
        MarkSynthetic, WriteMetadata, NotifyReady, Finish

LEMMA WaitTracked ==
    ASSUME TypeInv, StoryInv, NEW m \in Matches, WaitForServer(m)
    PROVE  TrackedOf(m)'
<1>1. alloc[m].pc = "wait" /\ server' = server /\ told' = told /\ alloc[m].d \in RequestIds
    BY KnownDeploy DEF WaitForServer, At, Knows
<1>2. told[m] = "none" /\ server[alloc[m].d].pair = alloc[m].pair /\ alloc[m].pair # NoPorts
    BY <1>1, PairsAreNotNoPorts DEF StoryInv, StoryOf, Ended, Owning, TypeInv, Sound, Holds
<1>3. CASE Goto(m, "undo")
    <2>1. alloc'[m].pc = "undo" /\ "undo" \notin Going
        BY <1>3, KnownDeploy DEF Goto, TypeInv, Allocation, Going
    <2>2. QED
        BY <1>1, <1>2, <2>1 DEF TrackedOf
<1>4. CASE Goto(m, "checkpoint") /\ tracked' = [tracked EXCEPT ![alloc[m].d] = alloc[m].pair]
    <2>1. alloc'[m].d = alloc[m].d
        BY <1>4, KnownDeploy DEF Goto, TypeInv, Allocation
    <2>2. tracked'[alloc[m].d] = alloc[m].pair
        BY <1>1, <1>4 DEF TypeInv, RestOK
    <2>3. QED
        BY <1>1, <1>2, <2>1, <2>2 DEF TrackedOf
<1>5. QED
    BY <1>3, <1>4 DEF WaitForServer

(* The other matches, when one goroutine makes its next call. *)
LEMMA OthersTracked ==
    ASSUME TypeInv, StoryInv, TrackedInv, NEW m \in Matches, Allocate(m),
           NEW n \in Matches \ {m}
    PROVE  TrackedOf(n)'
<1>1. Profile(m)
    BY AllocateProfile
<1>2. alloc'[n] = alloc[n] /\ told'[n] = told[n]
    BY <1>1 DEF Profile
<1>3. ASSUME NEW e \in RequestIds, server[e].match = n
      PROVE  tracked'[e] = tracked[e] /\ server'[e].pair = server[e].pair
    <2>1. server[e].state # "none"
        BY <1>3, Constants DEF StoryInv, HostOf
    <2>2. CASE WaitForServer(m)
        <3>1. alloc[m].d \in RequestIds /\ server[alloc[m].d].match = m
            BY <2>2, KnownDeploy, Constants DEF WaitForServer, At, Knows, StoryInv, StoryOf
        <3>2. QED
            BY <1>3, <2>2, <3>1 DEF WaitForServer, TypeInv, RestOK
    <2>3. CASE tracked' = tracked
        BY <2>1, <2>3, AllocateTracks
    <2>4. QED
        BY <2>2, <2>3, AllocateTracks
<1>4. QED
    BY <1>2, <1>3, AllocateTracks, TrackedFrame DEF TrackedInv

LEMMA AllocateTracked ==
    ASSUME TypeInv, StoryInv, TrackedInv, NEW m \in Matches, Allocate(m)
    PROVE  TrackedInv'
<1>1. Profile(m)
    BY AllocateProfile
<1>2. TrackedOf(m)'
    <2>1. CASE WaitForServer(m)
        BY <2>1, WaitTracked
    <2>2. CASE ~WaitForServer(m)
        <3>1. tracked' = tracked /\ (faults' = 0 => faults = 0)
            BY <2>2, AllocateTracks
        <3>2. CASE alloc[m].pc \in {"wait", "poll"}
            <4>1. alloc[m].pc = "poll" => alloc'[m].kind # "local"
                BY <1>1 DEF Profile, StoryInv, StoryOf, OnEdgegap
            <4>2. alloc[m].pc = "wait" => FALSE
                BY <2>2
                DEF Allocate, Checks, AllocatePorts, CreateContainer, StartContainer,
                    UndoStart, Deploy, PollDeploy, StopAttempt, Backoff, Checkpoint, Teardown,
                    MarkSynthetic, WriteMetadata, NotifyReady, Finish, At
            <4>3. QED
                BY <3>2, <4>1, <4>2 DEF TrackedOf
        <3>3. CASE alloc[m].pc \notin {"wait", "poll"}
            <4>1. alloc'[m].pc \in Going \/ told'[m] = "ready" =>
                      /\ alloc'[m].d = alloc[m].d
                      /\ alloc[m].pc \in Going \/ told[m] = "ready"
                BY <1>1, <3>3 DEF Profile
            <4>2. \A e \in RequestIds : server[e].match = m =>
                      tracked'[e] = tracked[e] /\ server'[e].pair = server[e].pair
                BY <3>1, AllocateTracks, Constants DEF StoryInv, HostOf
            <4>3. alloc'[m].kind = alloc[m].kind /\ TrackedOf(m)
                BY <1>1 DEF Profile, TrackedInv
            <4>4. QED
                BY <3>1, <4>1, <4>2, <4>3, TrackedFrame
        <3>4. QED
            BY <3>2, <3>3
    <2>3. QED
        BY <2>1, <2>2
<1>3. \A n \in Matches \ {m} : TrackedOf(n)'
    BY OthersTracked
<1>4. QED
    BY <1>2, <1>3 DEF TrackedInv

LEMMA TrackedStep ==
    ASSUME TypeInv, StoryInv, TrackedInv, [FleetNext]_fleetVars
    PROVE  TrackedInv'
<1>1. ASSUME NEW m \in Matches, NEW us, NEW k, NEW p, Matched(m, us, k, p)
      PROVE  TrackedInv'
    <2>1. /\ UNCHANGED <<tracked, server, told, faults>>
          /\ alloc[m].pc = "idle" /\ alloc'[m].pc = "checks"
          /\ \A n \in Matches \ {m} : alloc'[n] = alloc[n]
        BY <1>1 DEF Matched, At, TypeInv, NoAllocation, portVars
    <2>2. told[m] = "none" /\ "checks" \notin Going
        BY <2>1 DEF StoryInv, StoryOf, Going
    <2>3. QED
        BY <2>1, <2>2 DEF TrackedInv, TrackedOf
<1>2. ASSUME NEW m \in Matches, Allocate(m)
      PROVE  TrackedInv'
    BY <1>2, AllocateTracked
<1>3. CASE (\E u \in Users : Cancel(u)) \/ UNCHANGED fleetVars
    <2>1. UNCHANGED <<alloc, told, tracked, server, faults>>
        BY <1>3 DEF Cancel, fleetVars, portVars
    <2>2. QED
        BY <2>1 DEF TrackedInv, TrackedOf
<1>4. ASSUME NEW d \in RequestIds, RegisterServer(d) \/ ServerExit(d)
      PROVE  TrackedInv'
    <2>1. /\ UNCHANGED <<alloc, told, tracked, faults>>
          /\ server' = InState(d, "up") \/ server' = InState(d, "gone")
        BY <1>4 DEF RegisterServer, ServerExit, portVars
    <2>2. \A e \in RequestIds : server'[e].pair = server[e].pair
        BY <2>1 DEF InState, TypeInv, RestOK, Server
    <2>3. QED
        BY <2>1, <2>2, TrackedFrame DEF TrackedInv
<1>5. CASE Restart
    <2>1. faults' # 0
        BY <1>5, FaultClock DEF Restart
    <2>2. QED
        BY <2>1 DEF TrackedInv, TrackedOf
<1>6. QED
    BY <1>1, <1>2, <1>3, <1>4, <1>5 DEF FleetNext, FleetStep

(* localPortPool and Docker agree: while no call fails and nobody cancels,    *)
(* the host ports of a container that runs are in use in the pool, so that    *)
(* the next container is never given one of them.                             *)
THEOREM BoundPortsHold == FleetSpec => []BoundPortsInUse
<1>1. ASSUME FleetInv, TrackedInv, faults = 0, cancelled = {}, NEW d \in RequestIds,
             Live(d), server[d].kind = "local"
      PROVE  server[d].pair[1] \in udpInUse /\ server[d].pair[2] \in tcpInUse
    <2>1. HostOf(d) /\ TypeInv /\ PortLedger
        BY <1>1 DEF FleetInv, StoryInv, LedgerInv
    <2>2. PICK m \in Matches : m = server[d].match
        BY <1>1, <2>1 DEF HostOf, Live, TypeInv, RestOK, Server
    <2>3. alloc[m].d = d /\ (alloc[m].pc \in Serving \/ told[m] = "ready") /\ StoryOf(m)
        BY <1>1, <2>1, <2>2 DEF HostOf, FleetInv, StoryInv
    <2>4. alloc[m].kind = "local"
        BY <1>1, <2>3, Constants DEF StoryOf
    <2>5. CASE alloc[m].pc \in {"wait", "undo"}
        <3>1. server[d].pair = alloc[m].pair /\ m \in Held
            BY <2>3, <2>5 DEF StoryOf, Owning, Held, Holding
        <3>2. QED
            BY <2>1, <3>1 DEF PortLedger
    <2>6. CASE alloc[m].pc \in Going \/ told[m] = "ready"
        <3>1. tracked[d] = server[d].pair /\ d \in Tracked
            BY <1>1, <2>3, <2>4, <2>6 DEF TrackedInv, TrackedOf, Tracked
        <3>2. QED
            BY <2>1, <3>1 DEF PortLedger
    <2>7. alloc[m].pc \notin {"poll", "stop"}
        BY <2>3, <2>4 DEF StoryOf, OnEdgegap
    <2>8. QED
        BY <2>3, <2>5, <2>6, <2>7 DEF Serving
<1>2. FleetInv /\ TrackedInv => BoundPortsInUse
    BY <1>1 DEF BoundPortsInUse
<1>3. FleetInit => TrackedInv
    BY DEF FleetInit, TrackedInv, TrackedOf, NoAllocation
<1>4. FleetInv /\ TrackedInv /\ [FleetNext]_fleetVars => TrackedInv'
    BY TrackedStep DEF FleetInv
<1>5. QED
    BY <1>2, <1>3, <1>4, FleetInvariant, PTL DEF FleetSpec

=============================================================================
