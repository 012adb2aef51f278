---------------------------- MODULE FleetProofs ----------------------------
(* Theorems about Fleet, for every value of its constants. *)
EXTENDS Fleet, FiniteSetTheorems, TLAPS

-----------------------------------------------------------------------------
(* The port pool finds a free port, and a deploy a new id, where there is one. *)

LEMMA LeastElement ==
    ASSUME NEW n \in Nat, NEW S, S \subseteq 1 .. n, S # {}
    PROVE  \E i \in S : \A j \in S : i <= j
<1> DEFINE Upto(i) == {j \in S : j <= i}
<1> DEFINE T == {Upto(i) : i \in S}
<1> DEFINE R == StrictSubsetOrdering(S)
<1>1. IsFiniteSet(S)
    <2>1. 1 \in Int /\ n \in Int
        OBVIOUS
    <2>2. IsFiniteSet(1 .. n)
        BY <2>1, FS_Interval
    <2>3. S \in SUBSET (1 .. n)
        OBVIOUS
    <2>4. QED
        BY <2>2, <2>3, FS_Subset
<1>2. IsWellFoundedOn(R, SUBSET S)
    BY <1>1, FS_StrictSubsetOrderingWellFounded, FS_FiniteSubsetsOfFinite
<1>3. T \subseteq SUBSET S /\ T # {}
    OBVIOUS
<1>4. PICK X \in T : \A Y \in T : ~ (<<Y, X>> \in R)
    <2> HIDE DEF T, R
    <2>1. QED
        BY <1>2, <1>3, WFMin
<1>5. PICK i \in S : X = Upto(i)
    OBVIOUS
<1>6. ASSUME NEW j \in S, j < i
      PROVE  FALSE
    <2>1. i \in Nat /\ j \in Nat /\ \A k \in S : k \in Nat
        BY <1>6
    <2>2. \A k \in Upto(j) : k \in S /\ k <= i
        BY <1>6, <2>1
    <2>3. i <= i /\ ~ (i <= j)
        BY <1>6, <2>1
    <2>4. Upto(j) \subseteq Upto(i) /\ i \in Upto(i) /\ i \notin Upto(j)
        BY <2>2, <2>3
    <2>5. Upto(j) \subseteq X /\ i \in X /\ i \notin Upto(j)
        <3> HIDE DEF Upto
        <3>1. QED
            BY <1>5, <2>4
    <2>6. <<Upto(j), X>> \in R
        BY <1>3, <2>5 DEF StrictSubsetOrdering
    <2>7. QED
        BY <1>4, <2>6
<1>7. \A k \in S : k \in Nat
    OBVIOUS
<1>8. QED
    BY <1>6, <1>7

LEMMA FirstFreeIsFree ==
    ASSUME NEW hi \in Nat, NEW inUse, (1 .. hi) \ inUse # {}
    PROVE  FirstFree(hi, inUse) \in (1 .. hi) \ inUse
<1> DEFINE free == (1 .. hi) \ inUse
<1>1. free \subseteq 1 .. hi /\ free # {}
    OBVIOUS
<1>2. \E i \in free : \A j \in free : i <= j
    BY <1>1, LeastElement
<1>3. QED
    BY <1>2 DEF FirstFree

LEMMA FreePairIsFree ==
    ASSUME HasFreePair
    PROVE  /\ FreePair \in Pairs
           /\ FreePair[1] \notin udpInUse
           /\ FreePair[2] \notin tcpInUse
<1>1. NUdp \in Nat /\ NTcp \in Nat
    BY FleetAssumption DEF FleetAssumption
<1>2. FirstFree(NUdp, udpInUse) \in (1 .. NUdp) \ udpInUse
    BY <1>1, FirstFreeIsFree DEF HasFreePair
<1>3. FirstFree(NTcp, tcpInUse) \in (1 .. NTcp) \ tcpInUse
    BY <1>1, FirstFreeIsFree DEF HasFreePair
<1>4. QED
    BY <1>2, <1>3 DEF FreePair, Pairs

LEMMA NewIdIsFresh ==
    ASSUME Fresh # {}
    PROVE  NewId \in RequestIds /\ server[NewId].state = "none"
<1>1. MaxRequests \in Nat /\ Fresh \subseteq 1 .. MaxRequests
    BY FleetAssumption DEF FleetAssumption, Fresh, RequestIds
<1>2. \E d \in Fresh : \A e \in Fresh : d <= e
    BY <1>1, LeastElement
<1>3. NewId \in Fresh
    BY <1>2 DEF NewId
<1>4. QED
    BY <1>3 DEF Fresh

-----------------------------------------------------------------------------
(* FleetTypeOK alone is not inductive: a goroutine that holds a pair, that  *)
(* knows its deploy, or that may try again must be known to do so.           *)

Holds == {"create", "start", "wait", "undo"}

Knows == {"start", "wait", "undo", "poll", "checkpoint", "teardown", "mark", "meta"}

Tries == {"checks", "deploy", "backoff"}

Free == Labels \ (Holds \cup Knows \cup Tries)

Sound == {r \in Allocation : /\ r.pc \in Holds => r.pair \in Pairs
                             /\ r.pc \in Knows => r.d \in RequestIds
                             /\ r.pc \in Tries => r.try < MaxAttempts}

RestOK ==
    /\ cancelled \subseteq Matches
    /\ inflight \in [Users -> Matches \cup {None}]
    /\ udpInUse \subseteq 1 .. NUdp
    /\ tcpInUse \subseteq 1 .. NTcp
    /\ tracked \in [RequestIds -> Pairs \cup {NoPorts}]
    /\ gauge \in [Kinds -> Nat]
    /\ registered \subseteq RequestIds
    /\ meta \in [RequestIds -> Kinds \cup {"none"}]
    /\ marked \subseteq RequestIds
    /\ server \in [RequestIds -> Server]
    /\ told \in [Matches -> Outcomes]
    /\ faults \in 0 .. MaxFaults

TypeInv == alloc \in [Matches -> Sound] /\ RestOK

LEMMA Constants ==
    /\ MaxMatches \in Nat /\ MaxRequests \in Nat /\ MaxFaults \in Nat
    /\ MaxAttempts \in Nat /\ MaxAttempts > 0
    /\ Matches \subseteq Nat /\ RequestIds \subseteq Nat /\ 0 \notin RequestIds
    /\ None \notin Matches /\ Backends \subseteq Kinds
    /\ Rosters \subseteq SUBSET Users
BY FleetAssumption DEF FleetAssumption, Matches, RequestIds

LEMMA SoundIsAllocation == Sound \subseteq Allocation
BY DEF Sound

(* A goroutine goes on to a place that asks nothing of its record. *)
LEMMA FreeType ==
    ASSUME NEW r \in Allocation, NEW pc \in Free
    PROVE  [r EXCEPT !.pc = pc] \in Sound
<1> DEFINE s == [r EXCEPT !.pc = pc]
<1>1. s \in Allocation /\ s.pc = pc
    BY DEF Allocation, Free
<1>2. QED
    BY <1>1 DEF Sound, Free

(* A goroutine that knows its deploy, and its pair, goes on knowing them. *)
LEMMA KnowsType ==
    ASSUME NEW r \in Sound, r.pc \in Knows, NEW pc \in Knows,
           pc \in Holds => r.pc \in Holds
    PROVE  [r EXCEPT !.pc = pc] \in Sound
<1> DEFINE s == [r EXCEPT !.pc = pc]
<1>1. Knows \subseteq Labels /\ pc \notin Tries
    BY DEF Knows, Labels, Tries
<1>2. s \in Allocation /\ s.pc = pc /\ s.d = r.d /\ s.pair = r.pair
    BY <1>1 DEF Sound, Allocation
<1>3. QED
    BY <1>1, <1>2 DEF Sound

(* A goroutine that may try again goes on with its attempts. *)
LEMMA TriesType ==
    ASSUME NEW r \in Sound, r.pc \in Tries, NEW pc \in Tries
    PROVE  [r EXCEPT !.pc = pc] \in Sound
<1> DEFINE s == [r EXCEPT !.pc = pc]
<1>1. Tries \subseteq Labels /\ pc \notin Knows /\ pc \notin Holds
    BY DEF Knows, Labels, Tries, Holds
<1>2. s \in Allocation /\ s.pc = pc /\ s.try = r.try
    BY <1>1 DEF Sound, Allocation
<1>3. QED
    BY <1>1, <1>2 DEF Sound

LEMMA GotoType ==
    ASSUME NEW m \in Matches, alloc \in [Matches -> Sound], NEW pc,
           Goto(m, pc), [alloc[m] EXCEPT !.pc = pc] \in Sound
    PROVE  alloc' \in [Matches -> Sound]
BY DEF Goto

LEMMA TellType ==
    ASSUME NEW m \in Matches, TypeInv, NEW o \in Outcomes, Tell(m, o)
    PROVE  alloc' \in [Matches -> Sound] /\ told' \in [Matches -> Outcomes]
<1>1. "finish" \in Free
    BY DEF Free, Labels, Holds, Knows, Tries
<1>2. [alloc[m] EXCEPT !.pc = "finish"] \in Sound
    BY <1>1, FreeType, SoundIsAllocation DEF TypeInv
<1>3. alloc' \in [Matches -> Sound]
    BY <1>2, GotoType DEF TypeInv, Tell
<1>4. QED
    BY <1>3 DEF TypeInv, RestOK, Tell

LEMMA GiveUpType ==
    ASSUME NEW m \in Matches, TypeInv, GiveUp(m)
    PROVE  alloc' \in [Matches -> Sound] /\ told' \in [Matches -> Outcomes]
<1>1. {"cancelled", "failed"} \subseteq Outcomes
    BY DEF Outcomes
<1>2. QED
    BY <1>1, TellType DEF GiveUp

LEMMA FaultType ==
    ASSUME RestOK, NEW what, Fault(what)
    PROVE  faults' \in 0 .. MaxFaults
BY Constants DEF RestOK, Fault

LEMMA CallFailsType ==
    ASSUME RestOK, NEW m, CallFails(m)
    PROVE  faults' \in 0 .. MaxFaults
BY FaultType DEF CallFails, RestOK

LEMMA ReleaseType ==
    ASSUME RestOK, NEW pair, Release(pair)
    PROVE  udpInUse' \subseteq 1 .. NUdp /\ tcpInUse' \subseteq 1 .. NTcp
BY DEF RestOK, Release

LEMMA InStateType ==
    ASSUME RestOK, NEW d \in RequestIds, NEW s \in ServerStates
    PROVE  InState(d, s) \in [RequestIds -> Server]
<1>1. [server[d] EXCEPT !.state = s] \in Server
    BY DEF RestOK, Server
<1>2. QED
    BY <1>1 DEF RestOK, InState

LEMMA StoppedType ==
    ASSUME RestOK, NEW d \in RequestIds
    PROVE  Stopped(d) \in [RequestIds -> Server]
<1>1. "gone" \in ServerStates
    BY DEF ServerStates
<1>2. QED
    BY <1>1, InStateType DEF Stopped, RestOK

-----------------------------------------------------------------------------
(* Every action keeps the types. *)

LEMMA MatchedType ==
    ASSUME NEW m \in Matches, NEW us \in Rosters, NEW kind \in Kinds,
           NEW probe \in BOOLEAN, TypeInv, Matched(m, us, kind, probe)
    PROVE  TypeInv'
<1> DEFINE r == [NoAllocation EXCEPT !.pc = "checks", !.users = us, !.kind = kind,
                                     !.probe = probe]
<1>1. us \subseteq Users
    BY Constants
<1>2. NoAllocation \in Allocation
    BY <1>1, Constants DEF NoAllocation, Allocation, Labels, Kinds, NoPorts
<1>3. "checks" \in Labels /\ "checks" \in Tries /\ "checks" \notin Knows \cup Holds
    BY DEF Labels, Tries, Knows, Holds
<1>4. r \in Allocation /\ r.pc = "checks" /\ r.try = 0
    BY <1>1, <1>2, <1>3 DEF Allocation, NoAllocation
<1>5. r \in Sound
    BY <1>3, <1>4, Constants DEF Sound
<1>6. alloc' \in [Matches -> Sound]
    BY <1>5 DEF TypeInv, Matched
<1>7. RestOK'
    BY DEF TypeInv, RestOK, Matched, portVars, matchRows
<1>8. QED
    BY <1>6, <1>7 DEF TypeInv

LEMMA CancelType ==
    ASSUME NEW u \in Users, TypeInv, Cancel(u)
    PROVE  TypeInv'
<1>1. inflight[u] \in Matches
    BY DEF TypeInv, RestOK, Cancel
<1>2. RestOK'
    BY <1>1 DEF TypeInv, RestOK, Cancel, portVars, matchRows
<1>3. QED
    BY <1>2 DEF TypeInv, Cancel

LEMMA ChecksType ==
    ASSUME NEW m \in Matches, TypeInv, Checks(m)
    PROVE  TypeInv'
<1>1. "deploy" \in Tries /\ "port" \in Free /\ "checks" \in Tries /\ "failed" \in Outcomes
    BY DEF Free, Labels, Holds, Knows, Tries, Outcomes
<1>2. alloc[m] \in Sound /\ alloc[m].pc = "checks"
    BY DEF TypeInv, Checks, At
<1>3. [alloc[m] EXCEPT !.pc = "port"] \in Sound
    BY <1>1, <1>2, FreeType, SoundIsAllocation
<1>4. [alloc[m] EXCEPT !.pc = "deploy"] \in Sound
    BY <1>1, <1>2, TriesType
<1>5. alloc' \in [Matches -> Sound] /\ told' \in [Matches -> Outcomes]
    <2>1. CASE Tell(m, "failed")
        BY <2>1, <1>1, TellType
    <2>2. CASE /\ Goto(m, IF alloc[m].kind = "local" THEN "port" ELSE "deploy")
               /\ UNCHANGED told
        BY <2>2, <1>3, <1>4, GotoType DEF TypeInv, RestOK
    <2>3. QED
        BY <2>1, <2>2 DEF Checks
<1>6. RestOK'
    BY <1>5 DEF TypeInv, RestOK, Checks, portVars, matchRows
<1>7. QED
    BY <1>5, <1>6 DEF TypeInv

LEMMA AllocatePortsType ==
    ASSUME NEW m \in Matches, TypeInv, AllocatePorts(m)
    PROVE  TypeInv'
<1> DEFINE r == [alloc[m] EXCEPT !.pc = "create", !.pair = FreePair]
<1>1. CASE /\ HasFreePair
           /\ udpInUse' = udpInUse \cup {FreePair[1]}
           /\ tcpInUse' = tcpInUse \cup {FreePair[2]}
           /\ alloc' = [alloc EXCEPT ![m].pc = "create", ![m].pair = FreePair]
           /\ UNCHANGED told
    <2>1. FreePair \in Pairs
        BY <1>1, FreePairIsFree
    <2>2. "create" \in Labels /\ "create" \notin Knows \cup Tries
        BY DEF Labels, Knows, Tries
    <2>3. r \in Allocation /\ r.pc = "create" /\ r.pair = FreePair
        BY <2>1, <2>2 DEF TypeInv, Sound, Allocation
    <2>4. r \in Sound
        BY <2>1, <2>2, <2>3 DEF Sound
    <2>5. alloc' \in [Matches -> Sound]
        BY <1>1, <2>4 DEF TypeInv
    <2>6. udpInUse' \subseteq 1 .. NUdp /\ tcpInUse' \subseteq 1 .. NTcp
        BY <1>1, <2>1 DEF TypeInv, RestOK, Pairs
    <2>7. RestOK'
        BY <1>1, <2>6 DEF TypeInv, RestOK, AllocatePorts, matchRows
    <2>8. QED
        BY <2>5, <2>7 DEF TypeInv
<1>2. CASE ~HasFreePair /\ GiveUp(m) /\ UNCHANGED <<udpInUse, tcpInUse>>
    <2>1. alloc' \in [Matches -> Sound] /\ told' \in [Matches -> Outcomes]
        BY <1>2, GiveUpType
    <2>2. RestOK'
        BY <1>2, <2>1 DEF TypeInv, RestOK, AllocatePorts, matchRows
    <2>3. QED
        BY <2>1, <2>2 DEF TypeInv
<1>3. QED
    BY <1>1, <1>2 DEF AllocatePorts

LEMMA CreateContainerType ==
    ASSUME NEW m \in Matches, TypeInv, CreateContainer(m)
    PROVE  TypeInv'
<1> DEFINE c == [state |-> "created", kind |-> "local", match |-> m, pair |-> alloc[m].pair]
<1> DEFINE r == [alloc[m] EXCEPT !.pc = "start", !.d = NewId]
<1>0. alloc[m] \in Sound /\ alloc[m].pc = "create"
    BY DEF TypeInv, CreateContainer, At
<1>1. alloc[m] \in Allocation /\ alloc[m].pair \in Pairs
    BY <1>0 DEF Sound, Holds
<1>2. CASE /\ m \notin cancelled /\ Fresh # {}
           /\ server' = [server EXCEPT ![NewId] = c]
           /\ alloc' = [alloc EXCEPT ![m].pc = "start", ![m].d = NewId]
           /\ UNCHANGED <<udpInUse, tcpInUse, told, faults>>
    <2>1. NewId \in RequestIds
        BY <1>2, NewIdIsFresh
    <2>2. "start" \in Labels /\ "start" \notin Tries
        BY DEF Labels, Tries
    <2>3. r \in Allocation /\ r.pc = "start" /\ r.d = NewId /\ r.pair = alloc[m].pair
        BY <1>1, <2>1, <2>2 DEF Allocation
    <2>4. r \in Sound
        BY <1>1, <2>1, <2>2, <2>3 DEF Sound
    <2>5. alloc' \in [Matches -> Sound]
        BY <1>2, <2>4 DEF TypeInv
    <2>6. c \in Server
        BY <1>1 DEF Server, ServerStates, Kinds
    <2>7. server' \in [RequestIds -> Server]
        BY <1>2, <2>1, <2>6 DEF TypeInv, RestOK
    <2>8. RestOK'
        BY <1>2, <2>7 DEF TypeInv, RestOK, CreateContainer, matchRows
    <2>9. QED
        BY <2>5, <2>8 DEF TypeInv
<1>3. CASE CallFails(m) /\ Release(alloc[m].pair) /\ GiveUp(m) /\ UNCHANGED server
    <2>1. alloc' \in [Matches -> Sound] /\ told' \in [Matches -> Outcomes]
        BY <1>3, GiveUpType
    <2>2. udpInUse' \subseteq 1 .. NUdp /\ tcpInUse' \subseteq 1 .. NTcp
        BY <1>3, ReleaseType DEF TypeInv
    <2>3. faults' \in 0 .. MaxFaults
        BY <1>3, CallFailsType DEF TypeInv
    <2>4. RestOK'
        BY <1>3, <2>1, <2>2, <2>3 DEF TypeInv, RestOK, CreateContainer, matchRows
    <2>5. QED
        BY <2>1, <2>4 DEF TypeInv
<1>4. QED
    BY <1>2, <1>3 DEF CreateContainer

LEMMA StartContainerType ==
    ASSUME NEW m \in Matches, TypeInv, StartContainer(m)
    PROVE  TypeInv'
<1> DEFINE d == alloc[m].d
<1>1. alloc[m] \in Sound /\ alloc[m].pc = "start"
    BY DEF TypeInv, StartContainer, At
<1>2. {"start", "wait", "undo"} \subseteq Knows \cap Holds /\ "booting" \in ServerStates
    BY DEF Knows, Holds, ServerStates
<1>3. d \in RequestIds
    BY <1>1, <1>2 DEF Sound
<1>4. [alloc[m] EXCEPT !.pc = "wait"] \in Sound /\ [alloc[m] EXCEPT !.pc = "undo"] \in Sound
    BY <1>1, <1>2, KnowsType
<1>5. Goto(m, "wait") \/ Goto(m, "undo")
    BY DEF StartContainer
<1>6. alloc' \in [Matches -> Sound]
    BY <1>4, <1>5, GotoType DEF TypeInv
<1>7. server' \in [RequestIds -> Server]
    BY <1>2, <1>3, InStateType DEF TypeInv, RestOK, StartContainer
<1>8. faults' \in 0 .. MaxFaults
    BY CallFailsType DEF TypeInv, RestOK, StartContainer
<1>9. RestOK'
    BY <1>7, <1>8 DEF TypeInv, RestOK, StartContainer, portVars, matchRows
<1>10. QED
    BY <1>6, <1>9 DEF TypeInv

LEMMA WaitForServerType ==
    ASSUME NEW m \in Matches, TypeInv, WaitForServer(m)
    PROVE  TypeInv'
<1> DEFINE d == alloc[m].d
<1>1. alloc[m] \in Sound /\ alloc[m].pc = "wait"
    BY DEF TypeInv, WaitForServer, At
<1>2. {"wait", "undo"} \subseteq Knows \cap Holds /\ "checkpoint" \in Knows \ Holds
    BY DEF Knows, Holds
<1>3. d \in RequestIds /\ alloc[m].pair \in Pairs
    BY <1>1, <1>2 DEF Sound
<1>4. /\ [alloc[m] EXCEPT !.pc = "checkpoint"] \in Sound
      /\ [alloc[m] EXCEPT !.pc = "undo"] \in Sound
    BY <1>1, <1>2, KnowsType
<1>5. Goto(m, "checkpoint") \/ Goto(m, "undo")
    BY DEF WaitForServer
<1>6. alloc' \in [Matches -> Sound]
    BY <1>4, <1>5, GotoType DEF TypeInv
<1>7. tracked' \in [RequestIds -> Pairs \cup {NoPorts}]
    BY <1>3 DEF TypeInv, RestOK, WaitForServer
<1>8. RestOK'
    BY <1>7 DEF TypeInv, RestOK, WaitForServer, matchRows
<1>9. QED
    BY <1>6, <1>8 DEF TypeInv

LEMMA UndoStartType ==
    ASSUME NEW m \in Matches, TypeInv, UndoStart(m)
    PROVE  TypeInv'
<1>1. alloc[m].d \in RequestIds
    BY DEF TypeInv, Sound, Knows, UndoStart, At
<1>2. alloc' \in [Matches -> Sound] /\ told' \in [Matches -> Outcomes]
    BY GiveUpType DEF UndoStart
<1>3. udpInUse' \subseteq 1 .. NUdp /\ tcpInUse' \subseteq 1 .. NTcp
    BY ReleaseType DEF TypeInv, UndoStart
<1>4. server' \in [RequestIds -> Server]
    BY <1>1, StoppedType DEF TypeInv, RestOK, UndoStart
<1>5. faults' \in 0 .. MaxFaults
    BY CallFailsType DEF TypeInv, RestOK, UndoStart
<1>6. RestOK'
    BY <1>2, <1>3, <1>4, <1>5 DEF TypeInv, RestOK, UndoStart, matchRows
<1>7. QED
    BY <1>2, <1>6 DEF TypeInv

LEMMA AfterAttemptType ==
    ASSUME NEW m \in Matches, TypeInv, alloc[m].pc = "stop", AfterAttempt(m)
    PROVE  alloc' \in [Matches -> Sound] /\ told' \in [Matches -> Outcomes]
<1> DEFINE r == [alloc[m] EXCEPT !.pc = "backoff"]
<1>1. CASE m \in cancelled \/ alloc[m].try = MaxAttempts
    BY <1>1, GiveUpType DEF AfterAttempt
<1>2. CASE ~(m \in cancelled \/ alloc[m].try = MaxAttempts)
    <2>1. alloc[m] \in Allocation
        BY SoundIsAllocation DEF TypeInv
    <2>2. alloc[m].try < MaxAttempts
        BY <1>2, <2>1, Constants DEF Allocation
    <2>3. "backoff" \in Labels /\ "backoff" \notin Holds \cup Knows
        BY DEF Labels, Holds, Knows
    <2>4. r \in Allocation /\ r.pc = "backoff" /\ r.try = alloc[m].try
        BY <2>1, <2>3 DEF Allocation
    <2>5. r \in Sound
        BY <2>2, <2>3, <2>4 DEF Sound
    <2>6. Goto(m, "backoff") /\ UNCHANGED told
        BY <1>2 DEF AfterAttempt
    <2>7. QED
        BY <2>5, <2>6, GotoType DEF TypeInv, RestOK
<1>3. QED
    BY <1>1, <1>2

LEMMA DeployType ==
    ASSUME NEW m \in Matches, TypeInv, Deploy(m)
    PROVE  TypeInv'
<1> DEFINE c == [state |-> "booting", kind |-> "edgegap", match |-> m, pair |-> NoPorts]
<1> DEFINE deployed == [server EXCEPT ![NewId] = c]
<1> DEFINE r == [alloc[m] EXCEPT !.pc = "poll", !.d = NewId, !.try = @ + 1]
<1> DEFINE s == [alloc[m] EXCEPT !.pc = "stop", !.d = 0, !.try = @ + 1]
<1>1. alloc[m] \in Allocation /\ alloc[m].try < MaxAttempts
    BY DEF TypeInv, Sound, Tries, Deploy, At
<1>2. alloc[m].try + 1 \in 0 .. MaxAttempts
    BY <1>1, Constants DEF Allocation
<1>3. NewId \in RequestIds
    BY NewIdIsFresh DEF Deploy
<1>4. {"poll", "stop"} \subseteq Labels /\ "poll" \notin Tries \cup Holds
    BY DEF Labels, Tries, Holds
<1>5. "stop" \notin Tries \cup Holds \cup Knows
    BY DEF Tries, Holds, Knows
<1>6. r \in Sound
    <2>1. r \in Allocation /\ r.pc = "poll" /\ r.d = NewId
        BY <1>1, <1>2, <1>3, <1>4 DEF Allocation
    <2>2. QED
        BY <1>3, <1>4, <2>1 DEF Sound
<1>7. s \in Sound
    <2>1. s \in Allocation /\ s.pc = "stop"
        BY <1>1, <1>2, <1>4 DEF Allocation
    <2>2. QED
        BY <1>5, <2>1 DEF Sound
<1>8. alloc' = [alloc EXCEPT ![m] = r] \/ alloc' = [alloc EXCEPT ![m] = s]
    BY DEF Deploy, TypeInv
<1>9. alloc' \in [Matches -> Sound]
    BY <1>6, <1>7, <1>8 DEF TypeInv
<1>10. c \in Server
    BY DEF Server, ServerStates, Kinds
<1>11. deployed \in [RequestIds -> Server]
    BY <1>3, <1>10 DEF TypeInv, RestOK
<1>12. server' \in [RequestIds -> Server]
    BY <1>11 DEF TypeInv, RestOK, Deploy
<1>13. faults' \in 0 .. MaxFaults
    BY CallFailsType DEF TypeInv, RestOK, Deploy
<1>14. RestOK'
    BY <1>12, <1>13 DEF TypeInv, RestOK, Deploy, portVars, matchRows
<1>15. QED
    BY <1>9, <1>14 DEF TypeInv

LEMMA PollDeployType ==
    ASSUME NEW m \in Matches, TypeInv, PollDeploy(m)
    PROVE  TypeInv'
<1>1. alloc[m] \in Sound /\ alloc[m].pc = "poll"
    BY DEF TypeInv, PollDeploy, At
<1>2. "poll" \in Knows /\ "checkpoint" \in Knows \ Holds /\ "stop" \in Free
    BY DEF Free, Labels, Holds, Knows, Tries
<1>3. [alloc[m] EXCEPT !.pc = "checkpoint"] \in Sound
    BY <1>1, <1>2, KnowsType
<1>4. [alloc[m] EXCEPT !.pc = "stop"] \in Sound
    BY <1>1, <1>2, FreeType, SoundIsAllocation
<1>5. alloc' \in [Matches -> Sound]
    BY <1>3, <1>4, GotoType DEF TypeInv, PollDeploy
<1>6. RestOK'
    BY DEF TypeInv, RestOK, PollDeploy, portVars, matchRows
<1>7. QED
    BY <1>5, <1>6 DEF TypeInv

LEMMA StopAttemptType ==
    ASSUME NEW m \in Matches, TypeInv, StopAttempt(m)
    PROVE  TypeInv'
<1> DEFINE d == alloc[m].d
<1>1. alloc[m] \in Allocation /\ alloc[m].pc = "stop"
    BY SoundIsAllocation DEF TypeInv, StopAttempt, At
<1>2. d \in RequestIds \cup {0}
    BY <1>1 DEF Allocation
<1>3. server' \in [RequestIds -> Server]
    BY <1>2, StoppedType DEF TypeInv, RestOK, StopAttempt
<1>4. faults' \in 0 .. MaxFaults
    BY CallFailsType DEF TypeInv, RestOK, StopAttempt
<1>5. alloc' \in [Matches -> Sound] /\ told' \in [Matches -> Outcomes]
    BY <1>1, AfterAttemptType DEF StopAttempt
<1>6. RestOK'
    BY <1>3, <1>4, <1>5 DEF TypeInv, RestOK, StopAttempt, portVars, matchRows
<1>7. QED
    BY <1>5, <1>6 DEF TypeInv

LEMMA BackoffType ==
    ASSUME NEW m \in Matches, TypeInv, Backoff(m)
    PROVE  TypeInv'
<1>1. alloc[m] \in Sound /\ alloc[m].pc = "backoff"
    BY DEF TypeInv, Backoff, At
<1>2. {"backoff", "deploy"} \subseteq Tries
    BY DEF Tries
<1>3. [alloc[m] EXCEPT !.pc = "deploy"] \in Sound
    BY <1>1, <1>2, TriesType
<1>4. alloc' \in [Matches -> Sound] /\ told' \in [Matches -> Outcomes]
    BY <1>3, GotoType, GiveUpType DEF TypeInv, RestOK, Backoff
<1>5. RestOK'
    BY <1>4 DEF TypeInv, RestOK, Backoff, portVars, matchRows
<1>6. QED
    BY <1>4, <1>5 DEF TypeInv

LEMMA CheckpointType ==
    ASSUME NEW m \in Matches, TypeInv, Checkpoint(m)
    PROVE  TypeInv'
<1>1. alloc[m] \in Sound /\ alloc[m].pc = "checkpoint"
    BY DEF TypeInv, Checkpoint, At
<1>2. {"checkpoint", "teardown", "mark", "meta"} \subseteq Knows \ Holds
    BY DEF Knows, Holds
<1>3. \A pc \in {"teardown", "mark", "meta"} : [alloc[m] EXCEPT !.pc = pc] \in Sound
    BY <1>1, <1>2, KnowsType
<1>4. alloc' \in [Matches -> Sound]
    BY <1>3, GotoType DEF TypeInv, Checkpoint
<1>5. alloc[m].kind \in Kinds
    BY <1>1 DEF Sound, Allocation
<1>6. gauge' \in [Kinds -> Nat]
    BY <1>5 DEF TypeInv, RestOK, Checkpoint, RecordStart
<1>7. RestOK'
    BY <1>6 DEF TypeInv, RestOK, Checkpoint, portVars, matchRows
<1>8. QED
    BY <1>4, <1>7 DEF TypeInv

LEMMA TeardownType ==
    ASSUME NEW m \in Matches, TypeInv, Teardown(m)
    PROVE  TypeInv'
<1>1. alloc[m].d \in RequestIds
    BY DEF TypeInv, Sound, Knows, Teardown, At
<1>2. "cancelled" \in Outcomes
    BY DEF Outcomes
<1>3. alloc' \in [Matches -> Sound] /\ told' \in [Matches -> Outcomes]
    BY <1>2, TellType DEF Teardown
<1>4. server' \in [RequestIds -> Server]
    BY <1>1, StoppedType DEF TypeInv, RestOK, Teardown
<1>5. faults' \in 0 .. MaxFaults
    BY FaultType DEF TypeInv, RestOK, Teardown
<1>6. RestOK'
    BY <1>3, <1>4, <1>5 DEF TypeInv, RestOK, Teardown, portVars, matchRows
<1>7. QED
    BY <1>3, <1>6 DEF TypeInv

LEMMA MarkSyntheticType ==
    ASSUME NEW m \in Matches, TypeInv, MarkSynthetic(m)
    PROVE  TypeInv'
<1>1. alloc[m] \in Sound /\ alloc[m].pc = "mark"
    BY DEF TypeInv, MarkSynthetic, At
<1>2. "mark" \in Knows /\ "meta" \in Knows \ Holds
    BY DEF Knows, Holds
<1>3. [alloc[m] EXCEPT !.pc = "meta"] \in Sound /\ alloc[m].d \in RequestIds
    BY <1>1, <1>2, KnowsType DEF Sound
<1>4. alloc' \in [Matches -> Sound]
    BY <1>3, GotoType DEF TypeInv, MarkSynthetic
<1>5. faults' \in 0 .. MaxFaults
    BY FaultType DEF TypeInv, RestOK, MarkSynthetic
<1>6. RestOK'
    BY <1>3, <1>5 DEF TypeInv, RestOK, MarkSynthetic, portVars
<1>7. QED
    BY <1>4, <1>6 DEF TypeInv

LEMMA WriteMetadataType ==
    ASSUME NEW m \in Matches, TypeInv, WriteMetadata(m)
    PROVE  TypeInv'
<1>1. alloc[m] \in Sound /\ alloc[m].pc = "meta"
    BY DEF TypeInv, WriteMetadata, At
<1>2. "meta" \in Knows /\ "notify" \in Free
    BY DEF Free, Labels, Holds, Knows, Tries
<1>3. alloc[m].d \in RequestIds /\ alloc[m].kind \in Kinds
    BY <1>1, <1>2 DEF Sound, Allocation
<1>4. [alloc[m] EXCEPT !.pc = "notify"] \in Sound
    BY <1>1, <1>2, FreeType, SoundIsAllocation
<1>5. alloc' \in [Matches -> Sound]
    BY <1>4, GotoType DEF TypeInv, WriteMetadata
<1>6. faults' \in 0 .. MaxFaults
    BY FaultType DEF TypeInv, RestOK, WriteMetadata
<1>7. RestOK'
    BY <1>3, <1>6 DEF TypeInv, RestOK, WriteMetadata, portVars
<1>8. QED
    BY <1>5, <1>7 DEF TypeInv

LEMMA NotifyReadyType ==
    ASSUME NEW m \in Matches, TypeInv, NotifyReady(m)
    PROVE  TypeInv'
<1>1. "ready" \in Outcomes
    BY DEF Outcomes
<1>2. alloc' \in [Matches -> Sound] /\ told' \in [Matches -> Outcomes]
    BY <1>1, TellType DEF NotifyReady
<1>3. RestOK'
    BY <1>2 DEF TypeInv, RestOK, NotifyReady, portVars, matchRows
<1>4. QED
    BY <1>2, <1>3 DEF TypeInv

LEMMA FinishType ==
    ASSUME NEW m \in Matches, TypeInv, Finish(m)
    PROVE  TypeInv'
<1>1. "done" \in Free
    BY DEF Free, Labels, Holds, Knows, Tries
<1>2. [alloc[m] EXCEPT !.pc = "done"] \in Sound
    BY <1>1, FreeType, SoundIsAllocation DEF TypeInv
<1>3. alloc' \in [Matches -> Sound]
    BY <1>2, GotoType DEF TypeInv, Finish
<1>4. RestOK'
    BY DEF TypeInv, RestOK, Finish, portVars, matchRows
<1>5. QED
    BY <1>3, <1>4 DEF TypeInv

LEMMA RegisterServerType ==
    ASSUME NEW d \in RequestIds, TypeInv, RegisterServer(d)
    PROVE  TypeInv'
<1>1. server' \in [RequestIds -> Server]
    BY InStateType DEF TypeInv, RegisterServer, ServerStates
<1>2. RestOK'
    BY <1>1 DEF TypeInv, RestOK, RegisterServer, portVars
<1>3. QED
    BY <1>2 DEF TypeInv, RegisterServer

LEMMA ServerExitType ==
    ASSUME NEW d \in RequestIds, TypeInv, ServerExit(d)
    PROVE  TypeInv'
<1>1. server' \in [RequestIds -> Server]
    BY InStateType DEF TypeInv, ServerExit, ServerStates
<1>2. RestOK'
    BY <1>1 DEF TypeInv, RestOK, ServerExit, portVars, matchRows
<1>3. QED
    BY <1>2 DEF TypeInv, ServerExit

LEMMA RestartType ==
    ASSUME TypeInv, Restart
    PROVE  TypeInv'
<1>1. "lost" \in Free
    BY DEF Free, Labels, Holds, Knows, Tries
<1>2. \A m \in Matches : [alloc[m] EXCEPT !.pc = "lost"] \in Sound
    BY <1>1, FreeType, SoundIsAllocation DEF TypeInv
<1>3. alloc' \in [Matches -> Sound]
    BY <1>2 DEF TypeInv, Restart
<1>4. faults' \in 0 .. MaxFaults
    BY FaultType DEF TypeInv, Restart
<1>5. RestOK'
    BY <1>4 DEF TypeInv, RestOK, Restart, matchRows
<1>6. QED
    BY <1>3, <1>5 DEF TypeInv

LEMMA FleetInitType ==
    ASSUME FleetInit
    PROVE  TypeInv
<1>1. "idle" \in Free
    BY DEF Free, Labels, Holds, Knows, Tries
<1>2. NoAllocation \in Allocation /\ NoAllocation.pc = "idle"
    BY Constants DEF NoAllocation, Allocation, Labels, Kinds, NoPorts
<1>3. NoAllocation \in Sound
    BY <1>1, <1>2 DEF Sound, Free
<1>4. NoServer \in Server
    BY DEF NoServer, Server, ServerStates, Kinds
<1>5. RestOK
    BY <1>4, Constants DEF FleetInit, RestOK, Outcomes
<1>6. QED
    BY <1>3, <1>5 DEF FleetInit, TypeInv

LEMMA TypeStep ==
    ASSUME TypeInv, [FleetNext]_fleetVars
    PROVE  TypeInv'
<1>1. ASSUME NEW m \in Matches, NEW us \in Rosters, NEW k \in Backends, NEW p \in Probes,
             Matched(m, us, k, p)
      PROVE  TypeInv'
    <2>1. k \in Kinds /\ p \in BOOLEAN
        BY FleetAssumption DEF FleetAssumption
    <2>2. QED
        BY <1>1, <2>1, MatchedType
<1>2. ASSUME NEW m \in Matches, Allocate(m)
      PROVE  TypeInv'
    BY <1>2, ChecksType, AllocatePortsType, CreateContainerType, StartContainerType,
       WaitForServerType, UndoStartType, DeployType, PollDeployType, StopAttemptType,
       BackoffType, CheckpointType, TeardownType, MarkSyntheticType, WriteMetadataType,
       NotifyReadyType, FinishType DEF Allocate
<1>3. ASSUME NEW u \in Users, Cancel(u)
      PROVE  TypeInv'
    BY <1>3, CancelType
<1>4. ASSUME NEW d \in RequestIds, RegisterServer(d) \/ ServerExit(d)
      PROVE  TypeInv'
    BY <1>4, RegisterServerType, ServerExitType
<1>5. CASE Restart
    BY <1>5, RestartType
<1>6. CASE UNCHANGED fleetVars
    BY <1>6 DEF TypeInv, RestOK, fleetVars
<1>7. QED
    BY <1>1, <1>2, <1>3, <1>4, <1>5, <1>6 DEF FleetNext, FleetStep

(* Every reachable state is well typed, whatever the number of players,      *)
(* matches, ports and attempts: runAllocation never uses a deploy or a port  *)
(* pair it has not got, nor tries more often than maxAllocationAttempts.     *)
THEOREM FleetTypeCorrect == FleetSpec => []FleetTypeOK
<1>1. FleetInit => TypeInv
    BY FleetInitType
<1>2. TypeInv /\ [FleetNext]_fleetVars => TypeInv'
    BY TypeStep
<1>3. TypeInv => FleetTypeOK
    BY SoundIsAllocation DEF TypeInv, RestOK, FleetTypeOK
<1>4. QED
    BY <1>1, <1>2, <1>3, PTL DEF FleetSpec

-----------------------------------------------------------------------------
(* The ledger of the ports.  A goroutine that has created its container is   *)
(* its only owner until it hands the pair to trackPorts, and no pair is      *)
(* tracked for a request id that was never used.                             *)

Owning == {"start", "wait", "undo"}

OwnerOK ==
    /\ \A m \in Matches : alloc[m].pc \in Owning =>
          /\ server[alloc[m].d].match = m
          /\ server[alloc[m].d].state # "none"
          /\ tracked[alloc[m].d] = NoPorts
    /\ \A d \in RequestIds : tracked[d] # NoPorts => server[d].state # "none"

LedgerInv == OwnerOK /\ PortLedger

LEMMA HeldPairs ==
    ASSUME TypeInv, NEW m \in Held
    PROVE  m \in Matches /\ alloc[m].pc \in Holds /\ alloc[m].pair \in Pairs
BY DEF TypeInv, Sound, Held, Holding, Holds

LEMMA PairsAreNotNoPorts == NoPorts \notin Pairs
BY FleetAssumption DEF FleetAssumption, Pairs, NoPorts

(* Nothing that the ledger is about changes. *)
LEMMA LedgerFrame ==
    ASSUME PortLedger, UNCHANGED portVars, Held' = Held,
           \A m \in Held : alloc'[m].pair = alloc[m].pair
    PROVE  PortLedger'
<1>1. Tracked' = Tracked /\ tracked' = tracked /\ udpInUse' = udpInUse /\ tcpInUse' = tcpInUse
    BY DEF Tracked, portVars
<1>2. {alloc'[m].pair[1] : m \in Held} = {alloc[m].pair[1] : m \in Held}
    OBVIOUS
<1>3. {alloc'[m].pair[2] : m \in Held} = {alloc[m].pair[2] : m \in Held}
    OBVIOUS
<1>4. QED
    BY <1>1, <1>2, <1>3 DEF PortLedger

(* No owner appears, and no server that was created changes hands. *)
LEMMA OwnerFrame ==
    ASSUME TypeInv, OwnerOK, UNCHANGED tracked,
           \A m \in Matches : alloc'[m].pc \in Owning =>
               alloc[m].pc \in Owning /\ alloc'[m].d = alloc[m].d,
           \A d \in RequestIds : server[d].state # "none" =>
               server'[d].match = server[d].match /\ server'[d].state # "none"
    PROVE  OwnerOK'
<1>1. \A m \in Matches : alloc[m].pc \in Owning => alloc[m].d \in RequestIds
    BY DEF TypeInv, Sound, Knows, Owning
<1>2. QED
    BY <1>1 DEF OwnerOK

LEMMA InStateFrame ==
    ASSUME RestOK, NEW d \in RequestIds, NEW s \in ServerStates \ {"none"},
           server' = InState(d, s)
    PROVE  \A e \in RequestIds : server[e].state # "none" =>
               server'[e].match = server[e].match /\ server'[e].state # "none"
BY DEF RestOK, InState, Server

LEMMA StoppedFrame ==
    ASSUME RestOK, NEW d \in RequestIds, server' = Stopped(d)
    PROVE  \A e \in RequestIds : server[e].state # "none" =>
               server'[e].match = server[e].match /\ server'[e].state # "none"
BY InStateFrame DEF Stopped, ServerStates

(* A goroutine that holds no pair goes on to a place where it holds none. *)
LEMMA GotoFrame ==
    ASSUME TypeInv, NEW m \in Matches, NEW pc, Goto(m, pc),
           alloc[m].pc \in Holds <=> pc \in Holds
    PROVE  /\ Held' = Held
           /\ \A n \in Held : alloc'[n].pair = alloc[n].pair
           /\ \A n \in Matches : alloc'[n].d = alloc[n].d
           /\ \A n \in Matches \ {m} : alloc'[n] = alloc[n]
           /\ alloc'[m].pc = pc
<1>1. alloc' = [alloc EXCEPT ![m] = [alloc[m] EXCEPT !.pc = pc]]
    BY DEF Goto, TypeInv
<1>2. alloc[m] \in Allocation /\ \A n \in Matches : alloc[n] \in Allocation
    BY SoundIsAllocation DEF TypeInv
<1>3. alloc'[m].pc = pc /\ alloc'[m].pair = alloc[m].pair /\ alloc'[m].d = alloc[m].d
    BY <1>1, <1>2 DEF TypeInv, Allocation
<1>4. \A n \in Matches \ {m} : alloc'[n] = alloc[n]
    BY <1>1 DEF TypeInv
<1>5. \A n \in Matches : Holding(n)' <=> Holding(n)
    BY <1>3, <1>4 DEF Holding, Holds
<1>6. Held' = Held
    BY <1>5 DEF Held
<1>7. QED
    BY <1>3, <1>4, <1>6 DEF Held

LEMMA TellGoto ==
    ASSUME NEW m, NEW o, Tell(m, o)
    PROVE  Goto(m, "finish") /\ "finish" \notin Holds \cup Owning
BY DEF Tell, Holds, Owning

LEMMA GiveUpGoto ==
    ASSUME NEW m, GiveUp(m)
    PROVE  Goto(m, "finish") /\ "finish" \notin Holds \cup Owning
BY DEF GiveUp, Tell, Holds, Owning

(* The pair of one goroutine goes back to the pool: the others keep theirs. *)
LEMMA ReleaseLedger ==
    ASSUME TypeInv, PortLedger, NEW m \in Held, Release(alloc[m].pair),
           UNCHANGED tracked, Held' = Held \ {m},
           \A n \in Held \ {m} : alloc'[n].pair = alloc[n].pair
    PROVE  PortLedger'
<1> DEFINE P(i) == {alloc[n].pair[i] : n \in Held}
<1> DEFINE Q(i) == {alloc'[n].pair[i] : n \in Held \ {m}}
<1> DEFINE S(i) == {tracked[d][i] : d \in Tracked}
<1>1. Tracked' = Tracked /\ tracked' = tracked
    BY DEF Tracked
<1>2. ASSUME NEW i \in {1, 2}
      PROVE  /\ Q(i) = P(i) \ {alloc[m].pair[i]}
             /\ S(i) = S(i) \ {alloc[m].pair[i]}
    <2>1. Q(i) = {alloc[n].pair[i] : n \in Held \ {m}}
        OBVIOUS
    <2>2. \A n \in Held \ {m} : alloc[n].pair[i] # alloc[m].pair[i]
        BY DEF PortLedger
    <2>3. \A d \in Tracked : tracked[d][i] # alloc[m].pair[i]
        BY DEF PortLedger
    <2>4. QED
        BY <2>1, <2>2, <2>3
<1>3. udpInUse' = Q(1) \cup S(1) /\ tcpInUse' = Q(2) \cup S(2)
    <2>1. udpInUse = P(1) \cup S(1) /\ tcpInUse = P(2) \cup S(2)
        BY DEF PortLedger
    <2>2. /\ udpInUse' = udpInUse \ {alloc[m].pair[1]}
          /\ tcpInUse' = tcpInUse \ {alloc[m].pair[2]}
        BY DEF Release
    <2>3. 1 \in {1, 2} /\ 2 \in {1, 2}
        OBVIOUS
    <2> HIDE DEF P, Q, S
    <2>4. QED
        BY <1>2, <2>1, <2>2, <2>3
<1>4. \A i \in {1, 2} :
         /\ \A k, n \in Held \ {m} : k # n => alloc'[k].pair[i] # alloc'[n].pair[i]
         /\ \A d, e \in Tracked : d # e => tracked[d][i] # tracked[e][i]
         /\ \A n \in Held \ {m}, d \in Tracked : alloc'[n].pair[i] # tracked[d][i]
    BY DEF PortLedger
<1>5. QED
    BY <1>1, <1>3, <1>4 DEF PortLedger

-----------------------------------------------------------------------------
(* Every action keeps the ledger. *)

(* No server that was created changes hands. *)
Kept ==
    \A d \in RequestIds : server[d].state # "none" =>
        server'[d].match = server[d].match /\ server'[d].state # "none"

LEMMA SameServersKept ==
    ASSUME UNCHANGED server
    PROVE  Kept
BY DEF Kept

(* A step of a goroutine that neither takes nor gives back a pair. *)
LEMMA QuietGoto ==
    ASSUME TypeInv, LedgerInv, NEW m \in Matches, NEW pc, Goto(m, pc),
           alloc[m].pc \in Holds <=> pc \in Holds,
           pc \in Owning => alloc[m].pc \in Owning,
           UNCHANGED portVars, Kept
    PROVE  LedgerInv'
<1>1. /\ Held' = Held
      /\ \A n \in Held : alloc'[n].pair = alloc[n].pair
      /\ \A n \in Matches : alloc'[n].d = alloc[n].d
      /\ \A n \in Matches \ {m} : alloc'[n] = alloc[n]
      /\ alloc'[m].pc = pc
    BY GotoFrame
<1>2. PortLedger'
    BY <1>1, LedgerFrame DEF LedgerInv
<1>3. \A n \in Matches : alloc'[n].pc \in Owning =>
          alloc[n].pc \in Owning /\ alloc'[n].d = alloc[n].d
    BY <1>1
<1>4. OwnerOK'
    BY <1>3, OwnerFrame DEF LedgerInv, Kept, portVars
<1>5. QED
    BY <1>2, <1>4 DEF LedgerInv

(* A step of a server, or of a player. *)
LEMMA QuietWorld ==
    ASSUME TypeInv, LedgerInv, UNCHANGED <<alloc, portVars>>, Kept
    PROVE  LedgerInv'
<1>1. Held' = Held
    BY DEF Held, Holding
<1>2. PortLedger'
    BY <1>1, LedgerFrame DEF LedgerInv
<1>3. OwnerOK'
    BY OwnerFrame DEF LedgerInv, Kept, portVars
<1>4. QED
    BY <1>2, <1>3 DEF LedgerInv

LEMMA StoppedKept ==
    ASSUME TypeInv, NEW d \in RequestIds, server' \in {server, Stopped(d)}
    PROVE  Kept
BY StoppedFrame DEF TypeInv, Kept

LEMMA InStateKept ==
    ASSUME TypeInv, NEW d \in RequestIds, NEW s \in ServerStates \ {"none"},
           server' \in {server, InState(d, s)}
    PROVE  Kept
BY InStateFrame DEF TypeInv, Kept

LEMMA FreshKept ==
    ASSUME TypeInv, Fresh # {}, NEW s \in Server,
           server' \in {server, [server EXCEPT ![NewId] = s]}
    PROVE  Kept
BY NewIdIsFresh DEF TypeInv, RestOK, Kept

LEMMA MatchedLedger ==
    ASSUME NEW m \in Matches, NEW us \in Rosters, NEW kind \in Kinds,
           NEW probe \in BOOLEAN, TypeInv, LedgerInv, Matched(m, us, kind, probe)
    PROVE  LedgerInv'
<1> DEFINE r == [NoAllocation EXCEPT !.pc = "checks", !.users = us, !.kind = kind,
                                     !.probe = probe]
<1>1. alloc' = [alloc EXCEPT ![m] = r] /\ alloc[m].pc = "idle" /\ r.pc = "checks"
    BY DEF Matched, At, NoAllocation
<1>2. \A n \in Matches : n # m => alloc'[n] = alloc[n]
    BY <1>1 DEF TypeInv
<1>3. alloc'[m].pc = "checks"
    BY <1>1 DEF TypeInv
<1>4. \A n \in Matches : Holding(n)' <=> Holding(n)
    BY <1>1, <1>2, <1>3 DEF Holding
<1>5. Held' = Held /\ m \notin Held
    BY <1>1, <1>4 DEF Held, Holding
<1>6. \A n \in Held : alloc'[n].pair = alloc[n].pair
    BY <1>2, <1>5 DEF Held
<1>7. UNCHANGED portVars /\ UNCHANGED server
    BY DEF Matched
<1>8. PortLedger'
    BY <1>5, <1>6, <1>7, LedgerFrame DEF LedgerInv
<1>9. \A n \in Matches : alloc'[n].pc \in Owning =>
          alloc[n].pc \in Owning /\ alloc'[n].d = alloc[n].d
    BY <1>2, <1>3 DEF Owning
<1>10. OwnerOK'
    BY <1>7, <1>9, OwnerFrame DEF LedgerInv, portVars
<1>11. QED
    BY <1>8, <1>10 DEF LedgerInv

(* A goroutine outside Holds gives up, or tells its players an outcome. *)
LEMMA TellLedger ==
    ASSUME TypeInv, LedgerInv, NEW m \in Matches, NEW o, Tell(m, o),
           alloc[m].pc \notin Holds, UNCHANGED portVars, Kept
    PROVE  LedgerInv'
<1>1. Goto(m, "finish") /\ "finish" \notin Holds \cup Owning
    BY TellGoto
<1>2. QED
    BY <1>1, QuietGoto

LEMMA GiveUpLedger ==
    ASSUME TypeInv, LedgerInv, NEW m \in Matches, GiveUp(m),
           alloc[m].pc \notin Holds, UNCHANGED portVars, Kept
    PROVE  LedgerInv'
BY TellLedger DEF GiveUp

(* Places where a goroutine holds no pair. *)
LEMMA HandsFree ==
    {"idle", "checks", "port", "deploy", "poll", "stop", "backoff", "checkpoint",
     "teardown", "mark", "meta", "notify", "finish", "done", "lost"}
        \cap (Holds \cup Owning) = {}
BY DEF Holds, Owning

LEMMA ChecksLedger ==
    ASSUME NEW m \in Matches, TypeInv, LedgerInv, Checks(m)
    PROVE  LedgerInv'
<1>1. alloc[m].pc = "checks" /\ UNCHANGED portVars /\ UNCHANGED server
    BY DEF Checks, At
<1>2. CASE Tell(m, "failed")
    BY <1>1, <1>2, HandsFree, TellLedger, SameServersKept
<1>3. CASE Goto(m, IF alloc[m].kind = "local" THEN "port" ELSE "deploy")
    BY <1>1, <1>3, HandsFree, QuietGoto, SameServersKept
<1>4. QED
    BY <1>2, <1>3 DEF Checks

LEMMA StartContainerLedger ==
    ASSUME NEW m \in Matches, TypeInv, LedgerInv, StartContainer(m)
    PROVE  LedgerInv'
<1>1. alloc[m].pc = "start" /\ alloc[m].d \in RequestIds
    BY DEF TypeInv, Sound, Knows, StartContainer, At
<1>2. server' \in {server, InState(alloc[m].d, "booting")} /\ UNCHANGED portVars
    BY DEF StartContainer
<1>3. Kept
    BY <1>1, <1>2, InStateKept DEF ServerStates
<1>4. {"start", "wait", "undo"} \subseteq Holds \cap Owning
    BY DEF Holds, Owning
<1>5. Goto(m, "wait") \/ Goto(m, "undo")
    BY DEF StartContainer
<1>6. QED
    BY <1>1, <1>2, <1>3, <1>4, <1>5, QuietGoto

LEMMA PollDeployLedger ==
    ASSUME NEW m \in Matches, TypeInv, LedgerInv, PollDeploy(m)
    PROVE  LedgerInv'
<1>1. alloc[m].pc = "poll" /\ UNCHANGED portVars /\ UNCHANGED server
    BY DEF PollDeploy, At
<1>2. Goto(m, "checkpoint") \/ Goto(m, "stop")
    BY DEF PollDeploy
<1>3. QED
    BY <1>1, <1>2, HandsFree, QuietGoto, SameServersKept

LEMMA StopAttemptLedger ==
    ASSUME NEW m \in Matches, TypeInv, LedgerInv, StopAttempt(m)
    PROVE  LedgerInv'
<1>1. alloc[m].pc = "stop" /\ UNCHANGED portVars
    BY DEF StopAttempt, At
<1>2. alloc[m].d \in RequestIds \cup {0}
    BY DEF TypeInv, Sound, Allocation
<1>3. Kept
    BY <1>2, StoppedKept, SameServersKept DEF StopAttempt
<1>4. GiveUp(m) \/ Goto(m, "backoff")
    BY DEF StopAttempt, AfterAttempt
<1>5. QED
    BY <1>1, <1>3, <1>4, HandsFree, QuietGoto, GiveUpLedger

LEMMA BackoffLedger ==
    ASSUME NEW m \in Matches, TypeInv, LedgerInv, Backoff(m)
    PROVE  LedgerInv'
<1>1. alloc[m].pc = "backoff" /\ UNCHANGED portVars /\ UNCHANGED server
    BY DEF Backoff, At
<1>2. GiveUp(m) \/ Goto(m, "deploy")
    BY DEF Backoff
<1>3. QED
    BY <1>1, <1>2, HandsFree, QuietGoto, GiveUpLedger, SameServersKept

LEMMA CheckpointLedger ==
    ASSUME NEW m \in Matches, TypeInv, LedgerInv, Checkpoint(m)
    PROVE  LedgerInv'
<1>1. alloc[m].pc = "checkpoint" /\ UNCHANGED portVars /\ UNCHANGED server
    BY DEF Checkpoint, At
<1>2. Goto(m, "teardown") \/ Goto(m, "mark") \/ Goto(m, "meta")
    BY DEF Checkpoint
<1>3. QED
    BY <1>1, <1>2, HandsFree, QuietGoto, SameServersKept

LEMMA TeardownLedger ==
    ASSUME NEW m \in Matches, TypeInv, LedgerInv, Teardown(m)
    PROVE  LedgerInv'
<1>1. alloc[m].pc = "teardown" /\ alloc[m].d \in RequestIds /\ UNCHANGED portVars
    BY DEF TypeInv, Sound, Knows, Teardown, At
<1>2. Kept
    BY <1>1, StoppedKept, SameServersKept DEF Teardown
<1>3. Tell(m, "cancelled")
    BY DEF Teardown
<1>4. QED
    BY <1>1, <1>2, <1>3, HandsFree, TellLedger

LEMMA RecordLedger ==
    ASSUME NEW m \in Matches, TypeInv, LedgerInv, MarkSynthetic(m) \/ WriteMetadata(m)
    PROVE  LedgerInv'
<1>1. alloc[m].pc \in {"mark", "meta"} /\ UNCHANGED portVars /\ UNCHANGED server
    BY DEF MarkSynthetic, WriteMetadata, At
<1>2. Goto(m, "meta") \/ Goto(m, "notify")
    BY DEF MarkSynthetic, WriteMetadata
<1>3. QED
    BY <1>1, <1>2, HandsFree, QuietGoto, SameServersKept

LEMMA NotifyReadyLedger ==
    ASSUME NEW m \in Matches, TypeInv, LedgerInv, NotifyReady(m)
    PROVE  LedgerInv'
<1>1. alloc[m].pc = "notify" /\ UNCHANGED portVars /\ UNCHANGED server /\ Tell(m, "ready")
    BY DEF NotifyReady, At
<1>2. QED
    BY <1>1, HandsFree, TellLedger, SameServersKept

LEMMA FinishLedger ==
    ASSUME NEW m \in Matches, TypeInv, LedgerInv, Finish(m)
    PROVE  LedgerInv'
<1>1. alloc[m].pc = "finish" /\ UNCHANGED portVars /\ UNCHANGED server /\ Goto(m, "done")
    BY DEF Finish, At
<1>2. QED
    BY <1>1, HandsFree, QuietGoto, SameServersKept

LEMMA WorldLedger ==
    ASSUME TypeInv, LedgerInv,
           \/ \E u \in Users : Cancel(u)
           \/ \E d \in RequestIds : RegisterServer(d) \/ ServerExit(d)
    PROVE  LedgerInv'
<1>1. ASSUME NEW u \in Users, Cancel(u)
      PROVE  LedgerInv'
    BY <1>1, QuietWorld, SameServersKept DEF Cancel
<1>2. ASSUME NEW d \in RequestIds, RegisterServer(d) \/ ServerExit(d)
      PROVE  LedgerInv'
    <2>1. server' = InState(d, "up") \/ server' = InState(d, "gone")
        BY <1>2 DEF RegisterServer, ServerExit
    <2>2. Kept
        BY <2>1, InStateKept DEF ServerStates
    <2>3. UNCHANGED <<alloc, portVars>>
        BY <1>2 DEF RegisterServer, ServerExit
    <2>4. QED
        BY <2>2, <2>3, QuietWorld
<1>3. QED
    BY <1>1, <1>2

(* A deploy takes a fresh request id; its goroutine holds no pair. *)
LEMMA DeployLedger ==
    ASSUME NEW m \in Matches, TypeInv, LedgerInv, Deploy(m)
    PROVE  LedgerInv'
<1> DEFINE c == [state |-> "booting", kind |-> "edgegap", match |-> m, pair |-> NoPorts]
<1>1. alloc[m].pc = "deploy" /\ UNCHANGED portVars /\ Fresh # {}
    BY DEF Deploy, At
<1>2. c \in Server
    BY DEF Server, ServerStates, Kinds
<1>3. server' \in {server, [server EXCEPT ![NewId] = c]}
    BY DEF Deploy
<1>4. Kept
    BY <1>1, <1>2, <1>3, FreshKept
<1>5. \/ alloc' = [alloc EXCEPT ![m].pc = "poll", ![m].d = NewId, ![m].try = @ + 1]
      \/ alloc' = [alloc EXCEPT ![m].pc = "stop", ![m].d = 0, ![m].try = @ + 1]
    BY DEF Deploy
<1>6. alloc[m] \in Allocation
    BY SoundIsAllocation DEF TypeInv
<1>7. alloc'[m].pc \in {"poll", "stop"} /\ \A n \in Matches \ {m} : alloc'[n] = alloc[n]
    BY <1>5, <1>6 DEF TypeInv, Allocation
<1>8. alloc[m].pc \notin Holds /\ alloc'[m].pc \notin Holds \cup Owning
    BY <1>1, <1>7, HandsFree
<1>9. \A n \in Matches : Holding(n)' <=> Holding(n)
    BY <1>7, <1>8 DEF Holding, Holds
<1>10. Held' = Held /\ m \notin Held
    BY <1>8, <1>9 DEF Held, Holding, Holds
<1>11. \A n \in Held : alloc'[n].pair = alloc[n].pair
    BY <1>7, <1>10 DEF Held
<1>12. PortLedger'
    BY <1>1, <1>10, <1>11, LedgerFrame DEF LedgerInv
<1>13. \A n \in Matches : alloc'[n].pc \in Owning =>
           alloc[n].pc \in Owning /\ alloc'[n].d = alloc[n].d
    BY <1>7, <1>8
<1>14. OwnerOK'
    BY <1>1, <1>4, <1>13, OwnerFrame DEF LedgerInv, Kept, portVars
<1>15. QED
    BY <1>12, <1>14 DEF LedgerInv

(* The first free pair is nobody's: its goroutine becomes the only owner. *)
LEMMA AllocatePortsLedger ==
    ASSUME NEW m \in Matches, TypeInv, LedgerInv, AllocatePorts(m)
    PROVE  LedgerInv'
<1>1. alloc[m].pc = "port" /\ UNCHANGED tracked /\ UNCHANGED server
    BY DEF AllocatePorts, At
<1>2. Kept
    BY <1>1, SameServersKept
<1>3. CASE /\ HasFreePair
           /\ udpInUse' = udpInUse \cup {FreePair[1]}
           /\ tcpInUse' = tcpInUse \cup {FreePair[2]}
           /\ alloc' = [alloc EXCEPT ![m].pc = "create", ![m].pair = FreePair]
    <2>1. FreePair[1] \notin udpInUse /\ FreePair[2] \notin tcpInUse
        BY <1>3, FreePairIsFree
    <2>2. alloc[m] \in Allocation
        BY SoundIsAllocation DEF TypeInv
    <2>3. /\ alloc'[m].pc = "create" /\ alloc'[m].pair = FreePair
          /\ \A n \in Matches \ {m} : alloc'[n] = alloc[n]
        BY <1>3, <2>2 DEF TypeInv, Allocation
    <2>4. Held' = Held \cup {m} /\ m \notin Held
        BY <1>1, <2>3 DEF Held, Holding
    <2>5. \A n \in Held : alloc'[n].pair = alloc[n].pair
        BY <2>3, <2>4 DEF Held
    <2>6. Tracked' = Tracked /\ tracked' = tracked
        BY <1>1 DEF Tracked
    <2>7. /\ udpInUse = {alloc[n].pair[1] : n \in Held} \cup {tracked[d][1] : d \in Tracked}
          /\ tcpInUse = {alloc[n].pair[2] : n \in Held} \cup {tracked[d][2] : d \in Tracked}
        BY DEF LedgerInv, PortLedger
    <2>8. \A i \in {1, 2} : {alloc'[n].pair[i] : n \in Held \cup {m}}
                            = {alloc[n].pair[i] : n \in Held} \cup {FreePair[i]}
        BY <2>3, <2>5
    <2>9. /\ udpInUse' = {alloc'[n].pair[1] : n \in Held'}
                         \cup {tracked'[d][1] : d \in Tracked'}
          /\ tcpInUse' = {alloc'[n].pair[2] : n \in Held'}
                         \cup {tracked'[d][2] : d \in Tracked'}
        BY <1>3, <2>4, <2>6, <2>7, <2>8
    <2>10. \A i \in {1, 2} :
             /\ \A n \in Held : FreePair[i] # alloc[n].pair[i]
             /\ \A d \in Tracked : FreePair[i] # tracked[d][i]
        BY <2>1, <2>7
    <2>11. \A i \in {1, 2} :
             /\ \A k, n \in Held' : k # n => alloc'[k].pair[i] # alloc'[n].pair[i]
             /\ \A d, e \in Tracked' : d # e => tracked'[d][i] # tracked'[e][i]
             /\ \A n \in Held', d \in Tracked' : alloc'[n].pair[i] # tracked'[d][i]
        BY <2>3, <2>4, <2>5, <2>6, <2>10 DEF LedgerInv, PortLedger
    <2>12. PortLedger'
        BY <2>9, <2>11 DEF PortLedger
    <2>13. \A n \in Matches : alloc'[n].pc \in Owning =>
               alloc[n].pc \in Owning /\ alloc'[n].d = alloc[n].d
        BY <2>3 DEF Owning
    <2>14. OwnerOK'
        BY <1>1, <1>2, <2>13, OwnerFrame DEF LedgerInv, Kept
    <2>15. QED
        BY <2>12, <2>14 DEF LedgerInv
<1>4. CASE GiveUp(m) /\ UNCHANGED <<udpInUse, tcpInUse>>
    <2>1. UNCHANGED portVars
        BY <1>1, <1>4 DEF portVars
    <2>2. QED
        BY <1>1, <1>2, <1>4, <2>1, HandsFree, GiveUpLedger
<1>5. QED
    BY <1>3, <1>4 DEF AllocatePorts

(* A goroutine that holds a pair gives it back and gives up. *)
LEMMA GiveBackLedger ==
    ASSUME TypeInv, LedgerInv, NEW m \in Held, Release(alloc[m].pair), GiveUp(m),
           UNCHANGED tracked, Kept
    PROVE  LedgerInv'
<1>1. m \in Matches /\ alloc[m].pc \in Holds
    BY HeldPairs
<1>2. alloc' = [alloc EXCEPT ![m].pc = "finish"]
    BY DEF GiveUp, Tell, Goto
<1>3. alloc[m] \in Allocation
    BY <1>1, SoundIsAllocation DEF TypeInv
<1>4. alloc'[m].pc = "finish" /\ \A n \in Matches \ {m} : alloc'[n] = alloc[n]
    BY <1>1, <1>2, <1>3 DEF TypeInv, Allocation
<1>5. Held' = Held \ {m}
    BY <1>4 DEF Held, Holding
<1>6. \A n \in Held \ {m} : alloc'[n].pair = alloc[n].pair
    BY <1>4 DEF Held
<1>7. PortLedger'
    BY <1>5, <1>6, ReleaseLedger DEF LedgerInv
<1>8. \A n \in Matches : alloc'[n].pc \in Owning =>
          alloc[n].pc \in Owning /\ alloc'[n].d = alloc[n].d
    BY <1>4 DEF Owning
<1>9. OwnerOK'
    BY <1>8, OwnerFrame DEF LedgerInv, Kept
<1>10. QED
    BY <1>7, <1>9 DEF LedgerInv

LEMMA CreateContainerLedger ==
    ASSUME NEW m \in Matches, TypeInv, LedgerInv, CreateContainer(m)
    PROVE  LedgerInv'
<1> DEFINE c == [state |-> "created", kind |-> "local", match |-> m, pair |-> alloc[m].pair]
<1>1. alloc[m].pc = "create" /\ UNCHANGED tracked /\ m \in Held
    BY DEF CreateContainer, At, Held, Holding
<1>2. CASE /\ Fresh # {}
           /\ server' = [server EXCEPT ![NewId] = c]
           /\ alloc' = [alloc EXCEPT ![m].pc = "start", ![m].d = NewId]
           /\ UNCHANGED <<udpInUse, tcpInUse>>
    <2>1. NewId \in RequestIds /\ server[NewId].state = "none"
        BY <1>2, NewIdIsFresh
    <2>2. alloc[m] \in Allocation
        BY SoundIsAllocation DEF TypeInv
    <2>3. /\ alloc'[m].pc = "start" /\ alloc'[m].d = NewId
          /\ alloc'[m].pair = alloc[m].pair
          /\ \A n \in Matches \ {m} : alloc'[n] = alloc[n]
        BY <1>2, <2>2 DEF TypeInv, Allocation
    <2>4. Held' = Held
        BY <1>1, <2>3 DEF Held, Holding
    <2>5. \A n \in Held : alloc'[n].pair = alloc[n].pair
        BY <2>3 DEF Held
    <2>6. UNCHANGED portVars
        BY <1>1, <1>2 DEF portVars
    <2>7. PortLedger'
        BY <2>4, <2>5, <2>6, LedgerFrame DEF LedgerInv
    <2>8. tracked[NewId] = NoPorts
        BY <2>1 DEF LedgerInv, OwnerOK
    <2>9. /\ server'[NewId].match = m /\ server'[NewId].state # "none"
          /\ \A d \in RequestIds \ {NewId} : server'[d] = server[d]
        BY <1>2, <2>1 DEF TypeInv, RestOK
    <2>10. ASSUME NEW n \in Matches, alloc'[n].pc \in Owning
           PROVE  /\ server'[alloc'[n].d].match = n
                  /\ server'[alloc'[n].d].state # "none"
                  /\ tracked'[alloc'[n].d] = NoPorts
        <3>1. CASE n = m
            BY <3>1, <1>1, <2>3, <2>8, <2>9
        <3>2. CASE n # m
            <4>1. alloc'[n] = alloc[n] /\ alloc[n].pc \in Owning
                BY <3>2, <2>3, <2>10
            <4>2. alloc[n].d \in RequestIds
                BY <4>1 DEF TypeInv, Sound, Knows, Owning
            <4>3. /\ server[alloc[n].d].match = n /\ server[alloc[n].d].state # "none"
                  /\ tracked[alloc[n].d] = NoPorts
                BY <4>1 DEF LedgerInv, OwnerOK
            <4>4. QED
                BY <1>1, <2>1, <2>9, <4>1, <4>2, <4>3
        <3>3. QED
            BY <3>1, <3>2
    <2>11. \A d \in RequestIds : tracked'[d] # NoPorts => server'[d].state # "none"
        BY <1>1, <2>9 DEF LedgerInv, OwnerOK
    <2>12. OwnerOK'
        BY <2>10, <2>11 DEF OwnerOK
    <2>13. QED
        BY <2>7, <2>12 DEF LedgerInv
<1>3. CASE Release(alloc[m].pair) /\ GiveUp(m) /\ UNCHANGED server
    BY <1>1, <1>3, GiveBackLedger, SameServersKept
<1>4. QED
    BY <1>2, <1>3 DEF CreateContainer

LEMMA UndoStartLedger ==
    ASSUME NEW m \in Matches, TypeInv, LedgerInv, UndoStart(m)
    PROVE  LedgerInv'
<1>1. m \in Held /\ alloc[m].d \in RequestIds
    BY DEF UndoStart, At, Held, Holding, TypeInv, Sound, Knows
<1>2. server' \in {server, Stopped(alloc[m].d)}
    BY DEF UndoStart
<1>3. Kept
    BY <1>1, <1>2, StoppedKept
<1>4. Release(alloc[m].pair) /\ GiveUp(m) /\ UNCHANGED tracked
    BY DEF UndoStart
<1>5. QED
    BY <1>1, <1>3, <1>4, GiveBackLedger

(* trackPorts: the pair has one owner before and one after. *)
LEMMA TrackLedger ==
    ASSUME NEW m \in Matches, TypeInv, LedgerInv, alloc[m].pc = "wait",
           tracked' = [tracked EXCEPT ![alloc[m].d] = alloc[m].pair],
           Goto(m, "checkpoint"), UNCHANGED <<udpInUse, tcpInUse, server>>
    PROVE  LedgerInv'
<1> DEFINE d == alloc[m].d
<1> DEFINE p == alloc[m].pair
<1>1. /\ d \in RequestIds /\ p \in Pairs /\ m \in Held
      /\ tracked[d] = NoPorts /\ server[d].match = m /\ server[d].state # "none"
    BY DEF TypeInv, Sound, Knows, Holds, Held, Holding, LedgerInv, OwnerOK, Owning
<1>2. alloc[m] \in Allocation
    BY SoundIsAllocation DEF TypeInv
<1>3. alloc'[m].pc = "checkpoint" /\ \A n \in Matches \ {m} : alloc'[n] = alloc[n]
    BY <1>2 DEF Goto, TypeInv, Allocation
<1>4. Held' = Held \ {m}
    BY <1>3 DEF Held, Holding
<1>5. tracked'[d] = p /\ \A e \in RequestIds \ {d} : tracked'[e] = tracked[e]
    BY <1>1 DEF TypeInv, RestOK
<1>6. Tracked' = Tracked \cup {d} /\ d \notin Tracked
    BY <1>1, <1>5, PairsAreNotNoPorts DEF Tracked
<1>7. \A n \in Held \ {m} : alloc'[n].pair = alloc[n].pair
    BY <1>3 DEF Held
<1>8. \A e \in Tracked : tracked'[e] = tracked[e]
    BY <1>5, <1>6 DEF Tracked
<1>9. ASSUME NEW i \in {1, 2}
      PROVE  {alloc'[n].pair[i] : n \in Held'} \cup {tracked'[e][i] : e \in Tracked'}
             = {alloc[n].pair[i] : n \in Held} \cup {tracked[e][i] : e \in Tracked}
    <2>1. {alloc'[n].pair[i] : n \in Held'} = {alloc[n].pair[i] : n \in Held \ {m}}
        BY <1>4, <1>7
    <2>2. {tracked'[e][i] : e \in Tracked'} = {tracked[e][i] : e \in Tracked} \cup {p[i]}
        BY <1>5, <1>6, <1>8
    <2>3. {alloc[n].pair[i] : n \in Held} = {alloc[n].pair[i] : n \in Held \ {m}} \cup {p[i]}
        BY <1>1
    <2>4. QED
        BY <2>1, <2>2, <2>3
<1>10. /\ udpInUse' = {alloc'[n].pair[1] : n \in Held'}
                      \cup {tracked'[e][1] : e \in Tracked'}
       /\ tcpInUse' = {alloc'[n].pair[2] : n \in Held'}
                      \cup {tracked'[e][2] : e \in Tracked'}
    BY <1>9 DEF LedgerInv, PortLedger
<1>11. ASSUME NEW i \in {1, 2}
       PROVE  /\ \A k, n \in Held' : k # n => alloc'[k].pair[i] # alloc'[n].pair[i]
              /\ \A e, f \in Tracked' : e # f => tracked'[e][i] # tracked'[f][i]
              /\ \A n \in Held', e \in Tracked' : alloc'[n].pair[i] # tracked'[e][i]
    <2>1. /\ \A k, n \in Held : k # n => alloc[k].pair[i] # alloc[n].pair[i]
          /\ \A e, f \in Tracked : e # f => tracked[e][i] # tracked[f][i]
          /\ \A n \in Held, e \in Tracked : alloc[n].pair[i] # tracked[e][i]
        BY DEF LedgerInv, PortLedger
    <2>2. \A k, n \in Held' : k # n => alloc'[k].pair[i] # alloc'[n].pair[i]
        BY <2>1, <1>4, <1>7
    <2>3. \A e \in Tracked : p[i] # tracked[e][i]
        BY <1>1, <2>1
    <2>4. \A e, f \in Tracked' : e # f => tracked'[e][i] # tracked'[f][i]
        BY <2>1, <2>3, <1>5, <1>6, <1>8
    <2>5. \A n \in Held' : alloc'[n].pair[i] # p[i]
        BY <2>1, <1>1, <1>4, <1>7
    <2>6. \A n \in Held', e \in Tracked' : alloc'[n].pair[i] # tracked'[e][i]
        BY <2>1, <2>5, <1>4, <1>5, <1>6, <1>7, <1>8
    <2>7. QED
        BY <2>2, <2>4, <2>6
<1>12. PortLedger'
    BY <1>10, <1>11 DEF PortLedger
<1>13. ASSUME NEW n \in Matches, alloc'[n].pc \in Owning
       PROVE  /\ server'[alloc'[n].d].match = n
              /\ server'[alloc'[n].d].state # "none"
              /\ tracked'[alloc'[n].d] = NoPorts
    <2>1. n # m
        BY <1>3, <1>13 DEF Owning
    <2>2. alloc'[n] = alloc[n] /\ alloc[n].pc \in Owning
        BY <2>1, <1>3, <1>13
    <2>3. /\ server[alloc[n].d].match = n /\ server[alloc[n].d].state # "none"
          /\ tracked[alloc[n].d] = NoPorts /\ alloc[n].d \in RequestIds
        BY <2>2 DEF LedgerInv, OwnerOK, TypeInv, Sound, Knows, Owning
    <2>4. alloc[n].d # d
        BY <1>1, <2>1, <2>3
    <2>5. QED
        BY <1>5, <2>2, <2>3, <2>4
<1>14. \A e \in RequestIds : tracked'[e] # NoPorts => server'[e].state # "none"
    BY <1>1, <1>5 DEF LedgerInv, OwnerOK
<1>15. OwnerOK'
    BY <1>13, <1>14 DEF OwnerOK
<1>16. QED
    BY <1>12, <1>15 DEF LedgerInv

LEMMA WaitForServerLedger ==
    ASSUME NEW m \in Matches, TypeInv, LedgerInv, WaitForServer(m)
    PROVE  LedgerInv'
<1>1. alloc[m].pc = "wait" /\ UNCHANGED <<udpInUse, tcpInUse, server>>
    BY DEF WaitForServer, At
<1>2. CASE tracked' = [tracked EXCEPT ![alloc[m].d] = alloc[m].pair] /\ Goto(m, "checkpoint")
    BY <1>1, <1>2, TrackLedger
<1>3. CASE Goto(m, "undo") /\ UNCHANGED tracked
    <2>1. {"wait", "undo"} \subseteq Holds \cap Owning
        BY DEF Holds, Owning
    <2>2. UNCHANGED portVars
        BY <1>1, <1>3 DEF portVars
    <2>3. QED
        BY <1>1, <1>3, <2>1, <2>2, QuietGoto, SameServersKept
<1>4. QED
    BY <1>2, <1>3 DEF WaitForServer

(* A restart forgets the pool and every owner with it. *)
LEMMA RestartLedger ==
    ASSUME TypeInv, LedgerInv, Restart
    PROVE  LedgerInv'
<1>1. ASSUME NEW m \in Matches
      PROVE  alloc'[m].pc \in {"idle", "done", "lost"}
    <2>1. alloc[m] \in Allocation
        BY SoundIsAllocation DEF TypeInv
    <2>2. alloc'[m] = IF Running(m) THEN [alloc[m] EXCEPT !.pc = "lost"] ELSE alloc[m]
        BY DEF Restart
    <2>3. QED
        BY <2>1, <2>2 DEF Running, Allocation
<1>2. Held' = {}
    BY <1>1 DEF Held, Holding
<1>3. Tracked' = {}
    BY DEF Tracked, Restart
<1>4. PortLedger'
    BY <1>2, <1>3 DEF PortLedger, Restart
<1>5. OwnerOK'
    BY <1>1 DEF OwnerOK, Restart, Owning
<1>6. QED
    BY <1>4, <1>5 DEF LedgerInv

LEMMA FleetInitLedger ==
    ASSUME FleetInit
    PROVE  LedgerInv
<1>1. \A m \in Matches : alloc[m].pc = "idle"
    BY DEF FleetInit, NoAllocation
<1>2. Held = {} /\ Tracked = {}
    BY <1>1 DEF Held, Holding, Tracked, FleetInit
<1>3. PortLedger
    BY <1>2 DEF PortLedger, FleetInit
<1>4. OwnerOK
    BY <1>1 DEF OwnerOK, FleetInit, Owning
<1>5. QED
    BY <1>3, <1>4 DEF LedgerInv

LEMMA LedgerStep ==
    ASSUME TypeInv, LedgerInv, [FleetNext]_fleetVars
    PROVE  LedgerInv'
<1>1. ASSUME NEW m \in Matches, NEW us \in Rosters, NEW k \in Backends, NEW p \in Probes,
             Matched(m, us, k, p)
      PROVE  LedgerInv'
    <2>1. k \in Kinds /\ p \in BOOLEAN
        BY FleetAssumption DEF FleetAssumption
    <2>2. QED
        BY <1>1, <2>1, MatchedLedger
<1>2. ASSUME NEW m \in Matches, Allocate(m)
      PROVE  LedgerInv'
    BY <1>2, ChecksLedger, AllocatePortsLedger, CreateContainerLedger,
       StartContainerLedger, WaitForServerLedger, UndoStartLedger, DeployLedger,
       PollDeployLedger, StopAttemptLedger, BackoffLedger, CheckpointLedger,
       TeardownLedger, RecordLedger, NotifyReadyLedger, FinishLedger DEF Allocate
<1>3. CASE \/ \E u \in Users : Cancel(u)
           \/ \E d \in RequestIds : RegisterServer(d) \/ ServerExit(d)
    BY <1>3, WorldLedger
<1>4. CASE Restart
    BY <1>4, RestartLedger
<1>5. CASE UNCHANGED fleetVars
    BY <1>5, QuietWorld, SameServersKept DEF fleetVars, portVars
<1>6. QED
    BY <1>1, <1>2, <1>3, <1>4, <1>5 DEF FleetNext, FleetStep

(* Whatever is cancelled, fails or restarts, the pool's in-use sets are      *)
(* exactly the ports that a goroutine of runAllocation or a tracked deploy   *)
(* will release, and no port has two owners: Release never frees a port that *)
(* another match uses, and no port is lost while its owner runs.             *)
THEOREM PortLedgerHolds == FleetSpec => []PortLedger
<1>1. FleetInit => TypeInv /\ LedgerInv
    BY FleetInitType, FleetInitLedger
<1>2. TypeInv /\ LedgerInv /\ [FleetNext]_fleetVars => (TypeInv /\ LedgerInv)'
    BY TypeStep, LedgerStep
<1>3. LedgerInv => PortLedger
    BY DEF LedgerInv
<1>4. QED
    BY <1>1, <1>2, <1>3, PTL DEF FleetSpec

=============================================================================
