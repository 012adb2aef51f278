--------------------------- MODULE AccountProofs ---------------------------
(* Theorems about Account, for every value of its constants. *)
EXTENDS Account, FiniteSetTheorems, TLAPS

-----------------------------------------------------------------------------
(* AccountTypeOK alone is not inductive: what a process holds goes with its *)
(* label, and a label belongs to a kind of request.                         *)

DeleteLabels == {"queue", "scrub", "social", "storage", "code.read", "code.delete", "refs",
                 "sent", "activity", "logout", "sockets"}
CloseLabels == {"code.read", "code.delete", "refs", "sent"}
CodeLabels == {"code.look", "code.forward", "code.reverse"}
MatchLabels == {"users", "write"}
NameLabels == {"check", "refresh", "name.read", "name.write", "enforce"}
CronLabels == {"pick", "enforce", "minimize", "recent", "unqueue"} \cup PurgeLabels

Fits(op, pc) ==
    /\ op = "none" => pc = "idle"
    /\ op = "delete" => pc \in DeleteLabels
    /\ op = "close" => pc \in CloseLabels
    /\ op = "code" => pc \in CodeLabels
    /\ op = "match" => pc \in MatchLabels
    /\ op \in {"signin", "refresh"} => pc \in NameLabels
    /\ op = "cron" => pc \in CronLabels

Sound(r) ==
    /\ r \in Process
    /\ r.op = "none" => r = Idle
    /\ Fits(r.op, r.pc)
    /\ r.u = None => r.op \in {"none", "match"} \/ r.pc = "pick"
    /\ r.u # None => r.op # "match" /\ r.pc # "pick"
    /\ r.pc = "code.reverse" => r.code # None
    /\ r.code # None => r.pc \in {"code.reverse", "code.delete"}
    /\ r.pc = "name.write" => r.name # "keep"
    /\ r.name # "keep" => r.pc = "name.write"
    /\ r.us # {} => r.op = "match"
    /\ r.named \subseteq r.us
    /\ r.named # {} => r.pc = "write"

WorkOK ==
    /\ proc \in [Procs -> Process]
    /\ \A p \in Procs : Sound(proc[p])
    /\ \A p \in Slots : proc[p].op # "cron"
    /\ proc[Cron].op \in {"none", "cron"}

AccountsOK ==
    /\ accounts \subseteq Users
    /\ name \in [Users -> {"none", "own", "deleted", "clamped"}]
    /\ profile \subseteq Users
    /\ session \in [Users -> {"none", "old", "fresh"}]

CodesOK ==
    /\ forward \in [Codes -> Users \cup {None}]
    /\ reverse \in [Users -> Codes \cup {None}]
    /\ handed \in [Users -> SUBSET Codes]
    /\ retired \subseteq Codes
    /\ strays \subseteq Users

QueueOK ==
    /\ queue \in [Users -> {"none", "waiting", "due"}]
    /\ copies \subseteq Users
    /\ answer \in [Users -> {"none", "scheduled", "kept"}]
    /\ overtaken \subseteq Users \X {"name", "answer", "session"}
    /\ dropped \subseteq Users

RowsOK ==
    /\ traces \in [Users -> SUBSET Kinds]
    /\ recent \subseteq Users \X Users

PassOK ==
    /\ todo \in [Users -> {"none", "waiting", "due"}]
    /\ proc[Cron].pc = "idle" => \A u \in Users : todo[u] = "none"

RestOK == tainted \subseteq Users /\ events \in 0 .. MaxEvents

TypeInv == WorkOK /\ AccountsOK /\ CodesOK /\ QueueOK /\ RowsOK /\ PassOK /\ RestOK

LEMMA TypeInvIsType == TypeInv => AccountTypeOK
BY DEF TypeInv, WorkOK, Sound, AccountsOK, CodesOK, QueueOK, RowsOK, PassOK, RestOK,
       AccountTypeOK

-----------------------------------------------------------------------------
(* What a label says of the process. *)

LEMMA Numbers ==
    /\ NCodes \in Nat /\ NSlots \in Nat /\ MaxEvents \in Nat
    /\ Codes \subseteq Nat /\ Slots \subseteq Nat /\ Cron \notin Slots
    /\ Slots \subseteq Procs /\ Cron \in Procs
    /\ None \notin Users /\ None \notin Codes
    /\ Leaving \subseteq Users /\ Clamps \subseteq BOOLEAN /\ Rewritten \subseteq Kinds
BY AccountAssumption, RewrittenAssumption
   DEF AccountAssumption, RewrittenAssumption, Codes, Slots, Cron, Procs

LEMMA IdleSound == Sound(Idle) /\ Idle \in Process
BY DEF Sound, Fits, Idle, Process, Ops, Labels

LEMMA OpOfLabel ==
    ASSUME NEW r, Sound(r)
    PROVE  /\ r.pc = "idle" => r = Idle
           /\ r.pc \in {"queue", "scrub", "social", "storage", "activity", "logout", "sockets"}
                => r.op = "delete"
           /\ r.pc \in {"code.read", "code.delete", "refs", "sent"}
                => r.op \in {"delete", "close", "cron"}
           /\ r.pc \in CodeLabels => r.op = "code"
           /\ r.pc \in MatchLabels => r.op = "match"
           /\ r.pc \in NameLabels \ {"enforce"} => r.op \in {"signin", "refresh"}
           /\ r.pc = "enforce" => r.op \in {"signin", "refresh", "cron"}
           /\ r.pc \in {"pick", "minimize", "recent", "unqueue", "account"} => r.op = "cron"
<1>1. r.op \in Ops
    BY DEF Sound, Process
<1>2. QED
    BY <1>1 DEF Sound, Fits, Ops, DeleteLabels, CloseLabels, CodeLabels, MatchLabels, NameLabels,
                CronLabels, PurgeLabels, Idle

LEMMA UserOfLabel ==
    ASSUME NEW r, Sound(r), r.pc \notin {"idle", "pick"} \cup MatchLabels
    PROVE  r.u \in Users
<1>1. r.op # "none" /\ r.op # "match"
    BY DEF Sound, Fits, MatchLabels
<1>2. QED
    BY <1>1 DEF Sound, Process

LEMMA WorkAt ==
    ASSUME WorkOK, NEW p \in Procs
    PROVE  /\ Sound(proc[p]) /\ proc[p] \in Process
           /\ p = Cron => proc[p].op \in {"none", "cron"}
           /\ p # Cron => p \in Slots /\ proc[p].op # "cron"
BY Numbers DEF WorkOK, Sound, Procs

-----------------------------------------------------------------------------
(* A process goes on. *)

Marked == {"idle", "pick", "users", "write", "code.reverse", "code.delete", "name.write"}

LEMMA ChangeSound ==
    ASSUME NEW r, Sound(r), NEW s \in Process, s.op = r.op, s.u = r.u, s.us = r.us,
           s.named = r.named, s.code = r.code, s.name = r.name, Fits(s.op, s.pc),
           r.pc \notin Marked, s.pc \notin Marked
    PROVE  Sound(s)
<1>1. r.op # "none" /\ r.op # "match"
    BY DEF Sound, Idle, Marked, Fits, MatchLabels
<1>2. QED
    BY <1>1 DEF Sound, Marked

LEMMA SetWork ==
    ASSUME WorkOK, NEW p \in Procs, NEW r, Sound(r),
           p \in Slots => r.op # "cron",
           p = Cron => r.op \in {"none", "cron"},
           proc' = [proc EXCEPT ![p] = r]
    PROVE  WorkOK'
<1>1. r \in Process
    BY DEF Sound
<1>2. proc' \in [Procs -> Process]
    BY <1>1 DEF WorkOK
<1>3. \A q \in Procs : proc'[q] = IF q = p THEN r ELSE proc[q]
    BY DEF WorkOK
<1>4. \A q \in Procs : Sound(proc'[q])
    BY <1>3 DEF WorkOK
<1>5. \A q \in Slots : proc'[q].op # "cron"
    BY <1>3, Numbers DEF WorkOK
<1>6. proc'[Cron].op \in {"none", "cron"}
    BY <1>3, Numbers DEF WorkOK
<1>7. QED
    BY <1>2, <1>4, <1>5, <1>6 DEF WorkOK

LEMMA WorkStep ==
    ASSUME WorkOK, NEW p \in Procs, NEW r, Sound(r),
           r.op = proc[p].op \/ r.op = "none",
           proc' = [proc EXCEPT ![p] = r]
    PROVE  WorkOK'
BY WorkAt, SetWork, Numbers

LEMMA StopWork ==
    ASSUME WorkOK, NEW p \in Procs, Stop(p)
    PROVE  WorkOK'
BY WorkStep, IdleSound DEF Stop, Idle

LEMMA GotoWork ==
    ASSUME WorkOK, NEW p \in Procs, NEW pc \in Labels, Goto(p, pc),
           Fits(proc[p].op, pc), proc[p].pc \notin Marked, pc \notin Marked
    PROVE  WorkOK'
<1> DEFINE s == [proc[p] EXCEPT !.pc = pc]
<1>1. Sound(proc[p]) /\ proc[p] \in Process
    BY WorkAt
<1>2. s \in Process
    BY <1>1 DEF Process
<1>3. /\ s.op = proc[p].op /\ s.u = proc[p].u /\ s.us = proc[p].us /\ s.pc = pc
      /\ s.named = proc[p].named /\ s.code = proc[p].code /\ s.name = proc[p].name
    BY <1>1 DEF Process
<1>4. Sound(s)
    BY <1>1, <1>2, <1>3, ChangeSound
<1>5. QED
    BY <1>3, <1>4, WorkStep DEF Goto

LEMMA MissWork ==
    ASSUME WorkOK, NEW p \in Procs, NEW pc \in Labels, NEW kinds \in SUBSET Kinds,
           proc' = [proc EXCEPT ![p].pc = pc, ![p].missed = @ \cup kinds],
           Fits(proc[p].op, pc), proc[p].pc \notin Marked, pc \notin Marked
    PROVE  WorkOK'
<1> DEFINE s == [proc[p] EXCEPT !.pc = pc, !.missed = @ \cup kinds]
<1>1. Sound(proc[p]) /\ proc[p] \in Process
    BY WorkAt
<1>2. s \in Process
    BY <1>1 DEF Process
<1>3. /\ s.op = proc[p].op /\ s.u = proc[p].u /\ s.us = proc[p].us /\ s.pc = pc
      /\ s.named = proc[p].named /\ s.code = proc[p].code /\ s.name = proc[p].name
    BY <1>1 DEF Process
<1>4. Sound(s)
    BY <1>1, <1>2, <1>3, ChangeSound
<1>5. proc' = [proc EXCEPT ![p] = s]
    BY <1>1 DEF WorkOK
<1>6. QED
    BY <1>3, <1>4, <1>5, WorkStep

-----------------------------------------------------------------------------
(* What an action leaves alone keeps its type. *)

LEMMA Kept ==
    ASSUME TypeInv
    PROVE  /\ UNCHANGED accountVars => AccountsOK'
           /\ UNCHANGED codeVars => CodesOK'
           /\ UNCHANGED queueVars => QueueOK'
           /\ UNCHANGED <<traces, recent>> => RowsOK'
BY DEF TypeInv, AccountsOK, CodesOK, QueueOK, RowsOK, accountVars, codeVars, queueVars

LEMMA RestKept ==
    ASSUME RestOK, tainted' \subseteq Users, events' = events \/ InBound
    PROVE  RestOK'
BY Numbers DEF RestOK, InBound

LEMMA PassKept ==
    ASSUME PassOK, todo' = todo, proc'[Cron].pc = "idle" => proc[Cron].pc = "idle"
    PROVE  PassOK'
BY DEF PassOK

(* A step of a request leaves the cron alone. *)
LEMMA SlotStep ==
    ASSUME WorkOK, NEW p \in Slots, NEW r, proc' = [proc EXCEPT ![p] = r]
    PROVE  proc'[Cron] = proc[Cron]
BY Numbers DEF WorkOK

LEMMA SlotSteps ==
    ASSUME WorkOK, NEW p \in Slots
    PROVE  /\ Stop(p) => proc'[Cron] = proc[Cron]
           /\ \A pc : Goto(p, pc) => proc'[Cron] = proc[Cron]
BY Numbers DEF WorkOK, Stop, Goto

-----------------------------------------------------------------------------
(* Requests begin. *)

LEMMA BeginType ==
    ASSUME TypeInv, NEW p \in Slots, NEW r, Sound(r), r.op # "cron", Begin(p, r)
    PROVE  WorkOK' /\ (todo' = todo => PassOK') /\ (tainted' \subseteq Users => RestOK')
<1>1. proc' = [proc EXCEPT ![p] = r] /\ InBound
    BY DEF Begin
<1>2. WorkOK'
    BY <1>1, SetWork, Numbers DEF TypeInv
<1>3. todo' = todo => PassOK'
    BY <1>1, SlotStep, PassKept DEF TypeInv
<1>4. tainted' \subseteq Users => RestOK'
    BY <1>1, RestKept DEF TypeInv
<1>5. QED
    BY <1>2, <1>3, <1>4

LEMMA BeginSound ==
    ASSUME NEW u \in Users
    PROVE  /\ Sound([Idle EXCEPT !.op = "delete", !.u = u, !.pc = "queue"])
           /\ Sound([Idle EXCEPT !.op = "code", !.u = u, !.pc = "code.look"])
           /\ Sound([Idle EXCEPT !.op = "refresh", !.u = u, !.pc = "check"])
           /\ Sound([Idle EXCEPT !.op = "close", !.u = u, !.pc = "code.read"])
           /\ \A clamps \in BOOLEAN :
                Sound([Idle EXCEPT !.op = "signin", !.u = u, !.clamps = clamps,
                                   !.pc = "name.read"])
<1>1. Sound([Idle EXCEPT !.op = "delete", !.u = u, !.pc = "queue"])
    BY Numbers DEF Sound, Fits, Idle, Process, Ops, Labels, PurgeLabels, DeleteLabels
<1>2. Sound([Idle EXCEPT !.op = "code", !.u = u, !.pc = "code.look"])
    BY Numbers DEF Sound, Fits, Idle, Process, Ops, Labels, CodeLabels
<1>3. Sound([Idle EXCEPT !.op = "refresh", !.u = u, !.pc = "check"])
    BY Numbers DEF Sound, Fits, Idle, Process, Ops, Labels, NameLabels
<1>4. Sound([Idle EXCEPT !.op = "close", !.u = u, !.pc = "code.read"])
    BY Numbers DEF Sound, Fits, Idle, Process, Ops, Labels, PurgeLabels, CloseLabels
<1>5. ASSUME NEW clamps \in BOOLEAN
      PROVE  Sound([Idle EXCEPT !.op = "signin", !.u = u, !.clamps = clamps, !.pc = "name.read"])
    BY Numbers DEF Sound, Fits, Idle, Process, Ops, Labels, NameLabels
<1>6. QED
    BY <1>1, <1>2, <1>3, <1>4, <1>5

LEMMA MatchSound ==
    ASSUME NEW us \in SUBSET Users
    PROVE  Sound([Idle EXCEPT !.op = "match", !.us = us, !.pc = "users"])
BY Numbers DEF Sound, Fits, Idle, Process, Ops, Labels, MatchLabels

LEMMA TaintType ==
    ASSUME RestOK, NEW u \in Users, PurgeBegins(u)
    PROVE  tainted' \subseteq Users
BY DEF RestOK, PurgeBegins

LEMMA EraseType ==
    ASSUME TypeInv, NEW u \in Users, Erase(u), UNCHANGED <<answer, overtaken, dropped>>
    PROVE  AccountsOK' /\ QueueOK' /\ RowsOK'
BY DEF TypeInv, AccountsOK, QueueOK, RowsOK, Erase

LEMMA RequestsType ==
    ASSUME TypeInv, NEW p \in Slots, NEW u \in Users,
           \/ DeleteBegin(p, u) \/ CodeBegin(p, u) \/ RefreshBegin(p, u)
           \/ \E clamps \in Clamps : SignInBegin(p, u, clamps)
    PROVE  TypeInv'
<1>1. CASE DeleteBegin(p, u)
    <2>1. WorkOK' /\ PassOK' /\ RestOK'
        BY <1>1, BeginType, BeginSound DEF DeleteBegin, TypeInv, RestOK, Idle
    <2>2. QED
        BY <1>1, <2>1, Kept DEF DeleteBegin, TypeInv
<1>2. CASE CodeBegin(p, u)
    <2>1. tainted' \subseteq Users
        BY <1>2 DEF CodeBegin, TypeInv, RestOK
    <2>2. WorkOK' /\ PassOK' /\ RestOK'
        BY <1>2, <2>1, BeginType, BeginSound DEF CodeBegin, Idle
    <2>3. QED
        BY <1>2, <2>2, Kept DEF CodeBegin, TypeInv
<1>3. CASE RefreshBegin(p, u)
    <2>1. WorkOK' /\ PassOK' /\ RestOK'
        BY <1>3, BeginType, BeginSound DEF RefreshBegin, TypeInv, RestOK, Idle
    <2>2. QED
        BY <1>3, <2>1, Kept DEF RefreshBegin, TypeInv
<1>4. ASSUME NEW clamps \in Clamps, SignInBegin(p, u, clamps)
      PROVE  TypeInv'
    <2>1. clamps \in BOOLEAN
        BY Numbers
    <2>2. WorkOK' /\ PassOK' /\ RestOK'
        BY <1>4, <2>1, BeginType, BeginSound DEF SignInBegin, TypeInv, RestOK, Idle
    <2>3. AccountsOK'
        BY <1>4 DEF SignInBegin, TypeInv, AccountsOK
    <2>4. QED
        BY <1>4, <2>2, <2>3, Kept DEF SignInBegin, TypeInv
<1>5. QED
    BY <1>1, <1>2, <1>3, <1>4

LEMMA CloseType ==
    ASSUME TypeInv, NEW p \in Slots, NEW u \in Users, Close(p, u)
    PROVE  TypeInv'
<1>1. tainted' \subseteq Users
    BY TaintType DEF Close, TypeInv
<1>2. WorkOK' /\ PassOK' /\ RestOK'
    BY <1>1, BeginType, BeginSound DEF Close, Idle
<1>3. AccountsOK' /\ QueueOK' /\ RowsOK'
    BY EraseType DEF Close
<1>4. QED
    BY <1>2, <1>3, Kept DEF Close, TypeInv

LEMMA MatchBeginType ==
    ASSUME TypeInv, NEW p \in Slots, NEW us \in SUBSET Users, MatchBegin(p, us)
    PROVE  TypeInv'
<1>1. tainted' \subseteq Users
    BY DEF MatchBegin, TypeInv, RestOK
<1>2. WorkOK' /\ PassOK' /\ RestOK'
    BY <1>1, BeginType, MatchSound DEF MatchBegin, Idle
<1>3. QED
    BY <1>2, Kept DEF MatchBegin, TypeInv

-----------------------------------------------------------------------------
(* The deletion request, the friend code, the match, the sign-in. *)

LEMMA RequestStops ==
    ASSUME TypeInv, NEW p \in Slots, Stop(p), todo' = todo
    PROVE  WorkOK' /\ PassOK'
<1>1. WorkOK'
    BY StopWork, Numbers DEF TypeInv
<1>2. PassOK'
    BY SlotSteps, PassKept DEF TypeInv
<1>3. QED
    BY <1>1, <1>2

LEMMA RequestGoes ==
    ASSUME TypeInv, NEW p \in Slots, NEW pc \in Labels \ Marked, Goto(p, pc),
           Fits(proc[p].op, pc), proc[p].pc \notin Marked, todo' = todo
    PROVE  WorkOK' /\ PassOK'
<1>1. WorkOK'
    BY GotoWork, Numbers DEF TypeInv
<1>2. PassOK'
    BY SlotSteps, PassKept DEF TypeInv
<1>3. QED
    BY <1>1, <1>2

LEMMA RequestMisses ==
    ASSUME TypeInv, NEW p \in Slots, NEW pc \in Labels \ Marked, NEW kinds \in SUBSET Kinds,
           proc' = [proc EXCEPT ![p].pc = pc, ![p].missed = @ \cup kinds],
           Fits(proc[p].op, pc), proc[p].pc \notin Marked, todo' = todo
    PROVE  WorkOK' /\ PassOK'
<1>1. WorkOK'
    BY MissWork, Numbers DEF TypeInv
<1>2. proc'[Cron] = proc[Cron]
    BY Numbers DEF TypeInv, WorkOK
<1>3. PassOK'
    BY <1>2, PassKept DEF TypeInv
<1>4. QED
    BY <1>1, <1>3

(* The process of a request that is past its queue row, or at it. *)
LEMMA Deleting ==
    ASSUME TypeInv, NEW p \in Slots,
           proc[p].pc \in {"queue", "scrub", "social", "storage", "activity", "logout", "sockets"}
    PROVE  /\ proc[p].op = "delete" /\ proc[p].u \in Users /\ proc[p].pc \notin Marked
           /\ \A pc \in DeleteLabels : Fits(proc[p].op, pc)
           /\ DeleteLabels \subseteq Labels
<1>1. Sound(proc[p])
    BY WorkAt, Numbers DEF TypeInv
<1>2. proc[p].op = "delete" /\ proc[p].u \in Users
    BY <1>1, OpOfLabel, UserOfLabel DEF MatchLabels
<1>3. QED
    BY <1>2 DEF Marked, Fits, DeleteLabels, Labels, PurgeLabels

LEMMA QueueDeletionType ==
    ASSUME TypeInv, NEW p \in Slots, QueueDeletion(p)
    PROVE  TypeInv'
<1> DEFINE u == proc[p].u
<1>1. proc[p].pc = "queue" /\ u \in Users
    BY Deleting DEF QueueDeletion, At
<1>2. WorkOK' /\ PassOK'
    BY <1>1, Deleting, RequestStops, RequestGoes DEF QueueDeletion, DeleteLabels, Marked
<1>3. AccountsOK'
    BY <1>1 DEF QueueDeletion, TypeInv, AccountsOK
<1>4. QueueOK'
    BY <1>1 DEF QueueDeletion, TypeInv, QueueOK
<1>5. RestOK'
    BY RestKept DEF QueueDeletion, TypeInv, RestOK, Fault
<1>6. QED
    BY <1>2, <1>3, <1>4, <1>5, Kept DEF QueueDeletion, TypeInv

LEMMA ScrubProfileType ==
    ASSUME TypeInv, NEW p \in Slots, ScrubProfile(p)
    PROVE  TypeInv'
<1> DEFINE u == proc[p].u
<1>1. proc[p].pc = "scrub" /\ u \in Users
    BY Deleting DEF ScrubProfile, At
<1>2. WorkOK' /\ PassOK'
    BY <1>1, Deleting, RequestGoes DEF ScrubProfile, DeleteLabels, Marked
<1>3. AccountsOK'
    BY <1>1 DEF ScrubProfile, TypeInv, AccountsOK
<1>4. RestOK'
    BY RestKept DEF ScrubProfile, TypeInv, RestOK, Fault
<1>5. QED
    BY <1>2, <1>3, <1>4, Kept DEF ScrubProfile, TypeInv

LEMMA ClearsType ==
    ASSUME TypeInv, NEW p \in Slots, NEW at \in {"social", "activity"},
           NEW kinds \in SUBSET Kinds, NEW next \in DeleteLabels \ Marked,
           Clears(p, at, kinds, next), UNCHANGED tainted
    PROVE  TypeInv'
<1> DEFINE u == proc[p].u
<1>1. proc[p].pc = at /\ u \in Users /\ next \in Labels \ Marked /\ todo' = todo
    BY Deleting DEF Clears, At
<1>2. WorkOK' /\ PassOK'
    BY <1>1, Deleting, RequestGoes, RequestMisses DEF Clears
<1>3. RowsOK'
    BY <1>1 DEF Clears, TypeInv, RowsOK
<1>4. RestOK'
    BY RestKept DEF Clears, TypeInv, RestOK, Fault
<1>5. QED
    BY <1>2, <1>3, <1>4, Kept DEF Clears, TypeInv

LEMMA ScrubStorageType ==
    ASSUME TypeInv, NEW p \in Slots, ScrubStorage(p)
    PROVE  TypeInv'
<1> DEFINE u == proc[p].u
<1>1. proc[p].pc = "storage" /\ u \in Users /\ todo' = todo /\ {"storage"} \in SUBSET Kinds
    BY Deleting DEF ScrubStorage, At, Kinds, Owned
<1>2. WorkOK' /\ PassOK'
    BY <1>1, Deleting, RequestGoes, RequestMisses DEF ScrubStorage, DeleteLabels, Marked
<1>3. RowsOK'
    BY <1>1 DEF ScrubStorage, TypeInv, RowsOK
<1>4. RestOK'
    BY <1>1, RestKept, TaintType DEF ScrubStorage, TypeInv, Fault
<1>5. QED
    BY <1>2, <1>3, <1>4, Kept DEF ScrubStorage, TypeInv

LEMMA LogOutType ==
    ASSUME TypeInv, NEW p \in Slots, LogOut(p)
    PROVE  TypeInv'
<1> DEFINE u == proc[p].u
<1>1. proc[p].pc = "logout" /\ u \in Users
    BY Deleting DEF LogOut, At
<1>2. WorkOK' /\ PassOK'
    BY <1>1, Deleting, RequestStops, RequestGoes DEF LogOut, DeleteLabels, Marked
<1>3. AccountsOK'
    BY <1>1 DEF LogOut, TypeInv, AccountsOK
<1>4. QueueOK'
    BY <1>1 DEF LogOut, TypeInv, QueueOK
<1>5. RestOK'
    BY RestKept DEF LogOut, TypeInv, RestOK, Fault
<1>6. QED
    BY <1>2, <1>3, <1>4, <1>5, Kept DEF LogOut, TypeInv

LEMMA DisconnectType ==
    ASSUME TypeInv, NEW p \in Slots, Disconnect(p)
    PROVE  TypeInv'
<1> DEFINE u == proc[p].u
<1>1. proc[p].pc = "sockets" /\ u \in Users
    BY Deleting DEF Disconnect, At
<1>2. WorkOK' /\ PassOK'
    BY <1>1, RequestStops DEF Disconnect
<1>3. QueueOK'
    BY <1>1 DEF Disconnect, TypeInv, QueueOK
<1>4. RestOK'
    BY RestKept DEF Disconnect, TypeInv, RestOK, Fault
<1>5. QED
    BY <1>2, <1>3, <1>4, Kept DEF Disconnect, TypeInv

LEMMA CodeLookType ==
    ASSUME TypeInv, NEW p \in Slots, CodeLook(p)
    PROVE  TypeInv'
<1> DEFINE u == proc[p].u
<1>1. proc[p].pc = "code.look" /\ Sound(proc[p])
    BY WorkAt, Numbers DEF CodeLook, At, TypeInv
<1>2. u \in Users /\ proc[p].op = "code" /\ proc[p].pc \notin Marked
    BY <1>1, OpOfLabel, UserOfLabel DEF MatchLabels, CodeLabels, Marked
<1>3. WorkOK' /\ PassOK'
    BY <1>2, RequestStops, RequestGoes DEF CodeLook, Fits, CodeLabels, Labels, Marked
<1>4. CodesOK'
    BY <1>2 DEF CodeLook, TypeInv, CodesOK
<1>5. RestOK'
    BY RestKept DEF CodeLook, TypeInv, RestOK, Fault
<1>6. QED
    BY <1>3, <1>4, <1>5, Kept DEF CodeLook, TypeInv

LEMMA CodeForwardType ==
    ASSUME TypeInv, NEW p \in Slots, CodeForward(p)
    PROVE  TypeInv'
<1> DEFINE u == proc[p].u
<1> DEFINE s(c) == [proc[p] EXCEPT !.pc = "code.reverse", !.code = c]
<1>1. proc[p].pc = "code.forward" /\ Sound(proc[p]) /\ proc[p] \in Process
    BY WorkAt, Numbers DEF CodeForward, At, TypeInv
<1>2. u \in Users /\ proc[p].op = "code"
    BY <1>1, OpOfLabel, UserOfLabel DEF MatchLabels, CodeLabels
<1>3. ASSUME NEW c \in Codes
      PROVE  Sound(s(c)) /\ s(c).op = proc[p].op
    <2>1. s(c) \in Process /\ s(c).op = "code" /\ s(c).pc = "code.reverse" /\ s(c).code = c
        BY <1>1, <1>2 DEF Process, Labels
    <2>2. s(c).u = proc[p].u /\ s(c).us = proc[p].us /\ s(c).named = proc[p].named
          /\ s(c).name = proc[p].name
        BY <1>1 DEF Process
    <2>3. QED
        BY <1>1, <1>2, <2>1, <2>2, Numbers DEF Sound, Fits, CodeLabels
<1>4. WorkOK' /\ PassOK'
    <2>1. CASE Stop(p)
        BY <2>1, RequestStops DEF CodeForward
    <2>2. ASSUME NEW c \in Codes, proc' = [proc EXCEPT ![p] = s(c)]
          PROVE  WorkOK' /\ PassOK'
        BY <1>3, <2>2, WorkStep, SlotStep, PassKept, Numbers DEF TypeInv, CodeForward
    <2>3. Stop(p) \/ \E c \in Codes : proc' = [proc EXCEPT ![p] = s(c)]
        BY DEF CodeForward
    <2>4. QED
        BY <2>1, <2>2, <2>3
<1>5. CodesOK'
    BY <1>2 DEF CodeForward, TypeInv, CodesOK
<1>6. RestOK'
    BY RestKept DEF CodeForward, TypeInv, RestOK, Fault
<1>7. QED
    BY <1>4, <1>5, <1>6, Kept DEF CodeForward, TypeInv

LEMMA CodeReverseType ==
    ASSUME TypeInv, NEW p \in Slots, CodeReverse(p)
    PROVE  TypeInv'
<1> DEFINE u == proc[p].u
<1>1. proc[p].pc = "code.reverse" /\ Sound(proc[p]) /\ proc[p] \in Process
    BY WorkAt, Numbers DEF CodeReverse, At, TypeInv
<1>2. u \in Users /\ proc[p].code \in Codes
    BY <1>1, UserOfLabel DEF MatchLabels, Sound, Process
<1>3. WorkOK' /\ PassOK'
    BY RequestStops DEF CodeReverse
<1>4. CodesOK'
    BY <1>2 DEF CodeReverse, TypeInv, CodesOK
<1>5. RestOK'
    BY RestKept DEF CodeReverse, TypeInv, RestOK, Fault
<1>6. QED
    BY <1>3, <1>4, <1>5, Kept DEF CodeReverse, TypeInv

LEMMA MatchStepsType ==
    ASSUME TypeInv, NEW p \in Slots, MatchUsers(p) \/ MatchWrite(p)
    PROVE  TypeInv'
<1>1. Sound(proc[p]) /\ proc[p] \in Process /\ proc[p].us \subseteq Users
    BY WorkAt, Numbers DEF TypeInv, Process
<1>2. proc[p].named \subseteq Users
    BY <1>1 DEF Process
<1>3. CASE MatchUsers(p)
    <2> DEFINE named == {u \in proc[p].us \cap accounts : name[u] # "deleted"}
    <2> DEFINE s == [proc[p] EXCEPT !.pc = "write", !.named = named]
    <2>1. proc[p].pc = "users" /\ proc[p].op = "match"
        BY <1>1, <1>3, OpOfLabel DEF MatchUsers, At, MatchLabels
    <2>2. named \subseteq proc[p].us
        OBVIOUS
    <2> HIDE DEF named
    <2>3. s \in Process /\ s.op = "match" /\ s.pc = "write" /\ s.named = named
        BY <1>1, <2>1, <2>2 DEF Process, Labels
    <2>4. /\ s.u = proc[p].u /\ s.us = proc[p].us /\ s.code = proc[p].code
          /\ s.name = proc[p].name
        BY <1>1 DEF Process
    <2>5. Sound(s)
        BY <1>1, <2>1, <2>2, <2>3, <2>4 DEF Sound, Fits, MatchLabels
    <2>6. Stop(p) \/ proc' = [proc EXCEPT ![p] = s]
        BY <1>3 DEF MatchUsers, named
    <2>7. WorkOK' /\ PassOK'
        BY <1>3, <2>1, <2>3, <2>5, <2>6, RequestStops, WorkStep, SlotStep, PassKept, Numbers
           DEF TypeInv, MatchUsers
    <2>8. RestOK'
        BY <1>3, RestKept DEF MatchUsers, TypeInv, RestOK, Fault
    <2>9. QED
        BY <1>3, <2>7, <2>8, Kept DEF MatchUsers, TypeInv
<1>4. CASE MatchWrite(p)
    <2>1. WorkOK' /\ PassOK'
        BY <1>4, RequestStops DEF MatchWrite
    <2>2. RowsOK'
        BY <1>1, <1>2, <1>4 DEF MatchWrite, TypeInv, RowsOK
    <2>3. RestOK'
        BY <1>4, RestKept DEF MatchWrite, TypeInv, RestOK, Fault
    <2>4. QED
        BY <1>4, <2>1, <2>2, <2>3, Kept DEF MatchWrite, TypeInv
<1>5. QED
    BY <1>3, <1>4

LEMMA Naming ==
    ASSUME TypeInv, NEW p \in Procs, proc[p].pc \in NameLabels
    PROVE  /\ Sound(proc[p]) /\ proc[p] \in Process /\ proc[p].u \in Users
           /\ p \in Slots => proc[p].op \in {"signin", "refresh"}
           /\ p = Cron => proc[p].op = "cron"
           /\ p \in Slots => \A pc \in NameLabels : Fits(proc[p].op, pc)
<1>1. Sound(proc[p]) /\ proc[p] \in Process
    BY WorkAt DEF TypeInv
<1>2. proc[p].u \in Users
    BY <1>1, UserOfLabel DEF MatchLabels, NameLabels
<1>3. proc[p].op \in {"signin", "refresh", "cron"}
    BY <1>1, OpOfLabel DEF NameLabels
<1>4. QED
    BY <1>1, <1>2, <1>3, WorkAt, Numbers DEF TypeInv, Fits

LEMMA RefreshStepsType ==
    ASSUME TypeInv, NEW p \in Slots, RefreshCheck(p) \/ Refresh(p)
    PROVE  TypeInv'
<1>1. proc[p].pc \in {"check", "refresh"} /\ {"refresh", "name.read"} \subseteq Labels \ Marked
    BY DEF RefreshCheck, Refresh, At, Labels, Marked
<1>2. Fits(proc[p].op, "refresh") /\ Fits(proc[p].op, "name.read")
    BY <1>1, Naming, Numbers DEF NameLabels
<1>3. WorkOK' /\ PassOK'
    BY <1>1, <1>2, RequestStops, RequestGoes DEF RefreshCheck, Refresh, Marked
<1>4. RestOK'
    BY RestKept DEF RefreshCheck, Refresh, TypeInv, RestOK, Fault
<1>5. QED
    BY <1>3, <1>4, Kept DEF RefreshCheck, Refresh, TypeInv

LEMMA NameReadType ==
    ASSUME TypeInv, NEW p \in Slots, NameRead(p)
    PROVE  TypeInv'
<1> DEFINE u == proc[p].u
<1> DEFINE new == NewName(u, proc[p].clamps)
<1> DEFINE s == [proc[p] EXCEPT !.pc = "name.write", !.name = new]
<1>1. proc[p].pc = "name.read"
    BY DEF NameRead, At
<1>2. /\ Sound(proc[p]) /\ proc[p] \in Process /\ proc[p].op \in {"signin", "refresh"}
      /\ u \in Users /\ \A pc \in NameLabels : Fits(proc[p].op, pc)
    BY <1>1, Naming, Numbers DEF NameLabels
<1>3. new \in {"keep", "own", "clamped"}
    BY DEF NewName
<1>4. ASSUME new # "keep"
      PROVE  Sound(s) /\ s.op = proc[p].op
    <2> HIDE DEF new
    <2>1. s \in Process /\ s.op = proc[p].op /\ s.pc = "name.write" /\ s.name = new
        BY <1>2, <1>3 DEF Process, Labels
    <2>2. /\ s.u = proc[p].u /\ s.us = proc[p].us /\ s.named = proc[p].named
          /\ s.code = proc[p].code
        BY <1>2 DEF Process
    <2>3. QED
        BY <1>1, <1>2, <1>4, <2>1, <2>2 DEF Sound, Fits, NameLabels
<1>5. WorkOK' /\ PassOK'
    <2>1. CASE Goto(p, "enforce")
        BY <1>1, <1>2, <2>1, RequestGoes DEF NameRead, NameLabels, Marked, Labels
    <2>2. CASE new # "keep" /\ proc' = [proc EXCEPT ![p] = s]
        BY <1>4, <2>2, WorkStep, SlotStep, PassKept, Numbers DEF TypeInv, NameRead
    <2>3. QED
        BY <2>1, <2>2 DEF NameRead
<1>6. RestOK'
    BY RestKept DEF NameRead, TypeInv, RestOK, Fault
<1>7. QED
    BY <1>5, <1>6, Kept DEF NameRead, TypeInv

LEMMA NameWriteType ==
    ASSUME TypeInv, NEW p \in Slots, NameWrite(p)
    PROVE  TypeInv'
<1> DEFINE u == proc[p].u
<1> DEFINE s == [proc[p] EXCEPT !.pc = "enforce", !.name = "keep"]
<1>1. proc[p].pc = "name.write"
    BY DEF NameWrite, At
<1>2. /\ Sound(proc[p]) /\ proc[p] \in Process /\ proc[p].op \in {"signin", "refresh"}
      /\ u \in Users
    BY <1>1, Naming, Numbers DEF NameLabels
<1>3. s \in Process /\ s.op = proc[p].op /\ s.pc = "enforce" /\ s.name = "keep"
    BY <1>2 DEF Process, Labels
<1>4. /\ s.u = proc[p].u /\ s.us = proc[p].us /\ s.named = proc[p].named
      /\ s.code = proc[p].code
    BY <1>2 DEF Process
<1>5. Sound(s)
    BY <1>1, <1>2, <1>3, <1>4 DEF Sound, Fits, NameLabels
<1>6. proc' = [proc EXCEPT ![p] = s]
    BY DEF NameWrite
<1>7. WorkOK' /\ PassOK'
    BY <1>3, <1>5, <1>6, WorkStep, SlotStep, PassKept, Numbers DEF TypeInv, NameWrite
<1>8. proc[p].name \in {"own", "clamped"}
    BY <1>1, <1>2 DEF Sound, Process
<1>9. AccountsOK'
    BY <1>2, <1>8 DEF NameWrite, TypeInv, AccountsOK
<1>10. RestOK'
    BY RestKept DEF NameWrite, TypeInv, RestOK, Fault
<1>11. QED
    BY <1>7, <1>9, <1>10, Kept DEF NameWrite, TypeInv

-----------------------------------------------------------------------------
(* The purge and the enforcement, in a request or in the cron's pass. *)

LEMMA SharedGoes ==
    ASSUME TypeInv, NEW p \in Procs, NEW pc \in Labels \ Marked, Goto(p, pc),
           Fits(proc[p].op, pc), proc[p].pc \notin Marked, todo' = todo
    PROVE  WorkOK' /\ PassOK'
<1>1. WorkOK'
    BY GotoWork, Numbers DEF TypeInv
<1>2. proc'[Cron].pc \in {pc, proc[Cron].pc}
    BY Numbers DEF Goto, TypeInv, WorkOK, Process
<1>3. PassOK'
    BY <1>2, PassKept DEF TypeInv, Marked
<1>4. QED
    BY <1>1, <1>3

LEMMA Purges ==
    ASSUME TypeInv, NEW p \in Procs, proc[p].pc \in CloseLabels
    PROVE  /\ Sound(proc[p]) /\ proc[p] \in Process /\ proc[p].u \in Users
           /\ proc[p].op \in {"delete", "close", "cron"}
           /\ p = Cron => proc[p].op = "cron"
           /\ p \in Slots => proc[p].op \in {"delete", "close"}
           /\ \A pc \in CloseLabels : Fits(proc[p].op, pc)
           /\ CloseLabels \subseteq Labels
<1>1. Sound(proc[p]) /\ proc[p] \in Process
    BY WorkAt DEF TypeInv
<1>2. proc[p].u \in Users
    BY <1>1, UserOfLabel DEF MatchLabels, CloseLabels
<1>3. proc[p].op \in {"delete", "close", "cron"}
    BY <1>1, OpOfLabel DEF CloseLabels
<1>4. (p = Cron => proc[p].op = "cron") /\ (p \in Slots => proc[p].op \in {"delete", "close"})
    BY <1>3, WorkAt, Numbers DEF TypeInv
<1>5. QED
    BY <1>1, <1>2, <1>3, <1>4 DEF Fits, CloseLabels, DeleteLabels, CronLabels, PurgeLabels,
                                  Labels

LEMMA CodeReadType ==
    ASSUME TypeInv, NEW p \in Procs, CodeRead(p)
    PROVE  TypeInv'
<1> DEFINE u == proc[p].u
<1> DEFINE s == [proc[p] EXCEPT !.pc = "code.delete", !.code = reverse[u]]
<1>1. proc[p].pc = "code.read"
    BY DEF CodeRead, At
<1>2. /\ Sound(proc[p]) /\ proc[p] \in Process /\ proc[p].op \in {"delete", "close", "cron"}
      /\ u \in Users /\ \A pc \in CloseLabels : Fits(proc[p].op, pc)
    BY <1>1, Purges DEF CloseLabels
<1>3. reverse[u] \in Codes \cup {None}
    BY <1>2 DEF TypeInv, CodesOK
<1>4. s \in Process /\ s.op = proc[p].op /\ s.pc = "code.delete"
    BY <1>2, <1>3 DEF Process, Labels, PurgeLabels
<1>5. /\ s.u = proc[p].u /\ s.us = proc[p].us /\ s.named = proc[p].named
      /\ s.name = proc[p].name
    BY <1>2 DEF Process
<1>6. Sound(s)
    BY <1>1, <1>2, <1>4, <1>5 DEF Sound, CloseLabels
<1>7. WorkOK' /\ PassOK'
    <2>1. CASE Goto(p, "refs")
        BY <1>1, <1>2, <2>1, SharedGoes DEF CodeRead, Marked, Labels, PurgeLabels, CloseLabels
    <2>2. CASE proc' = [proc EXCEPT ![p] = s]
        <3>1. WorkOK'
            BY <1>4, <1>6, <2>2, WorkStep DEF TypeInv
        <3>2. proc'[Cron].pc \in {"code.delete", proc[Cron].pc}
            BY <1>4, <2>2, Numbers DEF TypeInv, WorkOK
        <3>3. QED
            BY <3>1, <3>2, PassKept DEF TypeInv, CodeRead
    <2>3. QED
        BY <2>1, <2>2 DEF CodeRead
<1>8. RestOK'
    BY <1>2, RestKept DEF CodeRead, TypeInv, RestOK, Fault
<1>9. QED
    BY <1>7, <1>8, Kept DEF CodeRead, TypeInv

LEMMA CodeDeleteType ==
    ASSUME TypeInv, NEW p \in Procs, CodeDelete(p)
    PROVE  TypeInv'
<1> DEFINE u == proc[p].u
<1> DEFINE c == proc[p].code
<1> DEFINE s == [proc[p] EXCEPT !.pc = "refs", !.code = None]
<1>1. proc[p].pc = "code.delete"
    BY DEF CodeDelete, At
<1>2. /\ Sound(proc[p]) /\ proc[p] \in Process /\ proc[p].op \in {"delete", "close", "cron"}
      /\ u \in Users /\ \A pc \in CloseLabels : Fits(proc[p].op, pc)
    BY <1>1, Purges DEF CloseLabels
<1>3. c \in Codes \cup {None}
    BY <1>2 DEF Process
<1>4. s \in Process /\ s.op = proc[p].op /\ s.pc = "refs" /\ s.code = None
    BY <1>2 DEF Process, Labels, PurgeLabels
<1>5. /\ s.u = proc[p].u /\ s.us = proc[p].us /\ s.named = proc[p].named
      /\ s.name = proc[p].name
    BY <1>2 DEF Process
<1>6. Sound(s)
    BY <1>1, <1>2, <1>4, <1>5 DEF Sound, CloseLabels
<1>7. proc' = [proc EXCEPT ![p] = s]
    BY DEF CodeDelete
<1>8. WorkOK'
    BY <1>4, <1>6, <1>7, WorkStep DEF TypeInv
<1>9. proc'[Cron].pc \in {"refs", proc[Cron].pc}
    BY <1>4, <1>7, Numbers DEF TypeInv, WorkOK
<1>10. PassOK'
    BY <1>9, PassKept DEF TypeInv, CodeDelete
<1>11. CodesOK'
    BY <1>2, <1>3 DEF CodeDelete, TypeInv, CodesOK, codeVars
<1>12. RestOK'
    BY <1>2, RestKept DEF CodeDelete, TypeInv, RestOK, Fault
<1>13. QED
    BY <1>8, <1>10, <1>11, <1>12, Kept DEF CodeDelete, TypeInv

LEMMA DeleteRefsType ==
    ASSUME TypeInv, NEW p \in Procs, DeleteRefs(p)
    PROVE  TypeInv'
<1>1. proc[p].pc = "refs"
    BY DEF DeleteRefs, At
<1>2. proc[p].u \in Users /\ Fits(proc[p].op, "sent")
    BY <1>1, Purges DEF CloseLabels
<1>3. WorkOK' /\ PassOK'
    BY <1>1, <1>2, SharedGoes DEF DeleteRefs, Marked, Labels, PurgeLabels
<1>4. RowsOK'
    BY DEF DeleteRefs, TypeInv, RowsOK
<1>5. RestOK'
    BY <1>2, RestKept DEF DeleteRefs, TypeInv, RestOK, Fault
<1>6. QED
    BY <1>3, <1>4, <1>5, Kept DEF DeleteRefs, TypeInv

LEMMA DeleteSentType ==
    ASSUME TypeInv, NEW p \in Procs, DeleteSent(p)
    PROVE  TypeInv'
<1> DEFINE u == proc[p].u
<1> DEFINE next == AfterPurge(proc[p].op)
<1>1. proc[p].pc = "sent" /\ todo' = todo /\ {"sent"} \in SUBSET Kinds
    BY DEF DeleteSent, At, Kinds
<1>2. /\ Sound(proc[p]) /\ proc[p] \in Process /\ proc[p].op \in {"delete", "close", "cron"}
      /\ u \in Users /\ (p = Cron => proc[p].op = "cron") /\ (p \in Slots => proc[p].op # "cron")
    BY <1>1, Purges DEF CloseLabels
<1>3. next \in {"activity", "account", "idle"} /\ (p = Cron => next = "account")
    BY <1>2 DEF AfterPurge
<1>4. next # "idle" => next \in Labels \ Marked /\ Fits(proc[p].op, next)
    BY <1>2 DEF AfterPurge, Labels, Marked, PurgeLabels, Fits, DeleteLabels, CronLabels
<1>5. p = Cron \/ p \in Slots
    BY WorkAt DEF TypeInv
<1>6. WorkOK' /\ PassOK'
    <2> HIDE DEF next
    <2>1. CASE next = "idle" /\ Stop(p)
        BY <1>1, <1>3, <1>5, <2>1, RequestStops
    <2>2. CASE next # "idle" /\ Goto(p, next)
        BY <1>1, <1>4, <2>2, SharedGoes DEF Marked
    <2>3. CASE next # "idle" /\ proc' = [proc EXCEPT ![p].pc = next, ![p].missed = @ \cup {"sent"}]
        <3>1. WorkOK'
            BY <1>1, <1>4, <2>3, MissWork DEF Marked, TypeInv
        <3>2. proc'[Cron].pc \in {next, proc[Cron].pc}
            BY <2>3, Numbers DEF TypeInv, WorkOK, Process
        <3>3. QED
            BY <1>1, <2>3, <3>1, <3>2, PassKept DEF TypeInv
    <2>4. QED
        BY <2>1, <2>2, <2>3 DEF DeleteSent, next
<1>7. RowsOK'
    BY <1>2 DEF DeleteSent, TypeInv, RowsOK
<1>8. RestOK'
    BY <1>2, RestKept DEF DeleteSent, TypeInv, RestOK, Fault
<1>9. QED
    BY <1>6, <1>7, <1>8, Kept DEF DeleteSent, TypeInv

LEMMA EnforceProfileType ==
    ASSUME TypeInv, NEW p \in Procs, EnforceProfile(p)
    PROVE  TypeInv'
<1>1. proc[p].pc = "enforce" /\ todo' = todo /\ AfterEnforce(p)
    BY DEF EnforceProfile, At
<1>2. proc[p].u \in Users /\ (p = Cron => proc[p].op = "cron")
    BY <1>1, Naming DEF NameLabels
<1>3. WorkOK' /\ PassOK'
    <2>1. CASE p = Cron
        <3>1. Fits(proc[p].op, "minimize") /\ Goto(p, "minimize")
            BY <1>1, <1>2, <2>1 DEF Fits, CronLabels, AfterEnforce
        <3>2. QED
            BY <1>1, <3>1, SharedGoes DEF Marked, Labels
    <2>2. CASE p # Cron
        <3>1. p \in Slots
            BY <2>2, WorkAt DEF TypeInv
        <3>2. QED
            BY <1>1, <2>2, <3>1, RequestStops DEF AfterEnforce
    <2>3. QED
        BY <2>1, <2>2
<1>4. AccountsOK'
    BY <1>2 DEF EnforceProfile, TypeInv, AccountsOK
<1>5. RestOK'
    BY RestKept DEF EnforceProfile, TypeInv, RestOK, Fault
<1>6. QED
    BY <1>3, <1>4, <1>5, Kept DEF EnforceProfile, TypeInv

-----------------------------------------------------------------------------
(* The cron. *)

LEMMA Passing ==
    ASSUME TypeInv, NEW r \in Process, Sound(r), r.op \in {"none", "cron"},
           proc' = [proc EXCEPT ![Cron] = r]
    PROVE  WorkOK' /\ proc'[Cron] = r
<1>1. WorkOK'
    BY SetWork, Numbers DEF TypeInv
<1>2. QED
    BY <1>1, Numbers DEF TypeInv, WorkOK

LEMMA CronAt ==
    ASSUME TypeInv
    PROVE  /\ Sound(proc[Cron]) /\ proc[Cron] \in Process
           /\ proc[Cron].op \in {"none", "cron"}
           /\ proc[Cron].pc # "idle" => proc[Cron].op = "cron"
           /\ proc[Cron].pc \in CronLabels \ {"pick"} => proc[Cron].u \in Users
<1>1. Sound(proc[Cron]) /\ proc[Cron] \in Process /\ proc[Cron].op \in {"none", "cron"}
    BY WorkAt, Numbers DEF TypeInv
<1>2. proc[Cron].pc # "idle" => proc[Cron].op = "cron"
    BY <1>1 DEF Sound, Fits
<1>3. proc[Cron].pc \in CronLabels \ {"pick"} => proc[Cron].u \in Users
    BY <1>1, UserOfLabel DEF CronLabels, PurgeLabels, MatchLabels
<1>4. QED
    BY <1>1, <1>2, <1>3

(* The cron goes from one listed account to the next. *)
LEMMA NextPick ==
    ASSUME TypeInv, proc[Cron].pc \in {"recent", "unqueue"},
           proc' = [proc EXCEPT ![Cron].pc = "pick", ![Cron].u = None], todo' = todo
    PROVE  WorkOK' /\ PassOK'
<1> DEFINE s == [proc[Cron] EXCEPT !.pc = "pick", !.u = None]
<1>1. /\ Sound(proc[Cron]) /\ proc[Cron] \in Process /\ proc[Cron].op = "cron"
    BY CronAt
<1>2. s \in Process /\ s.op = "cron" /\ s.pc = "pick" /\ s.u = None
    BY <1>1 DEF Process, Labels
<1>3. /\ s.us = proc[Cron].us /\ s.named = proc[Cron].named
      /\ s.name = proc[Cron].name /\ s.code = proc[Cron].code
    BY <1>1 DEF Process
<1>4. Sound(s)
    BY <1>1, <1>2, <1>3 DEF Sound, Fits, CronLabels
<1>5. proc' = [proc EXCEPT ![Cron] = s]
    OBVIOUS
<1>6. WorkOK' /\ proc'[Cron] = s
    BY <1>2, <1>4, <1>5, Passing
<1>7. QED
    BY <1>2, <1>6, PassKept DEF TypeInv

(* It picks one. *)
LEMMA PickToType ==
    ASSUME TypeInv, NEW u \in Users, NEW pc \in {"code.read", "enforce"}, PickTo(u, pc)
    PROVE  WorkOK' /\ PassOK'
<1> DEFINE s == [proc[Cron] EXCEPT !.pc = pc, !.u = u]
<1>1. proc[Cron].pc = "pick"
    BY DEF PickTo, At
<1>2. /\ Sound(proc[Cron]) /\ proc[Cron] \in Process /\ proc[Cron].op = "cron"
    BY <1>1, CronAt
<1>3. s \in Process /\ s.op = "cron" /\ s.pc = pc /\ s.u = u
    BY <1>2 DEF Process, Labels, PurgeLabels
<1>4. /\ s.us = proc[Cron].us /\ s.named = proc[Cron].named
      /\ s.name = proc[Cron].name /\ s.code = proc[Cron].code
    BY <1>2 DEF Process
<1>5. Sound(s)
    BY <1>1, <1>2, <1>3, <1>4, Numbers DEF Sound, Fits, CronLabels, PurgeLabels
<1>6. proc' = [proc EXCEPT ![Cron] = s]
    BY DEF PickTo
<1>7. WorkOK' /\ proc'[Cron] = s
    BY <1>3, <1>5, <1>6, Passing
<1>8. PassOK'
    BY <1>3, <1>7 DEF PassOK, TypeInv, PickTo
<1>9. QED
    BY <1>7, <1>8

LEMMA ListQueueType ==
    ASSUME TypeInv, ListQueue
    PROVE  TypeInv'
<1> DEFINE s == [Idle EXCEPT !.op = "cron", !.pc = "pick"]
<1>1. s \in Process /\ s.op = "cron" /\ s.pc = "pick" /\ Sound(s)
    BY DEF Idle, Process, Ops, Labels, Sound, Fits, CronLabels
<1>2. WorkOK' /\ PassOK'
    <2>1. CASE todo' = queue /\ proc' = [proc EXCEPT ![Cron] = s]
        <3>1. WorkOK' /\ proc'[Cron] = s
            BY <1>1, <2>1, Passing
        <3>2. QED
            BY <1>1, <2>1, <3>1 DEF PassOK, TypeInv, QueueOK
    <2>2. CASE UNCHANGED <<todo, proc>>
        BY <2>2 DEF TypeInv, WorkOK, PassOK
    <2>3. QED
        BY <2>1, <2>2 DEF ListQueue
<1>3. RestOK'
    BY RestKept DEF ListQueue, TypeInv, RestOK, Fault
<1>4. QED
    BY <1>2, <1>3, Kept DEF ListQueue, TypeInv

LEMMA PicksType ==
    ASSUME TypeInv, NEW u \in Users, PickDelete(u) \/ PickKeepClear(u)
    PROVE  TypeInv'
<1>1. WorkOK' /\ PassOK'
    BY PickToType DEF PickDelete, PickKeepClear
<1>2. RestOK'
    BY RestKept, TaintType DEF PickDelete, PickKeepClear, TypeInv, RestOK
<1>3. QED
    BY <1>1, <1>2, Kept DEF PickDelete, PickKeepClear, TypeInv

LEMMA PassEndsType ==
    ASSUME TypeInv, PassEnds
    PROVE  TypeInv'
<1>1. WorkOK' /\ proc'[Cron] = Idle
    BY IdleSound, Passing DEF PassEnds, Stop, Idle
<1>2. PassOK'
    BY DEF PassEnds, PassOK, TypeInv
<1>3. RestOK'
    BY RestKept DEF PassEnds, TypeInv, RestOK
<1>4. QED
    BY <1>1, <1>2, <1>3, Kept DEF PassEnds, TypeInv

LEMMA MinimizeType ==
    ASSUME TypeInv, Minimize
    PROVE  TypeInv'
<1>1. proc[Cron].pc = "minimize"
    BY DEF Minimize, At
<1>2. Fits(proc[Cron].op, "recent")
    BY <1>1, CronAt DEF Fits, CronLabels
<1>3. WorkOK' /\ PassOK'
    BY <1>1, <1>2, SharedGoes, Numbers DEF Minimize, Marked, Labels
<1>4. QueueOK'
    BY DEF Minimize, TypeInv, QueueOK
<1>5. RestOK'
    BY RestKept DEF Minimize, TypeInv, RestOK, Fault
<1>6. QED
    BY <1>3, <1>4, <1>5, Kept DEF Minimize, TypeInv

LEMMA KeepRefsClearType ==
    ASSUME TypeInv, KeepRefsClear
    PROVE  TypeInv'
<1>1. WorkOK' /\ PassOK'
    BY NextPick DEF KeepRefsClear, At
<1>2. RowsOK'
    BY DEF KeepRefsClear, TypeInv, RowsOK
<1>3. RestOK'
    BY RestKept DEF KeepRefsClear, TypeInv, RestOK, Fault
<1>4. QED
    BY <1>1, <1>2, <1>3, Kept DEF KeepRefsClear, TypeInv

LEMMA DeleteAccountType ==
    ASSUME TypeInv, DeleteAccount
    PROVE  TypeInv'
<1> DEFINE u == proc[Cron].u
<1>1. proc[Cron].pc = "account"
    BY DEF DeleteAccount, At
<1>2. Fits(proc[Cron].op, "unqueue") /\ u \in Users
    BY <1>1, CronAt DEF Fits, CronLabels, PurgeLabels
<1>3. WorkOK' /\ PassOK'
    BY <1>1, <1>2, SharedGoes, Numbers DEF DeleteAccount, Marked, Labels
<1>4. AccountsOK' /\ QueueOK' /\ RowsOK'
    <2>1. CASE Erase(u)
        BY <1>2, <2>1, EraseType DEF DeleteAccount
    <2>2. CASE UNCHANGED <<accountVars, queue, copies, traces, recent>>
        BY <2>2, Kept DEF DeleteAccount, queueVars
    <2>3. QED
        BY <2>1, <2>2 DEF DeleteAccount
<1>5. RestOK'
    BY RestKept DEF DeleteAccount, TypeInv, RestOK, Fault
<1>6. QED
    BY <1>3, <1>4, <1>5, Kept DEF DeleteAccount, TypeInv

LEMMA UnqueueType ==
    ASSUME TypeInv, Unqueue
    PROVE  TypeInv'
<1>1. proc[Cron].pc = "unqueue" /\ proc[Cron].u \in Users
    BY CronAt DEF Unqueue, At, CronLabels
<1>2. WorkOK' /\ PassOK'
    BY <1>1, NextPick DEF Unqueue
<1>3. QueueOK'
    BY <1>1 DEF Unqueue, TypeInv, QueueOK
<1>4. RestOK'
    BY RestKept DEF Unqueue, TypeInv, RestOK, Fault
<1>5. QED
    BY <1>2, <1>3, <1>4, Kept DEF Unqueue, TypeInv

-----------------------------------------------------------------------------
(* The player's other requests, time, a restart. *)

LEMMA WorldType ==
    ASSUME TypeInv, NEW u \in Users,
           PlayerWrites(u) \/ UpdateAccount(u) \/ Cancel(u) \/ GraceEnds(u)
    PROVE  TypeInv'
<1>1. WorkOK' /\ PassOK'
    BY DEF PlayerWrites, UpdateAccount, Cancel, GraceEnds, TypeInv, WorkOK, PassOK
<1>2. RestOK'
    BY RestKept DEF PlayerWrites, UpdateAccount, Cancel, GraceEnds, TypeInv, RestOK
<1>3. CASE PlayerWrites(u)
    <2>1. RowsOK'
        BY <1>3, Numbers DEF PlayerWrites, TypeInv, RowsOK
    <2>2. QED
        BY <1>1, <1>2, <1>3, <2>1, Kept DEF PlayerWrites, TypeInv
<1>4. CASE UpdateAccount(u)
    <2>1. AccountsOK'
        BY <1>4 DEF UpdateAccount, TypeInv, AccountsOK
    <2>2. QED
        BY <1>1, <1>2, <1>4, <2>1, Kept DEF UpdateAccount, TypeInv
<1>5. CASE Cancel(u)
    <2>1. AccountsOK'
        BY <1>5 DEF Cancel, TypeInv, AccountsOK
    <2>2. Late(u) \subseteq {"name", "answer", "session"}
        BY DEF Late
    <2>3. QueueOK'
        BY <1>5, <2>2 DEF Cancel, TypeInv, QueueOK
    <2>4. QED
        BY <1>1, <1>2, <1>5, <2>1, <2>3, Kept DEF Cancel, TypeInv
<1>6. CASE GraceEnds(u)
    <2>1. QueueOK'
        BY <1>6 DEF GraceEnds, TypeInv, QueueOK
    <2>2. QED
        BY <1>1, <1>2, <1>6, <2>1, Kept DEF GraceEnds, TypeInv
<1>7. QED
    BY <1>3, <1>4, <1>5, <1>6

LEMMA RestartType ==
    ASSUME TypeInv, Restart
    PROVE  TypeInv'
<1>1. proc' = [p \in Procs |-> Idle] /\ todo' = [u \in Users |-> "none"]
    BY DEF Restart
<1>2. WorkOK'
    BY <1>1, IdleSound, Numbers DEF WorkOK, Idle
<1>3. PassOK'
    BY <1>1 DEF PassOK
<1>4. CodesOK'
    BY DEF Restart, TypeInv, CodesOK
<1>5. QueueOK'
    BY DEF Restart, TypeInv, QueueOK
<1>6. RestOK'
    BY RestKept DEF Restart, TypeInv, RestOK, Fault
<1>7. QED
    BY <1>2, <1>3, <1>4, <1>5, <1>6, Kept DEF Restart, TypeInv

LEMMA InitType ==
    ASSUME Init
    PROVE  TypeInv
<1>1. WorkOK
    BY IdleSound, Numbers DEF Init, WorkOK, Idle
<1>2. PassOK
    BY DEF Init, PassOK
<1>3. AccountsOK /\ CodesOK /\ QueueOK
    BY DEF Init, AccountsOK, CodesOK, QueueOK
<1>4. RowsOK /\ RestOK
    BY Numbers DEF Init, RowsOK, RestOK
<1>5. QED
    BY <1>1, <1>2, <1>3, <1>4 DEF TypeInv

LEMMA TypeStep ==
    ASSUME TypeInv, [Next]_vars
    PROVE  TypeInv'
<1>1. ASSUME NEW p \in Slots, Requests(p)
      PROVE  TypeInv'
    BY <1>1, RequestsType, CloseType, MatchBeginType DEF Requests
<1>2. ASSUME NEW p \in Slots, RequestSteps(p)
      PROVE  TypeInv'
    <2>1. CASE DeleteSocial(p) \/ DeleteActivity(p)
        <3>1. {"social"} \in SUBSET Kinds /\ {"activity"} \in SUBSET Kinds
              /\ {"storage", "logout"} \subseteq DeleteLabels \ Marked
            BY DEF Kinds, Owned, DeleteLabels, Marked
        <3>2. QED
            BY <2>1, <3>1, ClearsType DEF DeleteSocial, DeleteActivity
    <2>2. QED
        BY <1>2, <2>1, QueueDeletionType, ScrubProfileType, ScrubStorageType, LogOutType,
           DisconnectType, CodeLookType, CodeForwardType, CodeReverseType, MatchStepsType,
           RefreshStepsType, NameReadType, NameWriteType DEF RequestSteps
<1>3. ASSUME NEW p \in Procs, SharedSteps(p)
      PROVE  TypeInv'
    BY <1>3, CodeReadType, CodeDeleteType, DeleteRefsType, DeleteSentType, EnforceProfileType
       DEF SharedSteps
<1>4. CASE CronSteps
    BY <1>4, ListQueueType, PassEndsType, PicksType, MinimizeType, KeepRefsClearType,
       DeleteAccountType, UnqueueType DEF CronSteps
<1>5. CASE \E u \in Users : PlayerWrites(u) \/ UpdateAccount(u) \/ Cancel(u) \/ GraceEnds(u)
    BY <1>5, WorldType
<1>6. CASE Restart
    BY <1>6, RestartType
<1>7. CASE UNCHANGED vars
    <2>1. WorkOK' /\ PassOK' /\ RestOK'
        BY <1>7 DEF vars, TypeInv, WorkOK, PassOK, RestOK
    <2>2. QED
        BY <1>7, <2>1, Kept DEF vars, TypeInv
<1>8. QED
    BY <1>1, <1>2, <1>3, <1>4, <1>5, <1>6, <1>7 DEF Next

(* Every state of the account model has its type, whatever requests overlap, *)
(* fail or are cut short by a restart: the record of a call in flight names  *)
(* a user, a code or a name exactly where the code of its handler has one.   *)
THEOREM AccountTypeCorrect == Spec => []AccountTypeOK
<1>1. Init => TypeInv
    BY InitType
<1>2. TypeInv /\ [Next]_vars => TypeInv'
    BY TypeStep
<1>3. QED
    BY <1>1, <1>2, TypeInvIsType, PTL DEF Spec

-----------------------------------------------------------------------------
(* Account implements AccountLife: every step is one of its moves, or does  *)
(* not show.                                                                *)

LEMMA MoveLife ==
    ASSUME NEW u \in Users, NEW from, NEW to, Stage(u) \in from, Stage(u)' = to,
           \A v \in Users \ {u} : Stage(v)' = Stage(v)
    PROVE  Life!Move(u, from, to)
<1>1. lifeBar[u] \in from
    BY DEF lifeBar
<1>2. lifeBar' = [lifeBar EXCEPT ![u] = to]
    BY DEF lifeBar
<1>3. QED
    BY <1>1, <1>2 DEF Life!Move

LEMMA SameLife ==
    ASSUME \A u \in Users : Stage(u)' = Stage(u)
    PROVE  lifeBar' = lifeBar
BY DEF lifeBar

Dooming == PurgeLabels \cup {"unqueue"}

(* What a step must change to show. *)
LEMMA LifeFrame ==
    ASSUME UNCHANGED <<accounts, queue, todo>>, proc'[Cron].u = proc[Cron].u,
           proc'[Cron].pc \in Dooming <=> proc[Cron].pc \in Dooming
    PROVE  lifeBar' = lifeBar
<1>1. \A u \in Users : Doomed(u)' <=> Doomed(u)
    BY DEF Doomed, Dooming
<1>2. \A u \in Users : Stage(u)' = Stage(u)
    BY <1>1 DEF Stage
<1>3. QED
    BY <1>2, SameLife

LEMMA SlotDoomed ==
    ASSUME UNCHANGED todo, proc'[Cron] = proc[Cron]
    PROVE  \A u \in Users : Doomed(u)' <=> Doomed(u)
BY DEF Doomed

LEMMA BeginLife ==
    ASSUME TypeInv, NEW p \in Slots, NEW r, Begin(p, r)
    PROVE  proc'[Cron] = proc[Cron]
BY SlotStep DEF Begin, TypeInv

LEMMA CloseLife ==
    ASSUME TypeInv, NEW p \in Slots, NEW u \in Users, Close(p, u)
    PROVE  Life!Close(u) \/ lifeBar' = lifeBar
<1>1. UNCHANGED todo /\ proc'[Cron] = proc[Cron] /\ Erase(u)
    BY BeginLife DEF Close
<1>2. \A v \in Users : Doomed(v)' <=> Doomed(v)
    BY <1>1, SlotDoomed
<1>3. Stage(u)' = "gone" /\ \A v \in Users \ {u} : Stage(v)' = Stage(v)
    BY <1>1, <1>2 DEF Stage, Erase, TypeInv, QueueOK
<1>4. CASE u \in accounts
    <2>1. Stage(u) \in Life!Stages \ {"gone"}
        BY <1>4 DEF Stage, Life!Stages, TypeInv, QueueOK
    <2>2. QED
        BY <1>3, <2>1, MoveLife DEF Life!Close
<1>5. CASE u \notin accounts
    BY <1>3, <1>5, SameLife DEF Stage
<1>6. QED
    BY <1>4, <1>5

LEMMA RequestsLife ==
    ASSUME TypeInv, NEW p \in Slots, Requests(p)
    PROVE  Life!Next \/ lifeBar' = lifeBar
<1>1. CASE \E u \in Users : Close(p, u)
    BY <1>1, CloseLife DEF Life!Next
<1>2. CASE ~\E u \in Users : Close(p, u)
    <2>1. proc'[Cron] = proc[Cron]
        BY <1>2, BeginLife DEF Requests, DeleteBegin, CodeBegin, RefreshBegin, SignInBegin, MatchBegin
    <2>2. UNCHANGED <<accounts, queue, todo>>
        BY <1>2 DEF Requests, DeleteBegin, CodeBegin, RefreshBegin, SignInBegin, MatchBegin,
                    accountVars, queueVars
    <2>3. QED
        BY <2>1, <2>2, LifeFrame
<1>3. QED
    BY <1>1, <1>2

LEMMA QueueDeletionLife ==
    ASSUME TypeInv, NEW p \in Slots, QueueDeletion(p)
    PROVE  Life!Next \/ lifeBar' = lifeBar
<1>1. PICK u \in Users : u = proc[p].u
    BY Deleting DEF QueueDeletion, At
<1>2. UNCHANGED <<accounts, todo>> /\ proc'[Cron] = proc[Cron]
    BY SlotSteps DEF QueueDeletion, TypeInv
<1>3. \A v \in Users : Doomed(v)' <=> Doomed(v)
    BY <1>2, SlotDoomed
<1>4. CASE queue' = [queue EXCEPT ![u] = "waiting"] /\ u \in accounts
    <2>1. \A v \in Users \ {u} : Stage(v)' = Stage(v)
        BY <1>2, <1>3, <1>4 DEF Stage, TypeInv, QueueOK
    <2>2. CASE Stage(u) \in {"doomed", "waiting"}
        <3>1. Stage(u)' = Stage(u)
            BY <1>2, <1>3, <1>4, <2>2 DEF Stage, TypeInv, QueueOK
        <3>2. QED
            BY <2>1, <3>1, SameLife
    <2>3. CASE Stage(u) \notin {"doomed", "waiting"}
        <3>1. Stage(u) \in {"live", "due"} /\ Stage(u)' = "waiting"
            BY <1>2, <1>3, <1>4, <2>3 DEF Stage, TypeInv, QueueOK
        <3>2. QED
            BY <1>2, <2>1, <3>1, MoveLife DEF Life!Request, Life!Next
    <2>4. QED
        BY <2>2, <2>3
<1>5. CASE UNCHANGED queue
    BY <1>2, <1>5, LifeFrame
<1>6. QED
    BY <1>1, <1>4, <1>5 DEF QueueDeletion

LEMMA RequestStepsCron ==
    ASSUME TypeInv, NEW p \in Slots, RequestSteps(p)
    PROVE  proc'[Cron] = proc[Cron]
<1> USE Numbers DEF TypeInv, WorkOK
<1>1. CASE ScrubProfile(p) \/ DeleteSocial(p) \/ ScrubStorage(p) \/ DeleteActivity(p)
    BY <1>1 DEF ScrubProfile, DeleteSocial, ScrubStorage, DeleteActivity, Clears, Goto
<1>2. CASE QueueDeletion(p) \/ LogOut(p) \/ Disconnect(p)
    BY <1>2 DEF QueueDeletion, LogOut, Disconnect, Goto, Stop
<1>3. CASE CodeLook(p) \/ CodeForward(p) \/ CodeReverse(p)
    BY <1>3 DEF CodeLook, CodeForward, CodeReverse, Goto, Stop
<1>4. CASE MatchUsers(p) \/ MatchWrite(p) \/ RefreshCheck(p) \/ Refresh(p)
    BY <1>4 DEF MatchUsers, MatchWrite, RefreshCheck, Refresh, Goto, Stop
<1>5. CASE NameRead(p) \/ NameWrite(p)
    BY <1>5 DEF NameRead, NameWrite, Goto
<1>6. QED
    BY <1>1, <1>2, <1>3, <1>4, <1>5 DEF RequestSteps

LEMMA RequestStepsLife ==
    ASSUME TypeInv, NEW p \in Slots, RequestSteps(p)
    PROVE  Life!Next \/ lifeBar' = lifeBar
<1>1. CASE QueueDeletion(p)
    BY <1>1, QueueDeletionLife
<1>2. CASE ~QueueDeletion(p)
    <2>1. UNCHANGED <<accounts, queue, todo>>
        BY <1>2 DEF RequestSteps, ScrubProfile, DeleteSocial, ScrubStorage, DeleteActivity, Clears,
                    LogOut, Disconnect, CodeLook, CodeForward, CodeReverse, MatchUsers, MatchWrite,
                    RefreshCheck, Refresh, NameRead, NameWrite, accountVars, queueVars
    <2>2. QED
        BY <2>1, RequestStepsCron, LifeFrame
<1>3. QED
    BY <1>1, <1>2

LEMMA SharedLife ==
    ASSUME TypeInv, NEW p \in Procs, SharedSteps(p)
    PROVE  lifeBar' = lifeBar
<1>1. UNCHANGED <<accounts, queue, todo>>
    BY DEF SharedSteps, CodeRead, CodeDelete, DeleteRefs, DeleteSent, EnforceProfile,
           accountVars, queueVars
<1>2. proc'[Cron].u = proc[Cron].u
      /\ (proc'[Cron].pc \in Dooming <=> proc[Cron].pc \in Dooming)
    <2>1. CASE p # Cron
        <3>1. proc'[Cron] = proc[Cron]
            BY <2>1, Numbers DEF SharedSteps, CodeRead, CodeDelete, DeleteRefs, DeleteSent,
               EnforceProfile, AfterEnforce, Goto, Stop, TypeInv, WorkOK
        <3>2. QED
            BY <3>1
    <2>2. CASE p = Cron
        <3>1. proc \in [Procs -> Process] /\ proc[Cron] \in Process
            BY CronAt DEF TypeInv, WorkOK
        <3>2. CASE CodeRead(p) \/ CodeDelete(p) \/ DeleteRefs(p)
            BY <2>2, <3>1, <3>2, Numbers DEF CodeRead, CodeDelete, DeleteRefs, Goto, At, Process, Dooming, PurgeLabels
        <3>3. CASE DeleteSent(p)
            <4>1. AfterPurge(proc[p].op) = "account"
                BY <2>2, <3>3, CronAt DEF DeleteSent, At, AfterPurge
            <4>2. QED
                BY <2>2, <3>1, <3>3, <4>1, Numbers DEF DeleteSent, Goto, At, Process, Dooming, PurgeLabels
        <3>4. CASE EnforceProfile(p)
            BY <2>2, <3>1, <3>4, Numbers DEF EnforceProfile, AfterEnforce, Goto, At, Process, Dooming, PurgeLabels
        <3>5. QED
            BY <3>2, <3>3, <3>4 DEF SharedSteps
    <2>3. QED
        BY <2>1, <2>2
<1>3. QED
    BY <1>1, <1>2, LifeFrame

(* The listed accounts whose grace period is over are doomed. *)
LEMMA ListQueueLife ==
    ASSUME TypeInv, ListQueue
    PROVE  Life!Next \/ lifeBar' = lifeBar
<1>1. proc[Cron].pc = "idle" /\ UNCHANGED <<accounts, queue>>
    BY DEF ListQueue, At, accountVars, queueVars
<1>2. CASE /\ todo' = queue
           /\ proc' = [proc EXCEPT ![Cron] = [Idle EXCEPT !.op = "cron", !.pc = "pick"]]
    <2>1. proc'[Cron].pc = "pick" /\ proc[Cron].pc = "idle"
        BY <1>1, <1>2, Numbers DEF Idle, TypeInv, WorkOK
    <2>2. ASSUME NEW u \in Users
          PROVE  /\ ~Doomed(u)
                 /\ Doomed(u)' <=> queue[u] = "due"
        <3>1. todo[u] = "none"
            BY <1>1 DEF TypeInv, PassOK
        <3>2. QED
            BY <1>2, <2>1, <3>1 DEF Doomed, PurgeLabels
    <2>3. \A u \in Users : Stage(u)' = IF Stage(u) = "due" THEN "doomed" ELSE Stage(u)
        BY <1>1, <2>2 DEF Stage
    <2>4. lifeBar' = [u \in Users |-> IF lifeBar[u] = "due" THEN "doomed" ELSE lifeBar[u]]
        BY <2>3 DEF lifeBar
    <2>5. QED
        BY <2>4 DEF Life!List, Life!Next
<1>3. CASE UNCHANGED <<todo, proc>>
    BY <1>1, <1>3, LifeFrame
<1>4. QED
    BY <1>2, <1>3 DEF ListQueue

(* An account that is picked was doomed by the list, and still is. *)
LEMMA PicksLife ==
    ASSUME TypeInv, NEW u \in Users, PickDelete(u) \/ PickKeepClear(u)
    PROVE  lifeBar' = lifeBar
<1>1. proc[Cron].pc = "pick" /\ UNCHANGED <<accounts, queue>>
    BY DEF PickDelete, PickKeepClear, PickTo, At, accountVars, queueVars
<1>2. todo' = [todo EXCEPT ![u] = "none"] /\ proc'[Cron].u = u
    BY Numbers DEF PickDelete, PickKeepClear, PickTo, TypeInv, WorkOK, Process
<1>3. \A v \in Users : Doomed(v) <=> todo[v] = "due"
    BY <1>1 DEF Doomed, PurgeLabels
<1>4. \A v \in Users \ {u} : Doomed(v)' <=> todo[v] = "due"
    BY <1>2 DEF Doomed, TypeInv, PassOK
<1>5. CASE PickDelete(u)
    <2>1. proc'[Cron].pc = "code.read" /\ todo[u] = "due"
        BY <1>5, Numbers DEF PickDelete, PickTo, TypeInv, WorkOK, Process
    <2>2. Doomed(u)' <=> Doomed(u)
        BY <1>2, <1>3, <2>1 DEF Doomed, PurgeLabels
    <2>3. QED
        BY <1>1, <1>3, <1>4, <2>2, SameLife DEF Stage
<1>6. CASE PickKeepClear(u)
    <2>1. proc'[Cron].pc = "enforce" /\ todo[u] = "waiting" /\ todo'[u] = "none"
        BY <1>2, <1>6, Numbers DEF PickKeepClear, PickTo, TypeInv, WorkOK, Process, PassOK
    <2>2. Doomed(u)' <=> Doomed(u)
        BY <1>2, <1>3, <2>1 DEF Doomed, PurgeLabels
    <2>3. QED
        BY <1>1, <1>3, <1>4, <2>2, SameLife DEF Stage
<1>7. QED
    BY <1>5, <1>6

LEMMA QuietCronLife ==
    ASSUME TypeInv, PassEnds \/ Minimize \/ KeepRefsClear
    PROVE  lifeBar' = lifeBar
<1>1. UNCHANGED <<accounts, queue, todo>>
    BY DEF PassEnds, Minimize, KeepRefsClear, accountVars, queueVars
<1>2. proc[Cron].pc \notin Dooming /\ proc'[Cron].pc \notin Dooming
    BY Numbers DEF PassEnds, Minimize, KeepRefsClear, At, Stop, Goto, Idle, Dooming, PurgeLabels,
                   TypeInv, WorkOK, Process
<1>3. \A u \in Users : Doomed(u)' <=> Doomed(u)
    BY <1>1, <1>2 DEF Doomed, Dooming
<1>4. QED
    BY <1>1, <1>3, SameLife DEF Stage

LEMMA DeleteAccountLife ==
    ASSUME TypeInv, DeleteAccount
    PROVE  Life!Next \/ lifeBar' = lifeBar
<1>1. PICK u \in Users : u = proc[Cron].u
    BY CronAt DEF DeleteAccount, At, CronLabels, PurgeLabels
<1>2. proc[Cron].pc = "account" /\ UNCHANGED todo
    BY DEF DeleteAccount, At
<1>3. proc'[Cron].pc = "unqueue" /\ proc'[Cron].u = u
    BY <1>1, Numbers DEF DeleteAccount, Goto, TypeInv, WorkOK, Process
<1>4. \A v \in Users : Doomed(v)' <=> Doomed(v)
    BY <1>1, <1>2, <1>3 DEF Doomed, PurgeLabels
<1>5. CASE Erase(u)
    <2>1. Stage(u)' = "gone" /\ \A v \in Users \ {u} : Stage(v)' = Stage(v)
        BY <1>4, <1>5 DEF Stage, Erase, TypeInv, QueueOK
    <2>2. CASE u \in accounts
        <3>1. Stage(u) = "doomed"
            BY <1>1, <1>2, <2>2 DEF Stage, Doomed, PurgeLabels
        <3>2. QED
            BY <2>1, <3>1, MoveLife DEF Life!Delete, Life!Next
    <2>3. CASE u \notin accounts
        BY <2>1, <2>3, SameLife DEF Stage
    <2>4. QED
        BY <2>2, <2>3
<1>6. CASE UNCHANGED <<accountVars, queue>>
    BY <1>4, <1>6, SameLife DEF Stage, accountVars
<1>7. QED
    BY <1>1, <1>5, <1>6 DEF DeleteAccount

(* Accounts that a pass listed are no longer doomed. *)
LEMMA SpareLife ==
    ASSUME NEW us \in SUBSET Users, \A u \in us : Stage(u) = "doomed",
           \A u \in us : Stage(u)' \in {"live", "waiting", "due"},
           \A u \in Users \ us : Stage(u)' = Stage(u)
    PROVE  Life!Next
<1> DEFINE stage == [u \in us |-> Stage(u)']
<1>1. stage \in [us -> {"live", "waiting", "due"}]
    OBVIOUS
<1>2. lifeBar' = [u \in Users |-> IF u \in us THEN stage[u] ELSE lifeBar[u]]
    BY DEF lifeBar
<1>3. \A u \in us : lifeBar[u] = "doomed"
    BY DEF lifeBar
<1> HIDE DEF stage
<1>4. Life!Spare(us)
    BY <1>1, <1>2, <1>3 DEF Life!Spare
<1>5. QED
    BY <1>4 DEF Life!Next

LEMMA UnqueueLife ==
    ASSUME TypeInv, Unqueue
    PROVE  Life!Next \/ lifeBar' = lifeBar
<1>1. PICK u \in Users : u = proc[Cron].u
    BY CronAt DEF Unqueue, At, CronLabels
<1>2. proc[Cron].pc = "unqueue" /\ UNCHANGED <<accounts, todo>>
    BY DEF Unqueue, At, accountVars
<1>3. proc'[Cron].pc = "pick"
    BY Numbers DEF Unqueue, TypeInv, WorkOK, Process
<1>4. queue' \in [Users -> {"none", "waiting", "due"}]
      /\ \A v \in Users \ {u} : queue'[v] = queue[v]
    BY <1>1 DEF Unqueue, TypeInv, QueueOK
<1>5. \A v \in Users : Doomed(v)' <=> todo[v] = "due"
    BY <1>2, <1>3 DEF Doomed, PurgeLabels
<1>6. \A v \in Users \ {u} : Stage(v)' = Stage(v)
    BY <1>1, <1>2, <1>4, <1>5 DEF Stage, Doomed
<1>7. CASE u \notin accounts \/ todo[u] = "due"
    BY <1>2, <1>5, <1>6, <1>7, SameLife DEF Stage, Doomed
<1>8. CASE u \in accounts /\ todo[u] # "due"
    <2>1. Stage(u) = "doomed"
        BY <1>1, <1>2, <1>8 DEF Stage, Doomed
    <2>2. Stage(u)' \in {"live", "waiting", "due"}
        BY <1>2, <1>4, <1>5, <1>8 DEF Stage
    <2>3. QED
        BY <1>6, <2>1, <2>2, SpareLife
<1>9. QED
    BY <1>7, <1>8

LEMMA WorldLife ==
    ASSUME TypeInv, NEW u \in Users,
           PlayerWrites(u) \/ UpdateAccount(u) \/ Cancel(u) \/ GraceEnds(u)
    PROVE  Life!Next \/ lifeBar' = lifeBar
<1>1. UNCHANGED <<accounts, proc, todo>>
    BY DEF PlayerWrites, UpdateAccount, Cancel, GraceEnds, accountVars
<1>2. \A v \in Users : Doomed(v)' <=> Doomed(v)
    BY <1>1 DEF Doomed
<1>3. CASE PlayerWrites(u) \/ UpdateAccount(u)
    <2>1. UNCHANGED queue
        BY <1>3 DEF PlayerWrites, UpdateAccount, queueVars
    <2>2. QED
        BY <1>1, <2>1, LifeFrame
<1>4. ASSUME NEW to \in {"none", "due"}, queue[u] # "none",
             queue' = [queue EXCEPT ![u] = to],
             NEW from, queue[u] \in from
      PROVE  Life!Move(u, from, IF to = "none" THEN "live" ELSE "due") \/ lifeBar' = lifeBar
    <2>1. \A v \in Users \ {u} : Stage(v)' = Stage(v)
        BY <1>1, <1>2, <1>4 DEF Stage, TypeInv, QueueOK
    <2>2. CASE u \notin accounts \/ Doomed(u)
        BY <1>1, <1>2, <2>1, <2>2, SameLife DEF Stage
    <2>3. CASE u \in accounts /\ ~Doomed(u)
        <3>1. Stage(u) = queue[u] /\ Stage(u)' = IF to = "none" THEN "live" ELSE "due"
            BY <1>1, <1>2, <1>4, <2>3 DEF Stage, TypeInv, QueueOK
        <3>2. QED
            BY <1>4, <2>1, <3>1, MoveLife
    <2>4. QED
        BY <2>2, <2>3
<1>5. CASE Cancel(u)
    <2>1. queue[u] \in {"waiting", "due"}
        BY <1>5 DEF Cancel, TypeInv, QueueOK
    <2>2. QED
        BY <1>4, <1>5, <2>1 DEF Cancel, Life!Cancel, Life!Next
<1>6. CASE GraceEnds(u)
    BY <1>4, <1>6 DEF GraceEnds, Life!GraceEnds, Life!Next
<1>7. QED
    BY <1>3, <1>5, <1>6

(* A restart spares whatever the pass had not deleted yet. *)
LEMMA RestartLife ==
    ASSUME TypeInv, Restart
    PROVE  Life!Next
<1> DEFINE us == {u \in Users : Stage(u) = "doomed"}
<1>1. UNCHANGED <<accounts, queue>>
    BY DEF Restart, accountVars
<1>2. proc'[Cron] = Idle /\ \A u \in Users : todo'[u] = "none"
    BY Numbers DEF Restart
<1>3. \A u \in Users : ~Doomed(u)'
    BY <1>2 DEF Doomed, Idle, PurgeLabels
<1>4. \A u \in us : Stage(u)' \in {"live", "waiting", "due"}
    BY <1>1, <1>3 DEF Stage, TypeInv, QueueOK
<1>5. \A u \in Users \ us : Stage(u)' = Stage(u)
    BY <1>1, <1>3 DEF Stage
<1>6. QED
    BY <1>4, <1>5, SpareLife

LEMMA InitLife ==
    ASSUME Init
    PROVE  Life!Init
<1>1. proc[Cron] = Idle /\ \A u \in Users : todo[u] = "none"
    BY Numbers DEF Init
<1>2. \A u \in Users : Stage(u) \in {"live", "waiting"}
    BY <1>1 DEF Init, Stage, Doomed, Idle, PurgeLabels
<1>3. QED
    BY <1>2 DEF Life!Init, lifeBar

LEMMA LifeStep ==
    ASSUME TypeInv, [Next]_vars
    PROVE  [Life!Next]_lifeBar
<1>1. ASSUME NEW p \in Slots, Requests(p) \/ RequestSteps(p)
      PROVE  Life!Next \/ lifeBar' = lifeBar
    BY <1>1, RequestsLife, RequestStepsLife
<1>2. ASSUME NEW p \in Procs, SharedSteps(p)
      PROVE  lifeBar' = lifeBar
    BY <1>2, SharedLife
<1>3. CASE CronSteps
    BY <1>3, ListQueueLife, PicksLife, QuietCronLife, DeleteAccountLife, UnqueueLife DEF CronSteps
<1>4. CASE \E u \in Users : PlayerWrites(u) \/ UpdateAccount(u) \/ Cancel(u) \/ GraceEnds(u)
    BY <1>4, WorldLife
<1>5. CASE Restart
    BY <1>5, RestartLife
<1>6. CASE UNCHANGED vars
    BY <1>6, LifeFrame DEF vars, accountVars, queueVars
<1>7. QED
    BY <1>1, <1>2, <1>3, <1>4, <1>5, <1>6 DEF Next

(* Account implements AccountLife: the platform deletes an account only when *)
(* a pass of the cron listed it as due, every other deletion is the player's *)
(* own, and an account that is gone stays gone, whatever requests overlap a  *)
(* pass, fail, or are cut short by a restart.                                *)
THEOREM AccountImplementsLife == Spec => OnlyDueDeleted
<1>1. Init => TypeInv /\ Life!Init
    BY InitType, InitLife
<1>2. TypeInv /\ [Next]_vars => TypeInv'
    BY TypeStep
<1>3. TypeInv /\ [Next]_vars => [Life!Next]_lifeBar
    BY LifeStep
<1>4. QED
    BY <1>1, <1>2, <1>3, PTL DEF Spec, OnlyDueDeleted, Life!Spec

-----------------------------------------------------------------------------
(* What is said of a deletion: for each player, what the name and the       *)
(* answer say, and what the requests in flight are going to say, is backed  *)
(* by the queue or excepted.                                                *)

Backed(u, what) == queue[u] # "none" \/ <<u, what>> \in overtaken \/ u \in dropped

Hidden == {"deleted", "clamped"}

(* The process is going to hide the player's name, to answer that the       *)
(* deletion is scheduled, has yet to revoke the sessions, has revoked them.  *)
WillHide(p, u) == proc[p].u = u /\ (proc[p].pc = "scrub" \/ proc[p].name = "clamped")
WillAnswer(p, u) == proc[p].op = "delete" /\ proc[p].u = u /\ proc[p].pc # "queue"
WillRevoke(p, u) == WillAnswer(p, u) /\ proc[p].pc # "sockets"
Revoked(p, u) == proc[p].u = u /\ proc[p].pc = "sockets"

SaidOf(u) ==
    /\ name[u] \in Hidden => Backed(u, "name")
    /\ answer[u] = "scheduled" => Backed(u, "answer")
    /\ \A p \in Slots : WillHide(p, u) => Backed(u, "name")
    /\ \A p \in Slots : WillAnswer(p, u) => Backed(u, "answer")
    /\ session[u] = "old" =>
         \/ \E p \in Slots : WillRevoke(p, u)
         \/ <<u, "session">> \in overtaken
         \/ answer[u] # "scheduled" /\ \A p \in Slots : ~Revoked(p, u)

SaidInv == \A u \in accounts : SaidOf(u)

LEMMA SaidInvIsSaid ==
    ASSUME TypeInv, SaidInv
    PROVE  SaidIsQueued
<1>1. ASSUME NEW u \in accounts, answer[u] = "scheduled", session[u] = "old",
             \A p \in Slots : proc[p].op = "delete" => proc[p].u # u
      PROVE  <<u, "session">> \in overtaken
    BY <1>1 DEF SaidInv, SaidOf, WillRevoke, WillAnswer
<1>2. QED
    BY <1>1 DEF SaidInv, SaidOf, SaidIsQueued, Backed, Hidden

(* A step after which no process owes the player more, but for hiding a     *)
(* name that is hidden.                                                     *)
Calm(u) ==
    \A p \in Slots :
      /\ WillHide(p, u)' => WillHide(p, u) \/ name[u] \in Hidden
      /\ WillAnswer(p, u)' => WillAnswer(p, u)
      /\ WillRevoke(p, u) => WillRevoke(p, u)'
      /\ Revoked(p, u)' => Revoked(p, u)

LEMMA SaidFrame ==
    ASSUME NEW u, SaidOf(u), Calm(u),
           name'[u] \in Hidden => name[u] \in Hidden \/ Backed(u, "name")',
           answer'[u] = "scheduled" => answer[u] = "scheduled",
           session'[u] = "old" => session[u] = "old",
           Backed(u, "name") => Backed(u, "name")',
           Backed(u, "answer") => Backed(u, "answer")',
           <<u, "session">> \in overtaken => <<u, "session">> \in overtaken'
    PROVE  SaidOf(u)'
<1>1. name'[u] \in Hidden => Backed(u, "name")'
    BY DEF SaidOf
<1>2. answer'[u] = "scheduled" => Backed(u, "answer")'
    BY DEF SaidOf
<1>3. \A p \in Slots : WillHide(p, u)' => Backed(u, "name")'
    BY DEF SaidOf, Calm
<1>4. \A p \in Slots : WillAnswer(p, u)' => Backed(u, "answer")'
    BY DEF SaidOf, Calm
<1>5. session'[u] = "old" =>
         \/ \E p \in Slots : WillRevoke(p, u)'
         \/ <<u, "session">> \in overtaken'
         \/ answer'[u] # "scheduled" /\ \A p \in Slots : ~Revoked(p, u)'
    BY DEF SaidOf, Calm
<1>6. QED
    BY <1>1, <1>2, <1>3, <1>4, <1>5 DEF SaidOf

LEMMA SaidQuiet ==
    ASSUME SaidInv, accounts' \subseteq accounts,
           UNCHANGED <<name, session, queue, answer, overtaken, dropped>>,
           \A u \in accounts : Calm(u)
    PROVE  SaidInv'
<1>1. ASSUME NEW u \in accounts'
      PROVE  SaidOf(u)'
    <2>1. SaidOf(u) /\ Calm(u)
        BY DEF SaidInv
    <2>2. \A what : Backed(u, what)' <=> Backed(u, what)
        BY DEF Backed
    <2>3. QED
        BY <2>1, <2>2, SaidFrame
<1>2. QED
    BY <1>1 DEF SaidInv

(* The process of another player, or the cron. *)
LEMMA OtherCalm ==
    ASSUME WorkOK, NEW p \in Procs, NEW r, proc' = [proc EXCEPT ![p] = r], NEW u,
           p = Cron \/ (proc[p].u # u /\ r.u # u)
    PROVE  Calm(u)
<1>1. \A q \in Slots : q # p => proc'[q] = proc[q]
    BY Numbers DEF WorkOK
<1>2. p \in Slots => proc'[p] = r
    BY Numbers DEF WorkOK
<1>3. QED
    BY <1>1, <1>2, Numbers DEF Calm, WillHide, WillAnswer, WillRevoke, Revoked

(* A process goes on to a label that says nothing. *)
LEMMA PlainCalm ==
    ASSUME WorkOK, NEW p \in Procs, NEW r, proc' = [proc EXCEPT ![p] = r], NEW u,
           r.u = proc[p].u, r.op = proc[p].op, r.name \in {"keep", proc[p].name},
           r.pc \notin {"queue", "scrub", "sockets"}, proc[p].pc # "queue"
    PROVE  Calm(u)
<1>1. \A q \in Slots : q # p => proc'[q] = proc[q]
    BY Numbers DEF WorkOK
<1>2. p \in Slots => proc'[p] = r
    BY Numbers DEF WorkOK
<1>3. QED
    BY <1>1, <1>2 DEF Calm, WillHide, WillAnswer, WillRevoke, Revoked

LEMMA GotoCalm ==
    ASSUME WorkOK, NEW p \in Procs, NEW pc, Goto(p, pc), NEW u,
           pc \notin {"queue", "scrub", "sockets"}, proc[p].pc # "queue"
    PROVE  Calm(u)
<1> DEFINE s == [proc[p] EXCEPT !.pc = pc]
<1>1. proc[p] \in Process
    BY WorkAt
<1>2. s.u = proc[p].u /\ s.op = proc[p].op /\ s.name = proc[p].name /\ s.pc = pc
    BY <1>1 DEF Process
<1>3. proc' = [proc EXCEPT ![p] = s]
    BY DEF Goto
<1>4. QED
    BY <1>2, <1>3, PlainCalm

LEMMA MissCalm ==
    ASSUME WorkOK, NEW p \in Procs, NEW pc, NEW kinds, NEW u,
           proc' = [proc EXCEPT ![p].pc = pc, ![p].missed = @ \cup kinds],
           pc \notin {"queue", "scrub", "sockets"}, proc[p].pc # "queue"
    PROVE  Calm(u)
<1> DEFINE s == [proc[p] EXCEPT !.pc = pc, !.missed = @ \cup kinds]
<1>1. proc[p] \in Process
    BY WorkAt
<1>2. s.u = proc[p].u /\ s.op = proc[p].op /\ s.name = proc[p].name /\ s.pc = pc
    BY <1>1 DEF Process
<1>3. proc' = [proc EXCEPT ![p] = s]
    BY <1>1 DEF WorkOK
<1>4. QED
    BY <1>2, <1>3, PlainCalm

(* A process that owes no answer stops, or begins. *)
LEMMA StopCalm ==
    ASSUME WorkOK, NEW p \in Procs, Stop(p), proc[p].op # "delete" \/ proc[p].pc = "queue",
           NEW u \in Users
    PROVE  Calm(u)
<1>1. \A q \in Slots : q # p => proc'[q] = proc[q]
    BY Numbers DEF WorkOK, Stop
<1>2. p \in Slots => proc'[p] = Idle
    BY Numbers DEF WorkOK, Stop
<1>3. QED
    BY <1>1, <1>2, Numbers DEF Calm, WillHide, WillAnswer, WillRevoke, Revoked, Idle

LEMMA BeginCalm ==
    ASSUME WorkOK, NEW p \in Slots, NEW r, Begin(p, r), NEW u \in Users,
           r.name = "keep", r.pc \notin {"scrub", "sockets"}, r.op = "delete" => r.pc = "queue"
    PROVE  Calm(u)
<1>1. \A q \in Slots : q # p => proc'[q] = proc[q]
    BY Numbers DEF WorkOK, Begin
<1>2. proc'[p] = r /\ proc[p] = Idle
    BY WorkAt, OpOfLabel, Numbers DEF WorkOK, Begin, At
<1>3. QED
    BY <1>1, <1>2 DEF Calm, WillHide, WillAnswer, WillRevoke, Revoked, Idle

LEMMA ProcsCalm ==
    ASSUME UNCHANGED proc
    PROVE  \A u : Calm(u)
BY DEF Calm, WillHide, WillAnswer, WillRevoke, Revoked

LEMMA SaidData ==
    ASSUME SaidInv, accounts' \subseteq accounts, NEW u \in accounts', Calm(u),
           name'[u] \in Hidden => name[u] \in Hidden \/ Backed(u, "name")',
           session'[u] = "old" => session[u] = "old",
           UNCHANGED queueVars
    PROVE  SaidOf(u)'
<1>1. \A what : Backed(u, what)' <=> Backed(u, what)
    BY DEF Backed, queueVars
<1>2. SaidOf(u)
    BY DEF SaidInv
<1>3. QED
    BY <1>1, <1>2, SaidFrame DEF queueVars

(* How requests begin. *)
LEMMA RequestCalm ==
    ASSUME WorkOK, NEW p \in Slots, NEW v \in Users, NEW op \in Ops, NEW u, NEW pc \in Labels,
           pc \notin {"scrub", "sockets"}, op = "delete" => pc = "queue"
    PROVE  /\ Begin(p, [Idle EXCEPT !.op = op, !.u = u, !.pc = pc]) => Calm(v)
           /\ \A clamps : Begin(p, [Idle EXCEPT !.op = op, !.u = u, !.clamps = clamps,
                                                !.pc = pc]) => Calm(v)
           /\ \A us : Begin(p, [Idle EXCEPT !.op = op, !.us = us, !.pc = pc]) => Calm(v)
<1>1. ASSUME Begin(p, [Idle EXCEPT !.op = op, !.u = u, !.pc = pc])
      PROVE  Calm(v)
    <2> DEFINE r == [Idle EXCEPT !.op = op, !.u = u, !.pc = pc]
    <2>1. r.name = "keep" /\ r.pc = pc /\ r.op = op
        BY DEF Idle
    <2>2. QED
        BY <1>1, <2>1, BeginCalm
<1>2. ASSUME NEW clamps, Begin(p, [Idle EXCEPT !.op = op, !.u = u, !.clamps = clamps, !.pc = pc])
      PROVE  Calm(v)
    <2> DEFINE r == [Idle EXCEPT !.op = op, !.u = u, !.clamps = clamps, !.pc = pc]
    <2>1. r.name = "keep" /\ r.pc = pc /\ r.op = op
        BY DEF Idle
    <2>2. QED
        BY <1>2, <2>1, BeginCalm
<1>3. ASSUME NEW us, Begin(p, [Idle EXCEPT !.op = op, !.us = us, !.pc = pc])
      PROVE  Calm(v)
    <2> DEFINE r == [Idle EXCEPT !.op = op, !.us = us, !.pc = pc]
    <2>1. r.name = "keep" /\ r.pc = pc /\ r.op = op
        BY DEF Idle
    <2>2. QED
        BY <1>3, <2>1, BeginCalm
<1>4. QED
    BY <1>1, <1>2, <1>3

LEMMA RequestsCalm ==
    ASSUME WorkOK, NEW p \in Slots, Requests(p)
    PROVE  \A v \in Users : Calm(v)
<1>1. /\ {"delete", "code", "match", "signin", "refresh", "close"} \subseteq Ops
      /\ {"queue", "code.look", "users", "name.read", "check", "code.read"} \subseteq Labels
    BY DEF Ops, Labels, PurgeLabels
<1>2. QED
    BY <1>1, RequestCalm
       DEF Requests, DeleteBegin, CodeBegin, MatchBegin, SignInBegin, RefreshBegin, Close

LEMMA RequestsSaid ==
    ASSUME TypeInv, SaidInv, NEW p \in Slots, Requests(p)
    PROVE  SaidInv'
<1>1. AccountsOK /\ WorkOK /\ QueueOK /\ \A v \in Users : Calm(v)
    BY RequestsCalm DEF TypeInv
<1>2. ASSUME NEW u \in Users, DeleteBegin(p, u) \/ CodeBegin(p, u) \/ RefreshBegin(p, u)
      PROVE  SaidInv'
    BY <1>1, <1>2, SaidQuiet
       DEF DeleteBegin, CodeBegin, RefreshBegin, accountVars, queueVars, AccountsOK
<1>3. ASSUME NEW us \in SUBSET Users, MatchBegin(p, us)
      PROVE  SaidInv'
    BY <1>1, <1>3, SaidQuiet DEF MatchBegin, accountVars, queueVars, AccountsOK
<1>4. ASSUME NEW u \in Users, NEW clamps \in Clamps, SignInBegin(p, u, clamps)
      PROVE  SaidInv'
    <2>1. \A v \in Users : session'[v] = "old" => session[v] = "old"
        BY <1>1, <1>4 DEF SignInBegin, AccountsOK
    <2>2. \A v \in accounts' : SaidOf(v)'
        BY <1>1, <1>4, <2>1, SaidData DEF SignInBegin, AccountsOK
    <2>3. QED
        BY <2>2 DEF SaidInv
<1>5. ASSUME NEW u \in Users, Close(p, u)
      PROVE  SaidInv'
    <2>1. ASSUME NEW v \in accounts'
          PROVE  SaidOf(v)'
        <3>1. v \in accounts /\ v # u /\ v \in Users /\ SaidOf(v)
            BY <1>1, <1>5, <2>1 DEF Close, Erase, AccountsOK, SaidInv
        <3>2. /\ name'[v] = name[v] /\ session'[v] = session[v] /\ queue'[v] = queue[v]
              /\ UNCHANGED <<answer, overtaken, dropped>>
            BY <1>1, <1>5, <3>1 DEF Close, Erase, AccountsOK, QueueOK
        <3>3. \A what : Backed(v, what)' <=> Backed(v, what)
            BY <3>2 DEF Backed
        <3>4. QED
            BY <1>1, <3>1, <3>2, <3>3, SaidFrame
    <2>2. QED
        BY <2>1 DEF SaidInv
<1>6. QED
    BY <1>2, <1>3, <1>4, <1>5 DEF Requests

(* The row backs whatever the request is going to say. *)
LEMMA QueueDeletionSaid ==
    ASSUME TypeInv, SaidInv, NEW p \in Slots, QueueDeletion(p)
    PROVE  SaidInv'
<1>1. PICK u \in Users : u = proc[p].u
    BY Deleting DEF QueueDeletion, At
<1>2. AccountsOK /\ WorkOK /\ QueueOK /\ p \in Procs
    BY Numbers DEF TypeInv
<1>3. proc[p].pc = "queue" /\ proc[p].op = "delete" /\ UNCHANGED <<accounts, name>>
    BY Deleting DEF QueueDeletion, At
<1>4. CASE /\ Goto(p, "scrub")
           /\ queue' = [queue EXCEPT ![u] = "waiting"]
           /\ answer' = [answer EXCEPT ![u] = "none"]
           /\ session' = [session EXCEPT ![u] = IF @ = "none" THEN @ ELSE "old"]
           /\ overtaken' = overtaken \ ({u} \X {"name", "answer", "session"})
           /\ dropped' = dropped \ {u}
    <2> DEFINE s == [proc[p] EXCEPT !.pc = "scrub"]
    <2>1. proc' = [proc EXCEPT ![p] = s]
        BY <1>4 DEF Goto
    <2>2. s.u = u /\ s.op = "delete" /\ s.pc = "scrub"
        BY <1>1, <1>2, <1>3, WorkAt DEF Process
    <2>3. proc'[p] = s
        BY <1>2, <2>1 DEF WorkOK
    <2>4. SaidOf(u)'
        <3>1. \A what : Backed(u, what)'
            BY <1>2, <1>4 DEF Backed, QueueOK
        <3>2. WillRevoke(p, u)'
            BY <2>2, <2>3 DEF WillRevoke, WillAnswer
        <3>3. QED
            BY <3>1, <3>2 DEF SaidOf
    <2>5. ASSUME NEW v \in accounts \ {u}
          PROVE  SaidOf(v)'
        <3>1. v \in Users /\ SaidOf(v)
            BY <1>2 DEF AccountsOK, SaidInv
        <3>2. Calm(v)
            BY <1>1, <1>2, <2>1, <2>2, <2>5, OtherCalm
        <3>3. /\ name'[v] = name[v] /\ session'[v] = session[v] /\ queue'[v] = queue[v]
              /\ answer'[v] = answer[v] /\ (v \in dropped' <=> v \in dropped)
              /\ \A what : <<v, what>> \in overtaken' <=> <<v, what>> \in overtaken
            BY <1>2, <1>3, <1>4, <2>5, <3>1 DEF AccountsOK, QueueOK
        <3>4. \A what : Backed(v, what)' <=> Backed(v, what)
            BY <3>3 DEF Backed
        <3>5. QED
            BY <3>1, <3>2, <3>3, <3>4, SaidFrame
    <2>6. QED
        BY <1>3, <2>4, <2>5 DEF SaidInv
<1>5. CASE /\ Stop(p)
           /\ answer' = [answer EXCEPT ![u] = "none"]
           /\ UNCHANGED <<queue, copies, overtaken, dropped, session>>
    <2>1. ASSUME NEW v \in accounts
          PROVE  SaidOf(v)'
        <3>1. v \in Users /\ SaidOf(v)
            BY <1>2 DEF AccountsOK, SaidInv
        <3>2. Calm(v)
            BY <1>2, <1>3, <1>5, <3>1, StopCalm
        <3>3. answer'[v] = "scheduled" => answer[v] = "scheduled"
            BY <1>2, <1>5, <3>1 DEF QueueOK
        <3>4. \A what : Backed(v, what)' <=> Backed(v, what)
            BY <1>5 DEF Backed
        <3>5. QED
            BY <1>3, <1>5, <3>1, <3>2, <3>3, <3>4, SaidFrame
    <2>2. QED
        BY <1>3, <2>1 DEF SaidInv
<1>6. QED
    BY <1>1, <1>4, <1>5 DEF QueueDeletion

LEMMA ScrubProfileSaid ==
    ASSUME TypeInv, SaidInv, NEW p \in Slots, ScrubProfile(p)
    PROVE  SaidInv'
<1>1. PICK u \in Users : u = proc[p].u
    BY Deleting DEF ScrubProfile, At
<1>2. AccountsOK /\ WorkOK /\ p \in Procs
    BY Numbers DEF TypeInv
<1>3. WillHide(p, u) /\ UNCHANGED <<accounts, session, queueVars>>
    BY <1>1 DEF ScrubProfile, At, WillHide
<1>4. ASSUME NEW v \in accounts
      PROVE  SaidOf(v)'
    <2>1. v \in Users /\ SaidOf(v)
        BY <1>2 DEF AccountsOK, SaidInv
    <2>2. Calm(v)
        BY <1>2, GotoCalm DEF ScrubProfile, At
    <2>3. \A what : Backed(v, what)' <=> Backed(v, what)
        BY <1>3 DEF Backed, queueVars
    <2>4. v # u => name'[v] = name[v]
        BY <1>1, <1>2, <2>1 DEF ScrubProfile, AccountsOK
    <2>5. v = u => Backed(v, "name")'
        BY <1>3, <2>1, <2>3 DEF SaidOf
    <2>6. QED
        BY <1>3, <1>4, <2>2, <2>4, <2>5, SaidData
<1>5. QED
    BY <1>3, <1>4 DEF SaidInv

LEMMA LogOutSaid ==
    ASSUME TypeInv, SaidInv, NEW p \in Slots, LogOut(p)
    PROVE  SaidInv'
<1>1. PICK u \in Users : u = proc[p].u
    BY Deleting DEF LogOut, At
<1>2. AccountsOK /\ WorkOK /\ QueueOK /\ p \in Procs
    BY Numbers DEF TypeInv
<1>3. /\ proc[p].pc = "logout" /\ proc[p].op = "delete" /\ proc[p].name = "keep"
      /\ UNCHANGED <<accounts, name, queue, dropped>>
    BY <1>2, Deleting, WorkAt DEF LogOut, At, Sound
<1>4. ASSUME NEW v \in accounts \ {u}
      PROVE  SaidOf(v)'
    <2>1. v \in Users /\ SaidOf(v)
        BY <1>2 DEF AccountsOK, SaidInv
    <2> DEFINE s == [proc[p] EXCEPT !.pc = "sockets"]
    <2>2. s.u = u
        BY <1>1, <1>2, WorkAt DEF Process
    <2>3. proc' = [proc EXCEPT ![p] = s] \/ proc' = [proc EXCEPT ![p] = Idle]
        BY DEF LogOut, Goto, Stop
    <2> HIDE DEF s
    <2>a. Idle.u # v
        BY <2>1, Numbers DEF Idle
    <2>4. Calm(v)
        BY <1>1, <1>2, <1>4, <2>1, <2>2, <2>3, <2>a, OtherCalm
    <2>5. /\ session'[v] = session[v] /\ answer'[v] = answer[v]
          /\ \A what : <<v, what>> \in overtaken' <=> <<v, what>> \in overtaken
        BY <1>1, <1>2, <1>4, <2>1 DEF LogOut, AccountsOK, QueueOK
    <2>6. \A what : Backed(v, what)' <=> Backed(v, what)
        BY <1>3, <2>5 DEF Backed
    <2>7. QED
        BY <1>3, <2>1, <2>4, <2>5, <2>6, SaidFrame
<1>5. ASSUME u \in accounts
      PROVE  SaidOf(u)'
    <2>1. SaidOf(u) /\ WillAnswer(p, u)
        BY <1>1, <1>3, <1>5 DEF SaidInv, WillAnswer
    <2>2. \A q \in Slots \ {p} : proc'[q] = proc[q]
        BY <1>2, Numbers DEF LogOut, Goto, Stop, WorkOK
    <2>3. CASE Goto(p, "sockets") /\ session' = [session EXCEPT ![u] = "none"]
               /\ UNCHANGED <<answer, overtaken>>
        <3>1. session'[u] = "none"
            BY <1>2, <2>3 DEF AccountsOK
        <3>2. \A what : Backed(u, what)' <=> Backed(u, what)
            BY <1>3, <2>3 DEF Backed
        <3>3. proc'[p].u = u /\ proc'[p].pc = "sockets" /\ proc'[p].name = "keep"
            BY <1>1, <1>2, <1>3, <2>3, WorkAt DEF Goto, WorkOK, Process
        <3>4. \A q \in Slots : WillHide(q, u)' => WillHide(q, u)
            BY <2>2, <3>3 DEF WillHide
        <3>5. \A q \in Slots : WillAnswer(q, u)' => WillAnswer(q, u)
            BY <2>1, <2>2 DEF WillAnswer
        <3>6. (name[u] \in Hidden => Backed(u, "name")) /\ Backed(u, "answer")
              /\ \A q \in Slots : WillHide(q, u) => Backed(u, "name")
            BY <2>1 DEF SaidOf
        <3>7. (name'[u] \in Hidden => Backed(u, "name")') /\ Backed(u, "answer")'
            BY <1>3, <3>2, <3>6
        <3>8. \A q \in Slots : WillHide(q, u)' => Backed(u, "name")'
            BY <3>2, <3>4, <3>6
        <3>9. QED
            BY <3>1, <3>7, <3>8 DEF SaidOf
    <2>4. CASE /\ Stop(p) /\ answer' = [answer EXCEPT ![u] = "none"]
               /\ overtaken' = IF LoggedOut(u) THEN overtaken \cup {<<u, "session">>} ELSE overtaken
               /\ UNCHANGED session
        <3>1. answer'[u] = "none" /\ proc'[p] = Idle
            BY <1>2, <2>4 DEF QueueOK, Stop, WorkOK
        <3>2. \A what : Backed(u, what) => Backed(u, what)'
            BY <1>3, <2>4 DEF Backed
        <3>3. \A q \in Slots :
               /\ WillHide(q, u)' => WillHide(q, u)
               /\ WillAnswer(q, u)' => WillAnswer(q, u)
            BY <2>2, <3>1, Numbers DEF WillHide, WillAnswer, Idle
        <3>4. \/ <<u, "session">> \in overtaken'
              \/ \A q \in Slots : ~Revoked(q, u)'
            BY <2>2, <2>4, <3>1 DEF LoggedOut, At, Revoked, Idle
        <3>5. (name[u] \in Hidden => Backed(u, "name"))
              /\ (\A q \in Slots : WillHide(q, u) => Backed(u, "name"))
              /\ \A q \in Slots : WillAnswer(q, u) => Backed(u, "answer")
            BY <2>1 DEF SaidOf
        <3>6. name'[u] \in Hidden => Backed(u, "name")'
            BY <1>3, <3>2, <3>5
        <3>7. \A q \in Slots : WillHide(q, u)' => Backed(u, "name")'
            BY <3>2, <3>3, <3>5
        <3>8. \A q \in Slots : WillAnswer(q, u)' => Backed(u, "answer")'
            BY <3>2, <3>3, <3>5
        <3>9. QED
            BY <3>1, <3>4, <3>6, <3>7, <3>8 DEF SaidOf
    <2>5. QED
        BY <1>1, <2>3, <2>4 DEF LogOut
<1>6. QED
    BY <1>3, <1>4, <1>5 DEF SaidInv

LEMMA DisconnectSaid ==
    ASSUME TypeInv, SaidInv, NEW p \in Slots, Disconnect(p)
    PROVE  SaidInv'
<1>1. PICK u \in Users : u = proc[p].u
    BY Deleting DEF Disconnect, At
<1>2. AccountsOK /\ WorkOK /\ QueueOK /\ p \in Procs
    BY Numbers DEF TypeInv
<1>3. /\ proc[p].pc = "sockets" /\ proc[p].op = "delete" /\ Stop(p)
      /\ UNCHANGED <<accountVars, queue, overtaken, dropped>>
    BY Deleting DEF Disconnect, At
<1>4. \A what, v : Backed(v, what)' <=> Backed(v, what)
    BY <1>3 DEF Backed
<1>5. proc'[p] = Idle /\ \A q \in Slots \ {p} : proc'[q] = proc[q]
    BY <1>2, <1>3, Numbers DEF Stop, WorkOK
<1>6. ASSUME NEW v \in accounts
      PROVE  SaidOf(v)'
    <2>1. v \in Users /\ SaidOf(v)
        BY <1>2 DEF AccountsOK, SaidInv
    <2>2. \A q \in Slots \ {p} :
           /\ WillHide(q, v)' <=> WillHide(q, v)
           /\ WillAnswer(q, v)' <=> WillAnswer(q, v)
           /\ WillRevoke(q, v)' <=> WillRevoke(q, v)
           /\ Revoked(q, v)' <=> Revoked(q, v)
        BY <1>5 DEF WillHide, WillAnswer, WillRevoke, Revoked
    <2>3. ~WillHide(p, v)' /\ ~WillAnswer(p, v)' /\ ~WillRevoke(p, v) /\ ~Revoked(p, v)'
        BY <1>3, <1>5 DEF WillHide, WillAnswer, WillRevoke, Revoked, Idle
    <2>4. Calm(v)
        BY <2>2, <2>3 DEF Calm
    <2>5. CASE v # u
        <3>1. answer'[v] = answer[v]
            BY <1>1, <1>2, <2>1, <2>5 DEF Disconnect, QueueOK
        <3>2. QED
            BY <1>3, <1>4, <2>1, <2>4, <3>1, SaidFrame DEF accountVars
    <2>6. CASE v = u
        <3>1. WillAnswer(p, u) /\ Revoked(p, u)
            BY <1>1, <1>3 DEF WillAnswer, Revoked
        <3>2. Backed(u, "answer")
            BY <2>1, <2>6, <3>1 DEF SaidOf
        <3>3. session[u] = "old" => (\E q \in Slots : WillRevoke(q, u)) \/ <<u, "session">> \in overtaken
            BY <2>1, <2>6, <3>1 DEF SaidOf
        <3>4. (name[v] \in Hidden => Backed(v, "name")) /\ Backed(v, "answer")'
              /\ \A q \in Slots : WillHide(q, v) => Backed(v, "name")
            BY <1>4, <2>1, <2>6, <3>2 DEF SaidOf
        <3>5. (name'[v] \in Hidden => Backed(v, "name")')
              /\ \A q \in Slots : WillHide(q, v)' => Backed(v, "name")'
            BY <1>3, <1>4, <2>4, <3>4 DEF Calm, accountVars
        <3>6. session'[v] = "old" =>
                (\E q \in Slots : WillRevoke(q, v)') \/ <<v, "session">> \in overtaken'
            BY <1>3, <2>2, <2>3, <2>6, <3>3 DEF accountVars
        <3>7. QED
            BY <3>4, <3>5, <3>6 DEF SaidOf
    <2>7. QED
        BY <2>5, <2>6
<1>7. QED
    BY <1>3, <1>6 DEF SaidInv, accountVars

(* Steps that change neither what is said nor the queue. *)
SaidStays == UNCHANGED <<accountVars, queue, answer, overtaken, dropped>>

LEMMA StaysSaid ==
    ASSUME TypeInv, SaidInv, SaidStays, \A u \in Users : Calm(u)
    PROVE  SaidInv'
BY SaidQuiet DEF SaidStays, accountVars, TypeInv, AccountsOK

LEMMA CodeCalm ==
    ASSUME WorkOK, NEW p \in Procs, NEW pc, NEW c, NEW u,
           proc' = [proc EXCEPT ![p].pc = pc, ![p].code = c],
           pc \notin {"queue", "scrub", "sockets"}, proc[p].pc # "queue"
    PROVE  Calm(u)
<1> DEFINE s == [proc[p] EXCEPT !.pc = pc, !.code = c]
<1>1. proc[p] \in Process
    BY WorkAt
<1>2. s.u = proc[p].u /\ s.op = proc[p].op /\ s.name = proc[p].name /\ s.pc = pc
    BY <1>1 DEF Process
<1>3. proc' = [proc EXCEPT ![p] = s]
    BY <1>1 DEF WorkOK
<1>4. QED
    BY <1>2, <1>3, PlainCalm

LEMMA CascadeSaid ==
    ASSUME TypeInv, SaidInv, NEW p \in Slots,
           DeleteSocial(p) \/ DeleteActivity(p) \/ ScrubStorage(p)
    PROVE  SaidInv'
<1>1. WorkOK /\ p \in Procs
    BY Numbers DEF TypeInv
<1>2. SaidStays
    BY DEF DeleteSocial, DeleteActivity, ScrubStorage, Clears, SaidStays, queueVars
<1>3. ASSUME NEW u \in Users
      PROVE  Calm(u)
    <2>1. proc[p].pc \in {"social", "activity", "storage"}
        BY DEF DeleteSocial, DeleteActivity, ScrubStorage, Clears, At
    <2>2. PICK next \in {"storage", "logout", "code.read"}, kinds \in SUBSET Kinds :
            \/ Goto(p, next)
            \/ proc' = [proc EXCEPT ![p].pc = next, ![p].missed = @ \cup kinds]
        BY DEF DeleteSocial, DeleteActivity, ScrubStorage, Clears, Kinds, Owned
    <2>3. QED
        BY <1>1, <2>1, <2>2, GotoCalm, MissCalm
<1>4. QED
    BY <1>2, <1>3, StaysSaid

LEMMA CodeStepsSaid ==
    ASSUME TypeInv, SaidInv, NEW p \in Slots, CodeLook(p) \/ CodeForward(p) \/ CodeReverse(p)
    PROVE  SaidInv'
<1>1. WorkOK /\ p \in Procs
    BY Numbers DEF TypeInv
<1>2. SaidStays
    BY DEF CodeLook, CodeForward, CodeReverse, SaidStays, queueVars
<1>3. ASSUME NEW u \in Users
      PROVE  Calm(u)
    <2>1. proc[p].pc \in CodeLabels
        BY DEF CodeLook, CodeForward, CodeReverse, At, CodeLabels
    <2>2. proc[p].op # "delete" /\ proc[p].pc # "queue"
        BY <1>1, <2>1, WorkAt, OpOfLabel DEF CodeLabels
    <2>3. \/ Stop(p) \/ Goto(p, "code.forward")
          \/ \E pc \in {"code.reverse"}, c \in Codes :
               proc' = [proc EXCEPT ![p].pc = pc, ![p].code = c]
        BY DEF CodeLook, CodeForward, CodeReverse
    <2>4. ASSUME NEW pc \in {"code.reverse"}, NEW c,
                 proc' = [proc EXCEPT ![p].pc = pc, ![p].code = c]
          PROVE  Calm(u)
        BY <1>1, <2>2, <2>4, CodeCalm
    <2>5. CASE Stop(p) \/ Goto(p, "code.forward")
        BY <1>1, <2>2, <2>5, StopCalm, GotoCalm
    <2>6. QED
        BY <2>3, <2>4, <2>5
<1>4. QED
    BY <1>2, <1>3, StaysSaid

LEMMA MatchStepsSaid ==
    ASSUME TypeInv, SaidInv, NEW p \in Slots, MatchUsers(p) \/ MatchWrite(p)
    PROVE  SaidInv'
<1>1. WorkOK /\ p \in Procs
    BY Numbers DEF TypeInv
<1>2. SaidStays
    BY DEF MatchUsers, MatchWrite, SaidStays, queueVars
<1>3. ASSUME NEW u \in Users
      PROVE  Calm(u)
    <2>1. proc[p].pc \in MatchLabels
        BY DEF MatchUsers, MatchWrite, At, MatchLabels
    <2>2. proc[p].op # "delete" /\ proc[p].pc # "queue" /\ proc[p] \in Process
        BY <1>1, <2>1, WorkAt, OpOfLabel DEF MatchLabels
    <2>3. CASE Stop(p)
        BY <1>1, <2>2, <2>3, StopCalm
    <2>4. ASSUME NEW us, proc' = [proc EXCEPT ![p].pc = "write", ![p].named = us]
          PROVE  Calm(u)
        <3> DEFINE s == [proc[p] EXCEPT !.pc = "write", !.named = us]
        <3>1. s.u = proc[p].u /\ s.op = proc[p].op /\ s.name = proc[p].name /\ s.pc = "write"
            BY <2>2 DEF Process
        <3>2. proc' = [proc EXCEPT ![p] = s]
            BY <1>1, <2>4 DEF WorkOK
        <3>3. QED
            BY <1>1, <2>2, <3>1, <3>2, PlainCalm
    <2>5. QED
        BY <2>3, <2>4 DEF MatchUsers, MatchWrite
<1>4. QED
    BY <1>2, <1>3, StaysSaid

LEMMA RefreshStepsSaid ==
    ASSUME TypeInv, SaidInv, NEW p \in Slots, RefreshCheck(p) \/ Refresh(p)
    PROVE  SaidInv'
<1>1. WorkOK /\ p \in Procs
    BY Numbers DEF TypeInv
<1>2. SaidStays
    BY DEF RefreshCheck, Refresh, SaidStays, queueVars
<1>3. ASSUME NEW u \in Users
      PROVE  Calm(u)
    <2>1. proc[p].pc \in NameLabels \ {"enforce"}
        BY DEF RefreshCheck, Refresh, At, NameLabels
    <2>2. proc[p].op # "delete" /\ proc[p].pc # "queue"
        BY <1>1, <2>1, WorkAt, OpOfLabel DEF NameLabels
    <2>3. Stop(p) \/ Goto(p, "refresh") \/ Goto(p, "name.read")
        BY DEF RefreshCheck, Refresh
    <2>4. QED
        BY <1>1, <2>2, <2>3, StopCalm, GotoCalm
<1>4. QED
    BY <1>2, <1>3, StaysSaid

(* A sign-in clamps a name that is hidden. *)
LEMMA NameReadSaid ==
    ASSUME TypeInv, SaidInv, NEW p \in Slots, NameRead(p)
    PROVE  SaidInv'
<1>1. WorkOK /\ p \in Procs
    BY Numbers DEF TypeInv
<1>2. SaidStays
    BY DEF NameRead, SaidStays, queueVars
<1>3. ASSUME NEW v \in Users
      PROVE  Calm(v)
    <2>1. proc[p].pc = "name.read" /\ proc[p].op # "delete" /\ proc[p] \in Process
        BY <1>1, WorkAt, OpOfLabel DEF NameRead, At, NameLabels
    <2>2. CASE Goto(p, "enforce")
        BY <1>1, <2>1, <2>2, GotoCalm
    <2>3. ASSUME NEW new, new = NewName(proc[p].u, proc[p].clamps),
                 proc' = [proc EXCEPT ![p].pc = "name.write", ![p].name = new]
          PROVE  Calm(v)
        <3>1. \A q \in Slots : q # p => proc'[q] = proc[q]
            BY <1>1, <2>3, Numbers DEF WorkOK
        <3>2. /\ proc'[p].u = proc[p].u /\ proc'[p].op = proc[p].op /\ proc'[p].name = new
              /\ proc'[p].pc = "name.write"
            BY <1>1, <2>1, <2>3 DEF WorkOK, Process
        <3>3. new = "clamped" => name[proc[p].u] \in Hidden
            BY <2>3 DEF NewName, Hidden
        <3>4. QED
            BY <2>1, <3>1, <3>2, <3>3 DEF Calm, WillHide, WillAnswer, WillRevoke, Revoked
    <2>4. QED
        BY <2>2, <2>3 DEF NameRead
<1>4. QED
    BY <1>2, <1>3, StaysSaid

LEMMA NameWriteSaid ==
    ASSUME TypeInv, SaidInv, NEW p \in Slots, NameWrite(p)
    PROVE  SaidInv'
<1>1. AccountsOK /\ WorkOK /\ p \in Procs
    BY Numbers DEF TypeInv
<1>2. proc[p].pc = "name.write" /\ proc[p] \in Process /\ Sound(proc[p])
    BY <1>1, WorkAt DEF NameWrite, At
<1>3. PICK u \in Users : u = proc[p].u
    BY <1>2, UserOfLabel DEF MatchLabels
<1>4. UNCHANGED <<accounts, session, queueVars>>
    BY DEF NameWrite
<1>5. ASSUME NEW v \in accounts
      PROVE  SaidOf(v)'
    <2>1. v \in Users /\ SaidOf(v)
        BY <1>1 DEF AccountsOK, SaidInv
    <2>2. Calm(v)
        <3> DEFINE s == [proc[p] EXCEPT !.pc = "enforce", !.name = "keep"]
        <3>1. s.u = proc[p].u /\ s.op = proc[p].op /\ s.name = "keep" /\ s.pc = "enforce"
            BY <1>2 DEF Process
        <3>2. proc' = [proc EXCEPT ![p] = s]
            BY <1>1 DEF WorkOK, NameWrite
        <3>3. QED
            BY <1>1, <1>2, <3>1, <3>2, PlainCalm
    <2>3. \A what : Backed(v, what)' <=> Backed(v, what)
        BY <1>4 DEF Backed, queueVars
    <2>4. name'[v] = name[v] \/ (v = u /\ name'[v] = proc[p].name)
        BY <1>1, <1>3, <2>1 DEF NameWrite, AccountsOK
    <2>5. v = u /\ proc[p].name \in Hidden => WillHide(p, v)
        BY <1>2, <1>3 DEF WillHide, Hidden, Process
    <2>6. name'[v] \in Hidden => name[v] \in Hidden \/ Backed(v, "name")'
        BY <2>1, <2>3, <2>4, <2>5 DEF SaidOf
    <2>7. QED
        BY <1>4, <1>5, <2>2, <2>6, SaidData
<1>6. QED
    BY <1>4, <1>5 DEF SaidInv

LEMMA PurgeStepsSaid ==
    ASSUME TypeInv, SaidInv, NEW p \in Procs,
           CodeRead(p) \/ CodeDelete(p) \/ DeleteRefs(p) \/ DeleteSent(p)
    PROVE  SaidInv'
<1>1. WorkOK
    BY DEF TypeInv
<1>2. SaidStays
    BY DEF CodeRead, CodeDelete, DeleteRefs, DeleteSent, SaidStays, queueVars
<1>3. ASSUME NEW u \in Users
      PROVE  Calm(u)
    <2>1. proc[p].pc \in {"code.read", "code.delete", "refs", "sent"}
        BY DEF CodeRead, CodeDelete, DeleteRefs, DeleteSent, At
    <2>2. ASSUME NEW pc \in {"code.delete", "refs"}, NEW c,
                 proc' = [proc EXCEPT ![p].pc = pc, ![p].code = c]
          PROVE  Calm(u)
        BY <1>1, <2>1, <2>2, CodeCalm
    <2>3. CASE CodeRead(p) \/ CodeDelete(p) \/ DeleteRefs(p)
        BY <1>1, <2>1, <2>2, <2>3, GotoCalm DEF CodeRead, CodeDelete, DeleteRefs
    <2>4. CASE DeleteSent(p)
        <3>1. proc[p].op \in {"delete", "close", "cron"}
            BY <1>1, <2>1, WorkAt, OpOfLabel
        <3>2. CASE proc[p].op = "close"
            BY <1>1, <2>4, <3>2, StopCalm DEF DeleteSent, AfterPurge
        <3>3. CASE proc[p].op \in {"delete", "cron"}
            <4>1. PICK next \in {"activity", "account"} :
                    Goto(p, next)
                    \/ proc' = [proc EXCEPT ![p].pc = next, ![p].missed = @ \cup {"sent"}]
                BY <2>4, <3>3 DEF DeleteSent, AfterPurge
            <4>2. QED
                BY <1>1, <2>1, <4>1, GotoCalm, MissCalm
        <3>4. QED
            BY <3>1, <3>2, <3>3
    <2>5. QED
        BY <2>3, <2>4
<1>4. QED
    BY <1>2, <1>3, StaysSaid

(* The check and the scrub are one statement: what is hidden is queued.      *)
LEMMA EnforceProfileSaid ==
    ASSUME TypeInv, SaidInv, NEW p \in Procs, EnforceProfile(p)
    PROVE  SaidInv'
<1>1. AccountsOK /\ WorkOK
    BY DEF TypeInv
<1>2. proc[p].pc = "enforce" /\ proc[p].op # "delete" /\ proc[p].u \in Users
    BY <1>1, WorkAt, OpOfLabel, UserOfLabel DEF EnforceProfile, At, MatchLabels
<1>3. UNCHANGED <<accounts, session, queueVars>>
    BY DEF EnforceProfile
<1>4. ASSUME NEW v \in accounts
      PROVE  SaidOf(v)'
    <2>1. v \in Users
        BY <1>1 DEF AccountsOK
    <2>2. Calm(v)
        BY <1>1, <1>2, <2>1, StopCalm, GotoCalm DEF EnforceProfile, AfterEnforce
    <2>3. name'[v] = name[v] \/ queue[v] # "none"
        BY <1>1, <1>2, <2>1 DEF EnforceProfile, AccountsOK
    <2>4. name'[v] \in Hidden => name[v] \in Hidden \/ Backed(v, "name")'
        BY <1>3, <2>3 DEF Backed, queueVars
    <2>5. QED
        BY <1>3, <1>4, <2>2, <2>4, SaidData
<1>5. QED
    BY <1>3, <1>4 DEF SaidInv

LEMMA CronCalm ==
    ASSUME WorkOK, NEW r, proc' = [proc EXCEPT ![Cron] = r]
    PROVE  \A u \in Users : Calm(u)
BY OtherCalm, Numbers

LEMMA CronSets ==
    ASSUME WorkOK
    PROVE  /\ \A pc : Goto(Cron, pc) => proc' = [proc EXCEPT ![Cron] = [proc[Cron] EXCEPT !.pc = pc]]
           /\ \A pc, u : proc' = [proc EXCEPT ![Cron].pc = pc, ![Cron].u = u]
                => proc' = [proc EXCEPT ![Cron] = [proc[Cron] EXCEPT !.pc = pc, !.u = u]]
BY Numbers, WorkAt DEF Goto, WorkOK

LEMMA QuietCronSaid ==
    ASSUME TypeInv, SaidInv,
           \/ ListQueue \/ PassEnds \/ Minimize \/ KeepRefsClear
           \/ \E u \in Users : PickDelete(u) \/ PickKeepClear(u)
    PROVE  SaidInv'
<1>1. WorkOK
    BY DEF TypeInv
<1>2. SaidStays
    BY DEF ListQueue, PassEnds, Minimize, KeepRefsClear, PickDelete, PickKeepClear, SaidStays,
           queueVars
<1>3. UNCHANGED proc \/ \E r : proc' = [proc EXCEPT ![Cron] = r]
    BY <1>1, CronSets
       DEF ListQueue, PassEnds, Minimize, KeepRefsClear, PickDelete, PickKeepClear, PickTo, Stop
<1>4. QED
    BY <1>1, <1>2, <1>3, CronCalm, ProcsCalm, StaysSaid

LEMMA DeleteAccountSaid ==
    ASSUME TypeInv, SaidInv, DeleteAccount
    PROVE  SaidInv'
<1>1. AccountsOK /\ WorkOK /\ QueueOK
    BY DEF TypeInv
<1>2. \A u \in Users : Calm(u)
    BY <1>1, CronSets, CronCalm DEF DeleteAccount
<1>3. CASE UNCHANGED <<accountVars, queue>>
    BY <1>2, <1>3, StaysSaid DEF SaidStays, DeleteAccount
<1>4. CASE Erase(proc[Cron].u)
    <2>1. proc[Cron].u \in Users
        BY <1>1, Numbers, WorkAt, UserOfLabel DEF DeleteAccount, At, MatchLabels
    <2>2. ASSUME NEW v \in accounts'
          PROVE  SaidOf(v)'
        <3>1. v \in accounts /\ v # proc[Cron].u /\ v \in Users /\ SaidOf(v)
            BY <1>1, <1>4, <2>2 DEF Erase, AccountsOK, SaidInv
        <3>2. /\ name'[v] = name[v] /\ session'[v] = session[v] /\ queue'[v] = queue[v]
              /\ UNCHANGED <<answer, overtaken, dropped>>
            BY <1>1, <1>4, <3>1 DEF DeleteAccount, Erase, AccountsOK, QueueOK
        <3>3. \A what : Backed(v, what)' <=> Backed(v, what)
            BY <3>2 DEF Backed
        <3>4. QED
            BY <1>2, <3>1, <3>2, <3>3, SaidFrame
    <2>3. QED
        BY <2>2 DEF SaidInv
<1>5. QED
    BY <1>3, <1>4 DEF DeleteAccount

(* The row goes, and the account may live: it is then one the cron dropped. *)
LEMMA UnqueueSaid ==
    ASSUME TypeInv, SaidInv, Unqueue
    PROVE  SaidInv'
<1>1. AccountsOK /\ WorkOK /\ QueueOK
    BY DEF TypeInv
<1>2. \A u \in Users : Calm(u)
    BY <1>1, CronSets, CronCalm DEF Unqueue
<1>3. UNCHANGED <<accountVars, answer, overtaken>>
    BY DEF Unqueue
<1>4. ASSUME NEW v \in accounts
      PROVE  SaidOf(v)'
    <2>1. v \in Users /\ SaidOf(v)
        BY <1>1 DEF AccountsOK, SaidInv
    <2>2. \A what : Backed(v, what) => Backed(v, what)'
        BY <1>1, <1>3, <1>4, <2>1 DEF Unqueue, Backed, QueueOK
    <2>3. QED
        BY <1>2, <1>3, <2>1, <2>2, SaidFrame DEF accountVars
<1>5. QED
    BY <1>3, <1>4 DEF SaidInv, accountVars

LEMMA CancelSaid ==
    ASSUME TypeInv, SaidInv, NEW u \in Users, Cancel(u)
    PROVE  SaidInv'
<1>1. AccountsOK /\ WorkOK /\ QueueOK
    BY DEF TypeInv
<1>2. UNCHANGED <<accounts, session, dropped, proc>>
    BY DEF Cancel
<1>3. ASSUME NEW v \in accounts \ {u}
      PROVE  SaidOf(v)'
    <2>1. v \in Users /\ SaidOf(v)
        BY <1>1 DEF AccountsOK, SaidInv
    <2>2. /\ name'[v] = name[v] /\ queue'[v] = queue[v] /\ answer'[v] = answer[v]
          /\ \A what : <<v, what>> \in overtaken' <=> <<v, what>> \in overtaken
        BY <1>1, <1>3, <2>1 DEF Cancel, AccountsOK, QueueOK
    <2>3. \A what : Backed(v, what)' <=> Backed(v, what)
        BY <1>2, <2>2 DEF Backed
    <2>4. QED
        BY <1>2, <2>1, <2>2, <2>3, ProcsCalm, SaidFrame
<1>4. ASSUME u \in accounts
      PROVE  SaidOf(u)'
    <2>1. answer'[u] = "kept"
        BY <1>1 DEF Cancel, QueueOK
    <2>2. name'[u] \in Hidden => name[u] = "clamped"
        BY <1>1 DEF Cancel, AccountsOK, Hidden
    <2>3. \A what \in Late(u) : Backed(u, what)'
        BY DEF Cancel, Backed
    <2>4. name'[u] \in Hidden => "name" \in Late(u)
        BY <2>2 DEF Late
    <2>5. \A p \in Slots : WillHide(p, u) => "name" \in Late(u)
        BY DEF WillHide, Late, At
    <2>6. \A p \in Slots : WillAnswer(p, u) => "answer" \in Late(u)
        BY DEF WillAnswer, Late, At
    <2>7. Calm(u) /\ \A p \in Slots : WillHide(p, u)' => WillHide(p, u)
        BY <1>2, ProcsCalm DEF WillHide
    <2>8. \A p \in Slots : WillHide(p, u)' => Backed(u, "name")'
        BY <2>3, <2>5, <2>7
    <2>9. \A p \in Slots : WillAnswer(p, u)' => Backed(u, "answer")'
        BY <2>3, <2>6, <2>7 DEF Calm
    <2>10. session'[u] = "old" =>
             \/ \E p \in Slots : WillRevoke(p, u)'
             \/ <<u, "session">> \in overtaken'
             \/ \A p \in Slots : ~Revoked(p, u)'
        <3>1. SaidOf(u) /\ overtaken \subseteq overtaken'
            BY <1>4 DEF SaidInv, Cancel
        <3>2. QED
            BY <1>2, <2>7, <3>1 DEF SaidOf, Calm
    <2>11. QED
        BY <2>1, <2>3, <2>4, <2>8, <2>9, <2>10 DEF SaidOf
<1>5. QED
    BY <1>2, <1>3, <1>4 DEF SaidInv

LEMMA WorldSaid ==
    ASSUME TypeInv, SaidInv, NEW u \in Users, PlayerWrites(u) \/ UpdateAccount(u) \/ GraceEnds(u)
    PROVE  SaidInv'
<1>1. AccountsOK /\ QueueOK
    BY DEF TypeInv
<1>2. UNCHANGED <<accounts, session, answer, overtaken, dropped, proc>>
    BY DEF PlayerWrites, UpdateAccount, GraceEnds, accountVars, queueVars
<1>3. ASSUME NEW v \in accounts
      PROVE  SaidOf(v)'
    <2>1. v \in Users /\ SaidOf(v)
        BY <1>1 DEF AccountsOK, SaidInv
    <2>2. name'[v] \in Hidden => name'[v] = name[v]
        BY <1>1, <2>1 DEF PlayerWrites, UpdateAccount, GraceEnds, accountVars, AccountsOK, Hidden
    <2>3. queue[v] # "none" => queue'[v] # "none"
        BY <1>1, <2>1 DEF PlayerWrites, UpdateAccount, GraceEnds, queueVars, QueueOK
    <2>4. \A what : Backed(v, what) => Backed(v, what)'
        BY <1>2, <2>3 DEF Backed
    <2>5. QED
        BY <1>2, <2>1, <2>2, <2>4, ProcsCalm, SaidFrame
<1>4. QED
    BY <1>2, <1>3 DEF SaidInv

(* Nothing in flight is left, and no player has an answer to a request that  *)
(* was.                                                                     *)
LEMMA RestartSaid ==
    ASSUME TypeInv, SaidInv, Restart
    PROVE  SaidInv'
<1>1. AccountsOK /\ QueueOK
    BY DEF TypeInv
<1>2. UNCHANGED <<accounts, name, session, queue, overtaken, dropped>>
    BY DEF Restart, accountVars
<1>3. \A p \in Slots : proc'[p] = Idle
    BY Numbers DEF Restart
<1>4. ASSUME NEW v \in accounts
      PROVE  SaidOf(v)'
    <2>1. v \in Users /\ SaidOf(v)
        BY <1>1 DEF AccountsOK, SaidInv
    <2>2. \A p \in Slots : ~WillHide(p, v)' /\ ~WillAnswer(p, v)' /\ ~Revoked(p, v)'
        BY <1>3 DEF WillHide, WillAnswer, Revoked, Idle
    <2>3. \A what : Backed(v, what)' <=> Backed(v, what)
        BY <1>2 DEF Backed
    <2>4. answer'[v] = "scheduled" =>
            answer[v] = "scheduled" /\ \A p \in Slots : ~WillRevoke(p, v)
        BY <2>1 DEF Restart, WillRevoke, WillAnswer
    <2>5. session'[v] = "old" => <<v, "session">> \in overtaken' \/ answer'[v] # "scheduled"
        BY <1>2, <2>1, <2>4 DEF SaidOf
    <2>6. (name'[v] \in Hidden => Backed(v, "name")')
          /\ (answer'[v] = "scheduled" => Backed(v, "answer")')
        BY <1>2, <2>1, <2>3, <2>4 DEF SaidOf
    <2>7. QED
        BY <2>2, <2>5, <2>6 DEF SaidOf
<1>5. QED
    BY <1>2, <1>4 DEF SaidInv

LEMMA InitSaid ==
    ASSUME Init
    PROVE  SaidInv
<1>1. ASSUME NEW u \in accounts
      PROVE  SaidOf(u)
    <2>1. u \in Users /\ \A p \in Slots : proc[p] = Idle
        BY Numbers DEF Init
    <2>2. \A p \in Slots : ~WillHide(p, u) /\ ~WillAnswer(p, u)
        BY <2>1 DEF WillHide, WillAnswer, Idle
    <2>3. /\ name[u] \in Hidden => queue[u] # "none"
          /\ answer[u] = "scheduled" => queue[u] # "none"
          /\ session[u] # "old"
        BY <2>1 DEF Init, Hidden
    <2>4. QED
        BY <2>2, <2>3 DEF SaidOf, Backed
<1>2. QED
    BY <1>1 DEF SaidInv

LEMMA SaidStep ==
    ASSUME TypeInv, SaidInv, [Next]_vars
    PROVE  SaidInv'
<1>1. ASSUME NEW p \in Slots, Requests(p) \/ RequestSteps(p)
      PROVE  SaidInv'
    BY <1>1, RequestsSaid, QueueDeletionSaid, ScrubProfileSaid, CascadeSaid, LogOutSaid,
       DisconnectSaid, CodeStepsSaid, MatchStepsSaid, RefreshStepsSaid, NameReadSaid,
       NameWriteSaid
       DEF RequestSteps
<1>2. ASSUME NEW p \in Procs, SharedSteps(p)
      PROVE  SaidInv'
    BY <1>2, PurgeStepsSaid, EnforceProfileSaid DEF SharedSteps
<1>3. CASE CronSteps
    BY <1>3, QuietCronSaid, DeleteAccountSaid, UnqueueSaid DEF CronSteps
<1>4. CASE \E u \in Users : PlayerWrites(u) \/ UpdateAccount(u) \/ Cancel(u) \/ GraceEnds(u)
    BY <1>4, WorldSaid, CancelSaid
<1>5. CASE Restart
    BY <1>5, RestartSaid
<1>6. CASE UNCHANGED vars
    BY <1>6, StaysSaid, ProcsCalm DEF vars, SaidStays, queueVars
<1>7. QED
    BY <1>1, <1>2, <1>3, <1>4, <1>5, <1>6 DEF Next

(* What is said of a deletion is what the queue holds, for any number of     *)
(* players, requests, faults and restarts: only an account with a queue row  *)
(* is shown as deleted, a player told that the deletion is scheduled has one, *)
(* and no session from before the request outlives that answer, but for what *)
(* a cancellation overtook and what the cron dropped.                        *)
THEOREM SaidHolds == Spec => []SaidIsQueued
<1>1. Init => TypeInv /\ SaidInv
    BY InitType, InitSaid
<1>2. TypeInv /\ SaidInv /\ [Next]_vars => TypeInv' /\ SaidInv'
    BY TypeStep, SaidStep
<1>3. TypeInv /\ SaidInv => SaidIsQueued
    BY SaidInvIsSaid
<1>4. QED
    BY <1>1, <1>2, <1>3, PTL DEF Spec

-----------------------------------------------------------------------------
(* Where a step takes its process: the others stay, and it is now at one of  *)
(* the labels.                                                              *)

Only(p, pcs) == (\A q \in Procs \ {p} : proc'[q] = proc[q]) /\ proc'[p].pc \in pcs

LEMMA Moves ==
    ASSUME WorkOK, NEW p \in Procs
    PROVE  /\ Stop(p) => Only(p, {"idle"})
           /\ \A pc : Goto(p, pc) => Only(p, {pc})
           /\ \A pc, kinds : proc' = [proc EXCEPT ![p].pc = pc, ![p].missed = @ \cup kinds]
                => Only(p, {pc})
           /\ \A pc, c : proc' = [proc EXCEPT ![p].pc = pc, ![p].code = c] => Only(p, {pc})
           /\ \A pc, new : proc' = [proc EXCEPT ![p].pc = pc, ![p].name = new] => Only(p, {pc})
           /\ \A pc, us : proc' = [proc EXCEPT ![p].pc = pc, ![p].named = us] => Only(p, {pc})
           /\ \A pc, u : proc' = [proc EXCEPT ![p].pc = pc, ![p].u = u] => Only(p, {pc})
<1>1. proc[p] \in Process /\ proc \in [Procs -> Process]
    BY WorkAt DEF WorkOK
<1>2. QED
    BY <1>1 DEF Only, Stop, Goto, Idle, Process

LEMMA BeginOnly ==
    ASSUME WorkOK, NEW p \in Slots, NEW op, NEW pc, NEW u
    PROVE  /\ Begin(p, [Idle EXCEPT !.op = op, !.u = u, !.pc = pc]) => Only(p, {pc})
           /\ \A clamps : Begin(p, [Idle EXCEPT !.op = op, !.u = u, !.clamps = clamps,
                                                !.pc = pc]) => Only(p, {pc})
           /\ \A us : Begin(p, [Idle EXCEPT !.op = op, !.us = us, !.pc = pc]) => Only(p, {pc})
<1>1. \A r : Begin(p, r) => proc'[p] = r /\ \A q \in Procs \ {p} : proc'[q] = proc[q]
    BY Numbers DEF WorkOK, Begin
<1>2. ASSUME Begin(p, [Idle EXCEPT !.op = op, !.u = u, !.pc = pc])
      PROVE  Only(p, {pc})
    <2> DEFINE r == [Idle EXCEPT !.op = op, !.u = u, !.pc = pc]
    <2>1. r.pc = pc
        BY DEF Idle
    <2>2. QED
        BY <1>1, <1>2, <2>1 DEF Only
<1>3. ASSUME NEW clamps, Begin(p, [Idle EXCEPT !.op = op, !.u = u, !.clamps = clamps, !.pc = pc])
      PROVE  Only(p, {pc})
    <2> DEFINE r == [Idle EXCEPT !.op = op, !.u = u, !.clamps = clamps, !.pc = pc]
    <2>1. r.pc = pc
        BY DEF Idle
    <2>2. QED
        BY <1>1, <1>3, <2>1 DEF Only
<1>4. ASSUME NEW us, Begin(p, [Idle EXCEPT !.op = op, !.us = us, !.pc = pc])
      PROVE  Only(p, {pc})
    <2> DEFINE r == [Idle EXCEPT !.op = op, !.us = us, !.pc = pc]
    <2>1. r.pc = pc
        BY DEF Idle
    <2>2. QED
        BY <1>1, <1>4, <2>1 DEF Only
<1>5. QED
    BY <1>2, <1>3, <1>4

LEMMA BeginMoves ==
    ASSUME WorkOK, NEW p \in Slots
    PROVE  /\ \A u : DeleteBegin(p, u) => Only(p, {"queue"})
           /\ \A u : CodeBegin(p, u) => Only(p, {"code.look"})
           /\ \A us : MatchBegin(p, us) => Only(p, {"users"})
           /\ \A u, clamps : SignInBegin(p, u, clamps) => Only(p, {"name.read"})
           /\ \A u : RefreshBegin(p, u) => Only(p, {"check"})
           /\ \A u : Close(p, u) => Only(p, {"code.read"})
BY BeginOnly DEF DeleteBegin, CodeBegin, MatchBegin, SignInBegin, RefreshBegin, Close

LEMMA MovesTo ==
    ASSUME NEW p \in Procs, NEW pc, Only(p, {pc}), NEW pcs, pc \in pcs
    PROVE  Only(p, pcs)
BY DEF Only

LEMMA RequestMoves ==
    ASSUME WorkOK, NEW p \in Procs
    PROVE  /\ QueueDeletion(p) => Only(p, {"scrub", "idle"})
           /\ ScrubProfile(p) => Only(p, {"social"})
           /\ DeleteSocial(p) => Only(p, {"storage"})
           /\ ScrubStorage(p) => Only(p, {"code.read"})
           /\ DeleteActivity(p) => Only(p, {"logout"})
           /\ LogOut(p) => Only(p, {"sockets", "idle"})
           /\ Disconnect(p) => Only(p, {"idle"})
<1>1. ASSUME QueueDeletion(p)
      PROVE  Only(p, {"scrub", "idle"})
    <2>1. Only(p, {"scrub"}) \/ Only(p, {"idle"})
        BY <1>1, Moves DEF QueueDeletion
    <2>2. QED
        BY <2>1 DEF Only
<1>2. ScrubProfile(p) => Only(p, {"social"})
    BY Moves DEF ScrubProfile
<1>3. DeleteSocial(p) => Only(p, {"storage"})
    BY Moves DEF DeleteSocial, Clears
<1>4. ScrubStorage(p) => Only(p, {"code.read"})
    BY Moves DEF ScrubStorage
<1>5. DeleteActivity(p) => Only(p, {"logout"})
    BY Moves DEF DeleteActivity, Clears
<1>6. ASSUME LogOut(p)
      PROVE  Only(p, {"sockets", "idle"})
    <2>1. Only(p, {"sockets"}) \/ Only(p, {"idle"})
        BY <1>6, Moves DEF LogOut
    <2>2. QED
        BY <2>1 DEF Only
<1>7. Disconnect(p) => Only(p, {"idle"})
    BY Moves DEF Disconnect
<1>8. QED
    BY <1>1, <1>2, <1>3, <1>4, <1>5, <1>6, <1>7

LEMMA NamingMoves ==
    ASSUME WorkOK, NEW p \in Procs
    PROVE  /\ RefreshCheck(p) => Only(p, {"refresh", "idle"})
           /\ Refresh(p) => Only(p, {"name.read", "idle"})
           /\ NameRead(p) => Only(p, {"name.write", "enforce"})
           /\ NameWrite(p) => Only(p, {"enforce"})
           /\ EnforceProfile(p) => Only(p, {"minimize", "idle"})
<1>0. ASSUME NEW pc, Goto(p, pc) \/ Stop(p)
      PROVE  Only(p, {pc, "idle"})
    <2>1. Only(p, {pc}) \/ Only(p, {"idle"})
        BY <1>0, Moves
    <2>2. QED
        BY <2>1 DEF Only
<1>1. ASSUME RefreshCheck(p)
      PROVE  Only(p, {"refresh", "idle"})
    <2>1. Goto(p, "refresh") \/ Stop(p)
        BY <1>1 DEF RefreshCheck
    <2>2. QED
        BY <1>0, <2>1
<1>2. ASSUME Refresh(p)
      PROVE  Only(p, {"name.read", "idle"})
    <2>1. Goto(p, "name.read") \/ Stop(p)
        BY <1>2 DEF Refresh
    <2>2. QED
        BY <1>0, <2>1
<1>3. ASSUME NameRead(p)
      PROVE  Only(p, {"name.write", "enforce"})
    <2>1. PICK pc, new :
            /\ pc \in {"name.write", "enforce"}
            /\ Goto(p, pc) \/ proc' = [proc EXCEPT ![p].pc = pc, ![p].name = new]
        BY <1>3 DEF NameRead
    <2>2. QED
        BY <2>1, Moves, MovesTo
<1>4. ASSUME NameWrite(p)
      PROVE  Only(p, {"enforce"})
    <2>1. PICK pc \in {"enforce"}, new \in {"keep"} :
            proc' = [proc EXCEPT ![p].pc = pc, ![p].name = new]
        BY <1>4 DEF NameWrite
    <2>2. QED
        BY <2>1, Moves
<1>5. ASSUME EnforceProfile(p)
      PROVE  Only(p, {"minimize", "idle"})
    <2>1. AfterEnforce(p)
        BY <1>5 DEF EnforceProfile
    <2>2. Goto(p, "minimize") \/ Stop(p)
        BY <2>1 DEF AfterEnforce
    <2>3. QED
        BY <1>0, <2>2
<1>6. QED
    BY <1>1, <1>2, <1>3, <1>4, <1>5

LEMMA CronMoves ==
    ASSUME WorkOK
    PROVE  /\ ListQueue => Only(Cron, {"idle", "pick"})
           /\ \A u : PickDelete(u) => Only(Cron, {"code.read"})
           /\ \A u : PickKeepClear(u) => Only(Cron, {"enforce"})
           /\ PassEnds => Only(Cron, {"idle"})
           /\ Minimize => Only(Cron, {"recent"})
           /\ KeepRefsClear => Only(Cron, {"pick"})
           /\ DeleteAccount => Only(Cron, {"unqueue"})
           /\ Unqueue => Only(Cron, {"pick"})
<1>1. ListQueue => Only(Cron, {"idle", "pick"})
    BY Numbers DEF ListQueue, At, Only, Idle, WorkOK
<1>2. QED
    BY <1>1, Moves, Numbers DEF PickDelete, PickKeepClear, PickTo, PassEnds, Minimize,
                                KeepRefsClear, DeleteAccount, Unqueue

-----------------------------------------------------------------------------
(* The friend codes.  A code is led to by one row only: the player's, or the *)
(* one a call that has drawn it is about to write; and it is deleted for the *)
(* player it leads to.                                                      *)

Drawing(p) == proc[p].pc = "code.reverse"

RowsLead ==
    \A u \in Users : reverse[u] # None => forward[reverse[u]] = u /\ reverse[u] \notin retired

DrawnOK(p) ==
    /\ forward[proc[p].code] = proc[p].u /\ proc[p].code \notin retired
    /\ \A v \in Users : reverse[v] # proc[p].code
    /\ \A q \in Procs \ {p} : proc[q].code # proc[p].code
    /\ proc[p].u \notin strays =>
         /\ reverse[proc[p].u] = None
         /\ \A q \in Slots \ {p} : Drawing(q) => proc[q].u # proc[p].u

GoingOK(p) == proc[p].code \in retired \/ forward[proc[p].code] = proc[p].u

HandedOK == \A u \in Users \ strays : handed[u] \subseteq {reverse[u]} \ {None}

CodeInv ==
    /\ RowsLead /\ HandedOK
    /\ \A p \in Slots : Drawing(p) => DrawnOK(p)
    /\ \A p \in Procs : proc[p].pc = "code.delete" /\ proc[p].code # None => GoingOK(p)

LEMMA CodeInvIsCode ==
    ASSUME TypeInv, CodeInv
    PROVE  CodeNamesOwner
<1>1. ASSUME NEW u \in accounts \ strays
      PROVE  Cardinality(handed[u]) <= 1
    <2>1. handed[u] \subseteq {reverse[u]}
        BY <1>1 DEF CodeInv, HandedOK, TypeInv, AccountsOK
    <2>2. IsFiniteSet({reverse[u]}) /\ Cardinality({reverse[u]}) = 1
        BY FS_Singleton
    <2>3. QED
        BY <2>1, <2>2, FS_Subset
<1>2. QED
    BY <1>1 DEF CodeInv, RowsLead, CodeNamesOwner

(* A process that holds a code holds the one it held. *)
CodesRest ==
    \A p \in Procs : proc'[p].pc \in {"code.reverse", "code.delete"} => proc'[p] = proc[p]

LEMMA RestCodes ==
    ASSUME WorkOK', CodesRest, NEW p \in Procs
    PROVE  proc'[p].code # None => proc'[p] = proc[p]
BY DEF WorkOK, CodesRest, Sound

LEMMA OnlyRests ==
    ASSUME NEW p \in Procs, NEW pcs, Only(p, pcs),
           pcs \cap {"code.reverse", "code.delete"} = {}
    PROVE  CodesRest
BY DEF Only, CodesRest

LEMMA CodeFrame ==
    ASSUME TypeInv, TypeInv', CodeInv, CodesRest, UNCHANGED <<forward, reverse, retired>>,
           \A u \in Users : handed'[u] \subseteq handed[u] \cup ({reverse[u]} \ {None}),
           strays \subseteq strays'
    PROVE  CodeInv'
<1>1. \A p \in Procs : proc'[p].code # None => proc'[p] = proc[p]
    BY RestCodes DEF TypeInv
<1>2. \A p \in Slots : Drawing(p)' => Drawing(p) /\ proc'[p] = proc[p]
    BY Numbers DEF CodesRest, Drawing
<1>3. ASSUME NEW p \in Slots, Drawing(p)'
      PROVE  DrawnOK(p)'
    <2>1. DrawnOK(p) /\ proc'[p] = proc[p] /\ proc[p].code # None
        BY <1>2, <1>3, Numbers DEF CodeInv, Drawing, TypeInv, WorkOK, Sound
    <2>2. \A q \in Procs \ {p} : proc'[q].code # proc'[p].code
        BY <1>1, <2>1 DEF DrawnOK
    <2>3. proc'[p].u \notin strays' =>
            /\ reverse'[proc'[p].u] = None
            /\ \A q \in Slots \ {p} : Drawing(q)' => proc'[q].u # proc'[p].u
        BY <1>2, <2>1 DEF DrawnOK
    <2>4. QED
        BY <2>1, <2>2, <2>3 DEF DrawnOK
<1>4. \A p \in Procs : proc'[p].pc = "code.delete" /\ proc'[p].code # None => GoingOK(p)'
    BY <1>1 DEF CodeInv, GoingOK
<1>5. RowsLead' /\ HandedOK'
    BY DEF CodeInv, RowsLead, HandedOK
<1>6. QED
    BY <1>3, <1>4, <1>5 DEF CodeInv

LEMMA CodeMoves ==
    ASSUME WorkOK, NEW p \in Procs
    PROVE  /\ CodeLook(p) => Only(p, {"code.forward", "idle"})
           /\ CodeReverse(p) => Only(p, {"idle"})
           /\ MatchUsers(p) => Only(p, {"write", "idle"})
           /\ MatchWrite(p) => Only(p, {"idle"})
           /\ DeleteRefs(p) => Only(p, {"sent"})
           /\ CodeDelete(p) => Only(p, {"refs"})
<1>1. ASSUME CodeLook(p)
      PROVE  Only(p, {"code.forward", "idle"})
    <2>1. Only(p, {"code.forward"}) \/ Only(p, {"idle"})
        BY <1>1, Moves DEF CodeLook
    <2>2. QED
        BY <2>1 DEF Only
<1>2. ASSUME MatchUsers(p)
      PROVE  Only(p, {"write", "idle"})
    <2>1. \/ Stop(p)
          \/ \E pc, us : /\ pc \in {"write"}
                         /\ proc' = [proc EXCEPT ![p].pc = pc, ![p].named = us]
        BY <1>2 DEF MatchUsers
    <2>2. Only(p, {"write"}) \/ Only(p, {"idle"})
        BY <2>1, Moves
    <2>3. QED
        BY <2>2 DEF Only
<1>3. ASSUME CodeDelete(p)
      PROVE  Only(p, {"refs"})
    <2>1. PICK pc \in {"refs"}, c \in {None} :
            proc' = [proc EXCEPT ![p].pc = pc, ![p].code = c]
        BY <1>3 DEF CodeDelete
    <2>2. QED
        BY <2>1, Moves
<1>4. (CodeReverse(p) => Only(p, {"idle"})) /\ (MatchWrite(p) => Only(p, {"idle"}))
    BY Moves DEF CodeReverse, MatchWrite
<1>5. DeleteRefs(p) => Only(p, {"sent"})
    BY Moves DEF DeleteRefs
<1>6. QED
    BY <1>1, <1>2, <1>3, <1>4, <1>5

LEMMA DeleteSentMoves ==
    ASSUME WorkOK, NEW p \in Procs, DeleteSent(p)
    PROVE  Only(p, {"activity", "account", "idle"})
<1>1. proc[p].op \in {"delete", "close", "cron"}
    BY WorkAt, OpOfLabel DEF DeleteSent, At
<1>2. CASE proc[p].op = "close"
    <2>1. Only(p, {"idle"})
        BY <1>2, Moves DEF DeleteSent, AfterPurge
    <2>2. QED
        BY <2>1 DEF Only
<1>3. CASE proc[p].op \in {"delete", "cron"}
    <2>1. PICK next \in {"activity", "account"} :
            Goto(p, next) \/ proc' = [proc EXCEPT ![p].pc = next, ![p].missed = @ \cup {"sent"}]
        BY <1>3 DEF DeleteSent, AfterPurge
    <2>2. Only(p, {next})
        BY <2>1, Moves
    <2>3. QED
        BY <2>1, <2>2 DEF Only
<1>4. QED
    BY <1>1, <1>2, <1>3

(* Steps that have nothing to do with the codes. *)
LEMMA BeginRests ==
    ASSUME TypeInv, NEW p \in Slots, Requests(p)
    PROVE  CodesRest /\ UNCHANGED codeVars
<1>1. WorkOK /\ p \in Procs
    BY Numbers DEF TypeInv
<1>2. UNCHANGED codeVars
    BY DEF Requests, DeleteBegin, CodeBegin, MatchBegin, SignInBegin, RefreshBegin, Close
<1>3. PICK pc \in {"queue", "code.look", "users", "name.read", "check", "code.read"} :
        Only(p, {pc})
    BY <1>1, BeginMoves DEF Requests
<1>4. QED
    BY <1>1, <1>2, <1>3, OnlyRests

LEMMA RequestRests ==
    ASSUME TypeInv, NEW p \in Procs,
           \/ QueueDeletion(p) \/ ScrubProfile(p) \/ DeleteSocial(p) \/ ScrubStorage(p)
           \/ DeleteActivity(p) \/ LogOut(p) \/ Disconnect(p) \/ MatchUsers(p) \/ MatchWrite(p)
           \/ RefreshCheck(p) \/ Refresh(p) \/ NameRead(p) \/ NameWrite(p)
           \/ DeleteRefs(p) \/ DeleteSent(p) \/ EnforceProfile(p)
    PROVE  CodesRest /\ UNCHANGED codeVars
<1>1. WorkOK
    BY DEF TypeInv
<1>2. UNCHANGED codeVars
    BY DEF QueueDeletion, ScrubProfile, DeleteSocial, ScrubStorage, DeleteActivity, Clears,
           LogOut, Disconnect, MatchUsers, MatchWrite, RefreshCheck, Refresh, NameRead, NameWrite,
           DeleteRefs, DeleteSent, EnforceProfile
<1>3. \A pcs : Only(p, pcs) /\ pcs \cap {"code.reverse", "code.delete"} = {} => CodesRest
    BY OnlyRests
<1>4. CodesRest
    BY <1>1, <1>3, RequestMoves, NamingMoves, CodeMoves, DeleteSentMoves
<1>5. QED
    BY <1>2, <1>4

LEMMA CronRests ==
    ASSUME TypeInv, CronSteps
    PROVE  CodesRest /\ UNCHANGED codeVars
<1>1. WorkOK
    BY DEF TypeInv
<1>2. UNCHANGED codeVars
    BY DEF CronSteps, ListQueue, PassEnds, PickDelete, PickKeepClear, Minimize, KeepRefsClear,
           DeleteAccount, Unqueue
<1>3. \A pcs : Only(Cron, pcs) /\ pcs \cap {"code.reverse", "code.delete"} = {} => CodesRest
    BY Numbers, OnlyRests
<1>4. CodesRest
    BY <1>1, <1>3, CronMoves DEF CronSteps
<1>5. QED
    BY <1>2, <1>4

LEMMA CodeLookCode ==
    ASSUME TypeInv, TypeInv', CodeInv, NEW p \in Slots, CodeLook(p)
    PROVE  CodeInv'
<1>1. WorkOK /\ CodesOK /\ p \in Procs
    BY Numbers DEF TypeInv
<1>2. CodesRest
    BY <1>1, CodeMoves, OnlyRests
<1>3. UNCHANGED <<forward, reverse, retired, strays>>
    BY DEF CodeLook
<1>4. \A u \in Users : handed'[u] \subseteq handed[u] \cup ({reverse[u]} \ {None})
    BY <1>1 DEF CodeLook, CodesOK
<1>5. QED
    BY <1>2, <1>3, <1>4, CodeFrame

(* What a process that holds a code may rely on while another one moves.     *)
LEMMA Holding ==
    ASSUME TypeInv, CodeInv, NEW p \in Procs, NEW pcs, Only(p, pcs)
    PROVE  /\ \A q \in Slots \ {p} : Drawing(q)' =>
                Drawing(q) /\ DrawnOK(q) /\ proc'[q] = proc[q] /\ proc[q].code \in Codes
                /\ proc[q].u \in Users
           /\ \A q \in Procs \ {p} : proc'[q].pc = "code.delete" /\ proc'[q].code # None =>
                GoingOK(q) /\ proc'[q] = proc[q] /\ proc[q].u \in Users
<1>1. \A q \in Procs \ {p} : proc'[q] = proc[q] /\ Sound(proc[q]) /\ proc[q] \in Process
    BY WorkAt DEF Only, TypeInv
<1>2. \A q \in Procs : proc[q].pc \in {"code.reverse", "code.delete"} => proc[q].u \in Users
    BY WorkAt, UserOfLabel DEF TypeInv, MatchLabels
<1>3. ASSUME NEW q \in Slots \ {p}, Drawing(q)'
      PROVE  Drawing(q) /\ DrawnOK(q) /\ proc'[q] = proc[q] /\ proc[q].code \in Codes
             /\ proc[q].u \in Users
    BY <1>1, <1>2, <1>3, Numbers DEF CodeInv, Drawing, Sound, Process
<1>4. QED
    BY <1>1, <1>2, <1>3 DEF CodeInv

LEMMA CodeForwardCode ==
    ASSUME TypeInv, TypeInv', CodeInv, NEW p \in Slots, CodeForward(p)
    PROVE  CodeInv'
<1>1. WorkOK /\ CodesOK /\ p \in Procs /\ proc[p].pc = "code.forward"
    BY Numbers DEF TypeInv, CodeForward, At
<1>2. PICK u \in Users : u = proc[p].u
    BY <1>1, WorkAt, UserOfLabel DEF MatchLabels
<1>3. UNCHANGED <<reverse, handed, retired>> /\ proc[p].op = "code"
    BY <1>1, WorkAt, OpOfLabel DEF CodeForward, CodeLabels
<1>4. CASE Stop(p) /\ UNCHANGED <<forward, strays>>
    BY <1>1, <1>3, <1>4, Moves, OnlyRests, CodeFrame
<1>5. ASSUME NEW c \in Codes, FreeCode(c), forward' = [forward EXCEPT ![c] = u],
             proc' = [proc EXCEPT ![p].pc = "code.reverse", ![p].code = c],
             strays' = IF reverse[u] # None \/ \E q \in CodeCalls(u) : At(q, "code.reverse")
                       THEN strays \cup {u} ELSE strays
      PROVE  CodeInv'
    <2>1. Only(p, {"code.reverse"}) /\ proc'[p].code = c /\ proc'[p].u = u
        <3>1. proc[p] \in Process
            BY <1>1, WorkAt
        <3>2. QED
            BY <1>1, <1>2, <1>5, <3>1 DEF Only, WorkOK, Process
    <2>2. \A v \in Users : reverse[v] # c
        BY <1>5, Numbers DEF CodeInv, RowsLead, FreeCode
    <2>3. RowsLead'
        BY <1>1, <1>3, <1>5, <2>2 DEF CodeInv, RowsLead, CodesOK
    <2>4. HandedOK'
        BY <1>3, <1>5 DEF CodeInv, HandedOK
    <2>5. \A q \in Procs : proc[q].code # c
        <3>1. \A q \in Slots : Drawing(q) => proc[q].u \in Users
            BY <1>1, WorkAt, UserOfLabel, Numbers DEF Drawing, MatchLabels
        <3>2. \A q \in Procs : proc[q].pc = "code.delete" => proc[q].u \in Users
            BY <1>1, WorkAt, UserOfLabel DEF MatchLabels
        <3>3. \A q \in Procs : proc[q].code # None =>
                proc[q].pc = "code.delete" \/ (q \in Slots /\ Drawing(q))
            BY <1>1, WorkAt DEF Sound, Drawing, Fits, CronLabels, PurgeLabels
        <3>4. QED
            BY <1>5, <3>1, <3>2, <3>3, Numbers DEF CodeInv, DrawnOK, GoingOK, FreeCode
    <2>6. DrawnOK(p)'
        <3>1. forward'[c] = u /\ c \notin retired'
            BY <1>1, <1>3, <1>5 DEF CodesOK, FreeCode
        <3>2. \A q \in Procs \ {p} : proc'[q].code # c
            BY <2>1, <2>5 DEF Only
        <3>3. u \notin strays' =>
                reverse'[u] = None /\ \A q \in Slots \ {p} : Drawing(q)' => proc'[q].u # u
            <4>1. \A q \in Slots \ {p} : Drawing(q)' => At(q, "code.reverse") /\ proc'[q] = proc[q]
                BY <2>1, Numbers DEF Only, Drawing, At
            <4>2. \A q \in Slots : At(q, "code.reverse") /\ proc[q].u = u => q \in CodeCalls(u)
                BY <1>1, WorkAt, OpOfLabel, Numbers DEF At, CodeCalls, CodeLabels
            <4>3. QED
                BY <1>3, <1>5, <4>1, <4>2
        <3>4. QED
            BY <1>3, <2>1, <2>2, <3>1, <3>2, <3>3 DEF DrawnOK
    <2>7. ASSUME NEW q \in Slots \ {p}, Drawing(q)'
          PROVE  DrawnOK(q)'
        <3>1. Drawing(q) /\ DrawnOK(q) /\ proc'[q] = proc[q] /\ proc[q].u \in Users
              /\ proc[q].code # c
            BY <2>1, <2>5, <2>7, Holding, Numbers
        <3>2. \A o \in Procs \ {q} : proc'[o].code # proc[q].code
            BY <2>1, <3>1 DEF DrawnOK, Only
        <3>3. proc[q].u \notin strays' =>
                \A o \in Slots \ {q} : Drawing(o)' => proc'[o].u # proc[q].u
            <4>1. proc[q].u \notin strays' => proc[q].u # u
                BY <1>1, <1>5, <2>7, <3>1, WorkAt, OpOfLabel, Numbers
                   DEF CodeCalls, At, Drawing, CodeLabels
            <4>2. \A o \in Slots \ {p} : proc'[o] = proc[o]
                BY <2>1, Numbers DEF Only
            <4>3. strays \subseteq strays'
                BY <1>5
            <4>4. QED
                BY <2>1, <3>1, <4>1, <4>2, <4>3 DEF DrawnOK, Drawing
        <3>4. proc[q].u \notin strays' => proc[q].u \notin strays
            BY <1>5
        <3>5. forward'[proc[q].code] = proc[q].u
            BY <1>1, <1>5, <2>1, <2>7, <3>1, Holding DEF CodesOK, DrawnOK
        <3>6. QED
            BY <1>3, <3>1, <3>2, <3>3, <3>4, <3>5 DEF DrawnOK
    <2>8. ASSUME NEW q \in Procs, proc'[q].pc = "code.delete", proc'[q].code # None
          PROVE  GoingOK(q)'
        <3>1. q # p
            BY <2>1, <2>8 DEF Only
        <3>2. GoingOK(q) /\ proc'[q] = proc[q]
            BY <1>1, <2>1, <2>8, <3>1, Holding
        <3>3. proc[q].code \in Codes /\ proc[q].code # c
            BY <1>1, <2>5, <2>8, <3>2, WorkAt DEF Process
        <3>4. forward'[proc[q].code] = forward[proc[q].code]
            BY <1>1, <1>5, <3>3 DEF CodesOK
        <3>5. QED
            BY <1>3, <3>2, <3>4 DEF GoingOK
    <2>9. QED
        BY <2>3, <2>4, <2>6, <2>7, <2>8 DEF CodeInv
<1>6. QED
    BY <1>2, <1>4, <1>5 DEF CodeForward

LEMMA CodeReverseCode ==
    ASSUME TypeInv, TypeInv', CodeInv, NEW p \in Slots, CodeReverse(p)
    PROVE  CodeInv'
<1>1. WorkOK /\ CodesOK /\ p \in Procs /\ proc[p].pc = "code.reverse"
    BY Numbers DEF TypeInv, CodeReverse, At
<1>2. PICK u \in Users : u = proc[p].u
    BY <1>1, WorkAt, UserOfLabel DEF MatchLabels
<1>3. PICK c \in Codes : c = proc[p].code
    BY <1>1, WorkAt DEF Sound, Process
<1>4. UNCHANGED <<forward, retired>> /\ strays \subseteq strays' /\ Only(p, {"idle"})
    BY <1>1, CodeMoves DEF CodeReverse
<1>5. CASE UNCHANGED <<reverse, handed>>
    BY <1>1, <1>4, <1>5, OnlyRests, CodeFrame
<1>6. CASE /\ reverse' = [reverse EXCEPT ![u] = c]
           /\ handed' = [handed EXCEPT ![u] = @ \cup {c}]
           /\ UNCHANGED strays
    <2>1. Drawing(p) /\ DrawnOK(p)
        BY <1>1 DEF CodeInv, Drawing
    <2>2. RowsLead'
        BY <1>1, <1>2, <1>3, <1>4, <1>6, <2>1 DEF CodeInv, RowsLead, CodesOK, DrawnOK
    <2>3. HandedOK'
        <3>1. u \notin strays => reverse[u] = None
            BY <1>2, <2>1 DEF DrawnOK
        <3>2. QED
            BY <1>1, <1>6, <3>1, Numbers DEF CodeInv, HandedOK, CodesOK
    <2>4. ASSUME NEW q \in Slots, Drawing(q)'
          PROVE  DrawnOK(q)'
        <3>1. q # p
            BY <1>4, <2>4 DEF Only, Drawing
        <3>2. Drawing(q) /\ DrawnOK(q) /\ proc'[q] = proc[q] /\ proc[q].code \in Codes
              /\ proc[q].u \in Users
            BY <1>1, <1>4, <2>4, <3>1, Holding
        <3>3. proc[q].code # c
            BY <1>1, <1>3, <3>2, <3>1 DEF DrawnOK
        <3>4. \A v \in Users : reverse'[v] # proc[q].code
            BY <1>1, <1>6, <3>2, <3>3 DEF CodesOK, DrawnOK
        <3>5. proc'[p].code = None
            BY <1>1, <1>4, WorkAt DEF TypeInv, WorkOK, Only, Sound
        <3>6. \A o \in Procs \ {q} : proc'[o].code # proc[q].code
            BY <1>4, <3>2, <3>5, Numbers DEF Only, DrawnOK
        <3>7. proc[q].u \notin strays =>
                reverse'[proc[q].u] = None
                /\ \A o \in Slots \ {q} : Drawing(o)' => proc'[o].u # proc[q].u
            <4>1. proc[q].u \notin strays => proc[q].u # u
                BY <1>2, <2>1, <3>1, <3>2 DEF DrawnOK
            <4>2. \A o \in Slots : Drawing(o)' => Drawing(o) /\ proc'[o] = proc[o]
                BY <1>4, Numbers DEF Only, Drawing
            <4>3. QED
                BY <1>1, <1>6, <3>2, <4>1, <4>2 DEF DrawnOK, CodesOK
        <3>8. QED
            BY <1>4, <1>6, <3>2, <3>4, <3>6, <3>7 DEF DrawnOK
    <2>5. ASSUME NEW q \in Procs, proc'[q].pc = "code.delete", proc'[q].code # None
          PROVE  GoingOK(q)'
        <3>1. q # p
            BY <1>4, <2>5 DEF Only
        <3>2. QED
            BY <1>1, <1>4, <2>5, <3>1, Holding DEF GoingOK
    <2>6. QED
        BY <2>2, <2>3, <2>4, <2>5 DEF CodeInv
<1>7. QED
    BY <1>2, <1>3, <1>5, <1>6 DEF CodeReverse

LEMMA CodeReadCode ==
    ASSUME TypeInv, TypeInv', CodeInv, NEW p \in Procs, CodeRead(p)
    PROVE  CodeInv'
<1>1. WorkOK /\ CodesOK /\ proc[p].pc = "code.read" /\ UNCHANGED codeVars
    BY DEF TypeInv, CodeRead, At
<1>2. PICK u \in Users : u = proc[p].u
    BY <1>1, WorkAt, UserOfLabel DEF MatchLabels
<1>3. CASE Goto(p, "refs")
    <2>1. Only(p, {"refs"})
        BY <1>1, <1>3, Moves
    <2>2. CodesRest
        BY <2>1, OnlyRests
    <2>3. QED
        BY <1>1, <2>2, CodeFrame DEF codeVars
<1>4. CASE proc' = [proc EXCEPT ![p].pc = "code.delete", ![p].code = reverse[u]]
    <2>1. Only(p, {"code.delete"}) /\ proc'[p].code = reverse[u] /\ proc'[p].u = u
        <3>1. proc[p] \in Process
            BY <1>1, WorkAt
        <3>2. QED
            BY <1>1, <1>2, <1>4, <3>1 DEF Only, WorkOK, Process
    <2>2. ASSUME NEW q \in Slots, Drawing(q)'
          PROVE  DrawnOK(q)'
        <3>1. q # p
            BY <2>1, <2>2 DEF Only, Drawing
        <3>2. Drawing(q) /\ DrawnOK(q) /\ proc'[q] = proc[q]
            BY <2>1, <2>2, <3>1, Holding
        <3>3. \A o \in Procs \ {q} : proc'[o].code # proc[q].code
            BY <2>1, <3>2 DEF Only, DrawnOK
        <3>4. \A o \in Slots \ {q} : Drawing(o)' => Drawing(o) /\ proc'[o] = proc[o]
            BY <2>1, Numbers DEF Only, Drawing
        <3>5. QED
            BY <1>1, <3>2, <3>3, <3>4 DEF DrawnOK, codeVars
    <2>3. ASSUME NEW q \in Procs, proc'[q].pc = "code.delete", proc'[q].code # None
          PROVE  GoingOK(q)'
        <3>1. CASE q = p
            BY <1>1, <2>1, <2>3, <3>1 DEF CodeInv, RowsLead, GoingOK, codeVars
        <3>2. CASE q # p
            BY <1>1, <2>1, <2>3, <3>2, Holding DEF GoingOK, codeVars
        <3>3. QED
            BY <3>1, <3>2
    <2>4. QED
        BY <1>1, <2>2, <2>3 DEF CodeInv, RowsLead, HandedOK, codeVars
<1>5. QED
    BY <1>2, <1>3, <1>4 DEF CodeRead

(* The row of the code goes, and with it no other player's. *)
LEMMA CodeDeleteCode ==
    ASSUME TypeInv, TypeInv', CodeInv, NEW p \in Procs, CodeDelete(p)
    PROVE  CodeInv'
<1>1. WorkOK /\ CodesOK /\ proc[p].pc = "code.delete" /\ Only(p, {"refs"})
    BY CodeMoves DEF TypeInv, CodeDelete, At
<1>2. PICK u \in Users : u = proc[p].u
    BY <1>1, WorkAt, UserOfLabel DEF MatchLabels
<1>3. PICK c \in Codes \cup {None} : c = proc[p].code
    BY <1>1, WorkAt DEF Process
<1>4. CASE UNCHANGED codeVars
    BY <1>1, <1>4, OnlyRests, CodeFrame DEF codeVars
<1>5. CASE /\ reverse' = [reverse EXCEPT ![u] = None]
           /\ forward' = IF c = None THEN forward ELSE [forward EXCEPT ![c] = None]
           /\ handed' = [handed EXCEPT ![u] = {}]
           /\ retired' = retired \cup ({c} \ {None})
           /\ strays \subseteq strays'
    <2>1. c # None => c \in retired \/ forward[c] = u
        BY <1>1, <1>2, <1>3 DEF CodeInv, GoingOK
    <2>2. \A d \in Codes : d # c => forward'[d] = forward[d] /\ (d \in retired' <=> d \in retired)
        BY <1>1, <1>3, <1>5 DEF CodesOK
    <2>3. \A v \in Users : v # u /\ reverse[v] # None => reverse[v] # c
        BY <1>2, <2>1 DEF CodeInv, RowsLead
    <2>4. RowsLead'
        BY <1>1, <1>5, <2>2, <2>3, Numbers DEF CodeInv, RowsLead, CodesOK
    <2>5. HandedOK'
        BY <1>1, <1>5 DEF CodeInv, HandedOK, CodesOK
    <2>6. ASSUME NEW q \in Slots, Drawing(q)'
          PROVE  DrawnOK(q)'
        <3>1. q # p
            BY <1>1, <2>6 DEF Only, Drawing
        <3>2. Drawing(q) /\ DrawnOK(q) /\ proc'[q] = proc[q] /\ proc[q].code \in Codes
              /\ proc[q].u \in Users
            BY <1>1, <2>6, <3>1, Holding
        <3>3. proc[q].code # c
            BY <1>3, <3>1, <3>2 DEF DrawnOK
        <3>4. proc'[p].code = None
            BY <1>1 DEF TypeInv, WorkOK, Only, Sound
        <3>5. \A o \in Procs \ {q} : proc'[o].code # proc[q].code
            BY <1>1, <3>2, <3>4, Numbers DEF Only, DrawnOK
        <3>6. \A v \in Users : reverse'[v] \in {reverse[v], None}
            BY <1>1, <1>5 DEF CodesOK
        <3>7. \A o \in Slots \ {q} : Drawing(o)' => Drawing(o) /\ proc'[o] = proc[o]
            BY <1>1, Numbers DEF Only, Drawing
        <3>8. QED
            BY <1>5, <2>2, <3>2, <3>3, <3>5, <3>6, <3>7, Numbers DEF DrawnOK
    <2>7. ASSUME NEW q \in Procs, proc'[q].pc = "code.delete", proc'[q].code # None
          PROVE  GoingOK(q)'
        <3>1. q # p
            BY <1>1, <2>7 DEF Only
        <3>2. GoingOK(q) /\ proc'[q] = proc[q] /\ proc[q].code \in Codes
            BY <1>1, <2>7, <3>1, Holding, WorkAt DEF Process
        <3>3. QED
            BY <1>5, <2>2, <2>7, <3>2 DEF GoingOK
    <2>8. QED
        BY <2>4, <2>5, <2>6, <2>7 DEF CodeInv
<1>6. QED
    BY <1>2, <1>3, <1>4, <1>5 DEF CodeDelete

LEMMA CodeStep ==
    ASSUME TypeInv, TypeInv', CodeInv, [Next]_vars
    PROVE  CodeInv'
<1>1. CodesRest /\ UNCHANGED codeVars => CodeInv'
    BY CodeFrame DEF codeVars
<1>2. ASSUME NEW p \in Slots, Requests(p) \/ RequestSteps(p)
      PROVE  CodeInv'
    BY <1>1, <1>2, BeginRests, RequestRests, CodeLookCode, CodeForwardCode, CodeReverseCode, Numbers
       DEF RequestSteps
<1>3. ASSUME NEW p \in Procs, SharedSteps(p)
      PROVE  CodeInv'
    BY <1>1, <1>3, RequestRests, CodeReadCode, CodeDeleteCode DEF SharedSteps
<1>4. CASE CronSteps
    BY <1>1, <1>4, CronRests
<1>5. CASE UNCHANGED vars \/ \E u \in Users : PlayerWrites(u) \/ UpdateAccount(u) \/ Cancel(u)
                                             \/ GraceEnds(u)
    BY <1>1, <1>5 DEF vars, PlayerWrites, UpdateAccount, Cancel, GraceEnds, CodesRest
<1>6. CASE Restart
    <2>1. \A p \in Procs : proc'[p] = Idle
        BY <1>6 DEF Restart
    <2>2. CodesRest
        BY <2>1 DEF CodesRest, Idle
    <2>3. QED
        BY <1>6, <2>2, CodeFrame DEF Restart
<1>7. QED
    BY <1>2, <1>3, <1>4, <1>5, <1>6 DEF Next

LEMMA InitCode ==
    ASSUME Init
    PROVE  CodeInv
<1>1. \A p \in Procs : proc[p] = Idle
    BY DEF Init
<1>2. RowsLead /\ HandedOK
    BY DEF Init, RowsLead, HandedOK
<1>3. QED
    BY <1>1, <1>2, Numbers DEF CodeInv, Drawing, Idle

(* The code a player was given leads back to that player, for any number of  *)
(* players, codes and requests, whatever first calls, purges, faults and     *)
(* restarts overlap; and between two purges it is one code, unless two first *)
(* calls overlapped or one was cut short.                                    *)
THEOREM CodeHolds == Spec => []CodeNamesOwner
<1>1. Init => TypeInv /\ CodeInv
    BY InitType, InitCode
<1>2. TypeInv /\ CodeInv /\ [Next]_vars => TypeInv' /\ CodeInv'
    BY TypeStep, CodeStep
<1>3. TypeInv /\ CodeInv => CodeNamesOwner
    BY CodeInvIsCode
<1>4. QED
    BY <1>1, <1>2, <1>3, PTL DEF Spec

-----------------------------------------------------------------------------
(* The purge.  A player is clean from the begin of a purge that nothing      *)
(* disturbs, and once gone: what still names a clean player is what the      *)
(* purge is about to delete, and no request is about to write such a row.    *)

Clean(u) == u \notin tainted /\ (Purging(u) \/ u \notin accounts)
PurgeAt(u, pcs) == \E p \in Procs : proc[p].u = u /\ proc[p].pc \in pcs

BeforeCode == {"code.read", "code.delete"}
BeforeRefs == BeforeCode \cup {"refs"}
BeforeSent == BeforeRefs \cup {"sent"}

Named(u) == \E r \in recent : r[2] = u

PurgedOf(u) ==
    /\ reverse[u] # None => PurgeAt(u, BeforeCode)
    /\ Named(u) => PurgeAt(u, BeforeRefs)
    /\ "sent" \in traces[u] => PurgeAt(u, BeforeSent)
    /\ \A p \in Slots : ~(proc[p].op = "code" /\ proc[p].u = u)
    /\ \A p \in Slots : u \notin proc[p].named /\ (u \in accounts => u \notin proc[p].us)

GoneBare == \A u \in Users \ accounts : session[u] = "none" /\ traces[u] \subseteq {"sent"}

RowLed ==
    \A u \in Users \ strays, c \in Codes :
      forward[c] = u =>
        reverse[u] = c \/ \E p \in Slots : Drawing(p) /\ proc[p].u = u /\ proc[p].code = c

(* What the cascade of a deletion request has cleared by then. *)
Cleared(pc) ==
    CASE pc = "storage" -> {"social"}
      [] pc \in BeforeSent -> {"social", "storage"}
      [] pc = "activity" -> {"social", "storage", "sent"}
      [] pc = "logout" -> Kinds
      [] OTHER -> {}

CascadeOf(p) ==
    proc[p].op = "delete" =>
      \A k \in Cleared(proc[p].pc) : k \in traces[proc[p].u] => k \in proc[p].missed \cup Rewritten

PurgeInv == \A u \in Users : Clean(u) => PurgedOf(u)
CascadeInv == \A p \in Slots : CascadeOf(p)

LEMMA PurgeInvIsPurged ==
    ASSUME TypeInv, GoneBare, RowLed, PurgeInv, CascadeInv
    PROVE  DeletedNamedByNoRow
<1>1. ASSUME NEW u \in Users \ accounts, ~Purging(u), u \notin tainted
      PROVE  NoRowNames(u)
    <2>1. PurgedOf(u)
        BY <1>1 DEF PurgeInv, Clean
    <2>2. ~PurgeAt(u, BeforeCode) /\ ~PurgeAt(u, BeforeRefs) /\ ~PurgeAt(u, BeforeSent)
        BY <1>1 DEF Purging, PurgeAt, PurgeLabels, BeforeCode, BeforeRefs, BeforeSent
    <2>3. reverse[u] = None /\ ~Named(u) /\ "sent" \notin traces[u]
        BY <2>1, <2>2 DEF PurgedOf
    <2>4. \A p \in Slots : Drawing(p) => proc[p].u # u
        BY <2>1, WorkAt, OpOfLabel, Numbers DEF PurgedOf, Drawing, CodeLabels, TypeInv
    <2>5. u \notin strays => \A c \in Codes : forward[c] # u
        BY <1>1, <2>3, <2>4, Numbers DEF RowLed
    <2>6. traces[u] = {}
        BY <1>1, <2>3 DEF GoneBare
    <2>7. QED
        BY <2>3, <2>5, <2>6 DEF NoRowNames, Named
<1>2. ASSUME NEW p \in Slots, proc[p].op = "delete", At(p, "logout")
      PROVE  traces[proc[p].u] \subseteq proc[p].missed \cup Rewritten
    <2>1. Cleared("logout") = Kinds
        BY DEF Cleared, BeforeSent, BeforeRefs, BeforeCode
    <2>2. proc[p].u \in Users
        BY <1>2, Numbers, WorkAt, UserOfLabel DEF At, MatchLabels, TypeInv
    <2>3. QED
        BY <1>2, <2>1, <2>2 DEF CascadeInv, CascadeOf, At, TypeInv, RowsOK
<1>3. QED
    BY <1>1, <1>2 DEF DeletedNamedByNoRow

(* A process that is neither purging, nor in a code call, nor in a match.    *)
Busy == PurgeLabels \cup CodeLabels \cup MatchLabels

LEMMA NotBusy ==
    ASSUME NEW r, Sound(r), r.pc \notin Busy
    PROVE  r.op # "code" /\ r.us = {} /\ r.named = {} /\ r.pc \notin PurgeLabels
BY DEF Sound, Fits, Busy

(* The step of a process that purges u neither before nor after it.          *)
LEMMA PurgeSame ==
    ASSUME NEW p \in Procs, \A q \in Procs \ {p} : proc'[q] = proc[q], NEW u,
           ~(proc[p].u = u /\ proc[p].pc \in PurgeLabels),
           ~(proc'[p].u = u /\ proc'[p].pc \in PurgeLabels)
    PROVE  /\ Purging(u)' <=> Purging(u)
           /\ \A pcs \in SUBSET PurgeLabels : PurgeAt(u, pcs)' <=> PurgeAt(u, pcs)
BY DEF Purging, PurgeAt

LEMMA Befores ==
    BeforeCode \in SUBSET PurgeLabels /\ BeforeRefs \in SUBSET PurgeLabels
    /\ BeforeSent \in SUBSET PurgeLabels
BY DEF BeforeCode, BeforeRefs, BeforeSent, PurgeLabels

(* What is left to do for a clean player stays so. *)
LEMMA PurgedFrame ==
    ASSUME NEW u \in Users, PurgedOf(u),
           reverse'[u] # None => reverse[u] # None /\ (PurgeAt(u, BeforeCode) => PurgeAt(u, BeforeCode)'),
           Named(u)' => Named(u) /\ (PurgeAt(u, BeforeRefs) => PurgeAt(u, BeforeRefs)'),
           "sent" \in traces'[u] =>
             "sent" \in traces[u] /\ (PurgeAt(u, BeforeSent) => PurgeAt(u, BeforeSent)'),
           accounts' \subseteq accounts,
           \A p \in Slots :
             /\ proc'[p].op = "code" /\ proc'[p].u = u => proc[p].op = "code" /\ proc[p].u = u
             /\ u \in proc'[p].named => u \in proc[p].named \cup (proc[p].us \cap accounts)
             /\ u \in accounts' => (u \in proc'[p].us => u \in proc[p].us)
    PROVE  PurgedOf(u)'
<1>1. reverse'[u] # None => PurgeAt(u, BeforeCode)'
    BY DEF PurgedOf
<1>2. Named(u)' => PurgeAt(u, BeforeRefs)'
    BY DEF PurgedOf
<1>3. "sent" \in traces'[u] => PurgeAt(u, BeforeSent)'
    BY DEF PurgedOf
<1>4. \A p \in Slots : ~(proc'[p].op = "code" /\ proc'[p].u = u)
    BY DEF PurgedOf
<1>5. \A p \in Slots : u \notin proc'[p].named /\ (u \in accounts' => u \notin proc'[p].us)
    BY DEF PurgedOf
<1>6. QED
    BY <1>1, <1>2, <1>3, <1>4, <1>5 DEF PurgedOf

Aside(p) ==
    /\ \A q \in Procs \ {p} : proc'[q] = proc[q]
    /\ proc[p].pc \notin Busy /\ proc'[p].pc \notin Busy

(* Rows are only deleted, and no account or session appears. *)
RowsFall ==
    /\ UNCHANGED <<accounts, codeVars, tainted>>
    /\ recent' \subseteq recent
    /\ \A u \in Users :
         /\ traces'[u] \subseteq traces[u]
         /\ session'[u] # "none" => session[u] # "none" \/ u \in accounts

LEMMA AsidePurge ==
    ASSUME TypeInv, TypeInv', PurgeInv, NEW p \in Procs, Aside(p), RowsFall
    PROVE  PurgeInv'
<1>1. ASSUME NEW u \in Users, Clean(u)'
      PROVE  PurgedOf(u)'
    <2>1. /\ Purging(u)' <=> Purging(u)
          /\ \A pcs \in SUBSET PurgeLabels : PurgeAt(u, pcs)' <=> PurgeAt(u, pcs)
        BY PurgeSame DEF Aside, Busy
    <2>2. Clean(u) /\ PurgedOf(u)
        BY <1>1, <2>1 DEF RowsFall, Clean, PurgeInv
    <2>3. \A q \in Slots :
            /\ proc'[q].op = "code" /\ proc'[q].u = u => proc[q].op = "code" /\ proc[q].u = u
            /\ u \in proc'[q].named => u \in proc[q].named \cup (proc[q].us \cap accounts)
            /\ u \in accounts' => (u \in proc'[q].us => u \in proc[q].us)
        BY NotBusy, Numbers DEF Aside, TypeInv, WorkOK
    <2>4. Named(u)' => Named(u)
        BY DEF RowsFall, Named
    <2>5. UNCHANGED <<reverse, accounts>> /\ ("sent" \in traces'[u] => "sent" \in traces[u])
        BY DEF RowsFall, codeVars
    <2>6. QED
        BY <2>1, <2>2, <2>3, <2>4, <2>5, PurgedFrame, Befores
<1>2. QED
    BY <1>1 DEF PurgeInv

LEMMA StillPurge ==
    ASSUME PurgeInv, UNCHANGED <<proc, accounts, reverse, recent>>, tainted \subseteq tainted',
           \A u \in Users : "sent" \in traces'[u] => "sent" \in traces[u] \/ ~Clean(u)'
    PROVE  PurgeInv'
<1>1. ASSUME NEW u \in Users, Clean(u)'
      PROVE  PurgedOf(u)'
    <2>1. Purging(u)' <=> Purging(u)
        BY DEF Purging
    <2>2. \A pcs : PurgeAt(u, pcs)' <=> PurgeAt(u, pcs)
        BY DEF PurgeAt
    <2>3. PurgedOf(u)
        BY <1>1, <2>1 DEF Clean, PurgeInv
    <2>4. Named(u)' <=> Named(u)
        BY DEF Named
    <2>5. QED
        BY <1>1, <2>2, <2>3, <2>4, PurgedFrame
<1>2. QED
    BY <1>1 DEF PurgeInv

LEMMA OnlyAside ==
    ASSUME NEW p \in Procs, NEW pcs, Only(p, pcs), pcs \cap Busy = {}, proc[p].pc \notin Busy
    PROVE  Aside(p)
BY DEF Only, Aside

LEMMA FreeLabels ==
    {"idle", "queue", "scrub", "social", "storage", "activity", "logout", "sockets", "check",
     "refresh", "name.read", "name.write", "enforce", "pick", "minimize", "recent", "unqueue"}
      \cap Busy = {}
BY DEF Busy, PurgeLabels, CodeLabels, MatchLabels

LEMMA BeginAside ==
    ASSUME TypeInv, NEW p \in Slots, NEW u \in Users,
           DeleteBegin(p, u) \/ RefreshBegin(p, u) \/ \E clamps \in Clamps : SignInBegin(p, u, clamps)
    PROVE  Aside(p) /\ RowsFall
<1>1. WorkOK /\ AccountsOK /\ p \in Procs /\ proc[p].pc = "idle"
    BY Numbers DEF TypeInv, DeleteBegin, RefreshBegin, SignInBegin, Begin, At
<1>2. PICK pc \in {"queue", "check", "name.read"} : Only(p, {pc})
    BY <1>1, BeginMoves
<1>3. Aside(p)
    BY <1>1, <1>2, OnlyAside, FreeLabels
<1>4. UNCHANGED <<accounts, codeVars, tainted, recent, traces>>
    BY DEF DeleteBegin, RefreshBegin, SignInBegin, accountVars
<1>5. \A v \in Users : session'[v] # "none" => session[v] # "none" \/ v \in accounts
    BY <1>1 DEF DeleteBegin, RefreshBegin, SignInBegin, accountVars, AccountsOK
<1>6. QED
    BY <1>3, <1>4, <1>5 DEF RowsFall

LEMMA RequestAside ==
    ASSUME TypeInv, NEW p \in Procs,
           \/ QueueDeletion(p) \/ ScrubProfile(p) \/ DeleteSocial(p) \/ DeleteActivity(p)
           \/ LogOut(p) \/ Disconnect(p) \/ RefreshCheck(p) \/ Refresh(p) \/ NameRead(p)
           \/ NameWrite(p) \/ EnforceProfile(p)
    PROVE  Aside(p) /\ RowsFall
<1>1. WorkOK /\ AccountsOK /\ RowsOK
    BY DEF TypeInv
<1>2. proc[p].pc \in {"queue", "scrub", "social", "activity", "logout", "sockets", "check",
                      "refresh", "name.read", "name.write", "enforce"}
    BY DEF QueueDeletion, ScrubProfile, DeleteSocial, DeleteActivity, Clears, LogOut, Disconnect,
           RefreshCheck, Refresh, NameRead, NameWrite, EnforceProfile, At
<1>3. proc[p].pc \notin Busy
    BY <1>2, FreeLabels
<1>4. \A pcs : Only(p, pcs) /\ pcs \cap Busy = {} => Aside(p)
    BY <1>3, OnlyAside
<1>5. Aside(p)
    BY <1>1, <1>4, RequestMoves, NamingMoves, FreeLabels
<1>6. UNCHANGED <<accounts, codeVars, tainted, recent>>
    BY DEF QueueDeletion, ScrubProfile, DeleteSocial, DeleteActivity, Clears, LogOut, Disconnect,
           RefreshCheck, Refresh, NameRead, NameWrite, EnforceProfile, accountVars
<1>7. \A u \in Users : traces'[u] \subseteq traces[u]
    BY <1>1 DEF QueueDeletion, ScrubProfile, DeleteSocial, DeleteActivity, Clears, LogOut,
                Disconnect, RefreshCheck, Refresh, NameRead, NameWrite, EnforceProfile, RowsOK
<1>8. \A u \in Users : session'[u] # "none" => session[u] # "none"
    BY <1>1 DEF QueueDeletion, ScrubProfile, DeleteSocial, DeleteActivity, Clears, LogOut,
                Disconnect, RefreshCheck, Refresh, NameRead, NameWrite, EnforceProfile,
                accountVars, AccountsOK
<1>9. QED
    BY <1>5, <1>6, <1>7, <1>8 DEF RowsFall

LEMMA CronAside ==
    ASSUME TypeInv,
           \/ ListQueue \/ PassEnds \/ Minimize \/ KeepRefsClear \/ Unqueue
           \/ \E u \in Users : PickKeepClear(u)
    PROVE  Aside(Cron) /\ RowsFall
<1>1. WorkOK
    BY DEF TypeInv
<1>2. proc[Cron].pc \in {"idle", "pick", "minimize", "recent", "unqueue"}
    BY DEF ListQueue, PassEnds, Minimize, KeepRefsClear, Unqueue, PickKeepClear, PickTo, At
<1>3. proc[Cron].pc \notin Busy
    BY <1>2, FreeLabels
<1>4. \A pcs : Only(Cron, pcs) /\ pcs \cap Busy = {} => Aside(Cron)
    BY <1>3, Numbers, OnlyAside
<1>5. Aside(Cron)
    BY <1>1, <1>4, CronMoves, FreeLabels
<1>6. UNCHANGED <<accounts, session, codeVars, tainted, traces>> /\ recent' \subseteq recent
    BY DEF ListQueue, PassEnds, Minimize, KeepRefsClear, Unqueue, PickKeepClear, PickTo,
           accountVars
<1>7. QED
    BY <1>5, <1>6 DEF RowsFall

(* A purge begins, for the player of the process. *)
LEMMA BegunPurge ==
    ASSUME TypeInv, TypeInv', PurgeInv, NEW p \in Procs, NEW u \in Users, Only(p, {"code.read"}),
           proc'[p].u = u, proc[p].pc \notin Busy, PurgeBegins(u),
           accounts' \in {accounts, accounts \ {u}}, UNCHANGED reverse, recent' \subseteq recent,
           \A v \in Users : traces'[v] \subseteq traces[v]
    PROVE  PurgeInv'
<1>1. \A q \in Slots :
        /\ proc'[q].op = "code" => q # p /\ proc'[q] = proc[q]
        /\ \A v : v \in proc'[q].us \cup proc'[q].named => q # p /\ proc'[q] = proc[q]
    BY Numbers DEF Only, TypeInv, WorkOK, Sound, Fits, CodeLabels, MatchLabels
<1>2. \A q \in Slots : proc[q].named \subseteq proc[q].us
    BY Numbers DEF TypeInv, WorkOK, Sound
<1>3. ASSUME Clean(u)'
      PROVE  PurgedOf(u)'
    <2>1. ~Writing(u)
        BY <1>3 DEF Clean, PurgeBegins
    <2>2. PurgeAt(u, BeforeCode)' /\ PurgeAt(u, BeforeRefs)' /\ PurgeAt(u, BeforeSent)'
        BY DEF PurgeAt, Only, BeforeCode, BeforeRefs, BeforeSent
    <2>3. \A q \in Slots : ~(proc'[q].op = "code" /\ proc'[q].u = u)
        BY <1>1, <2>1 DEF Writing, CodeCalls
    <2>4. \A q \in Slots : u \notin proc[q].us
        BY <2>1 DEF Writing
    <2>5. \A q \in Slots : u \notin proc'[q].named /\ u \notin proc'[q].us
        BY <1>1, <1>2, <2>4
    <2>6. QED
        BY <2>2, <2>3, <2>5 DEF PurgedOf
<1>4. ASSUME NEW v \in Users \ {u}, Clean(v)'
      PROVE  PurgedOf(v)'
    <2>1. proc[p].pc \notin PurgeLabels /\ proc'[p].u # v
        BY <1>4 DEF Busy
    <2>2. /\ Purging(v)' <=> Purging(v)
          /\ \A pcs \in SUBSET PurgeLabels : PurgeAt(v, pcs)' <=> PurgeAt(v, pcs)
        BY <2>1, PurgeSame DEF Only
    <2>3. Clean(v) /\ PurgedOf(v)
        BY <1>4, <2>2 DEF Clean, PurgeBegins, PurgeInv
    <2>4. Named(v)' => Named(v)
        BY DEF Named
    <2>5. accounts' \subseteq accounts /\ traces'[v] \subseteq traces[v]
        OBVIOUS
    <2>6. QED
        BY <1>1, <2>2, <2>3, <2>4, <2>5, PurgedFrame, Befores
<1>5. QED
    BY <1>3, <1>4 DEF PurgeInv

LEMMA EraseRows ==
    ASSUME AccountsOK, RowsOK, NEW u \in Users, Erase(u)
    PROVE  /\ accounts' = accounts \ {u} /\ recent' \subseteq recent
           /\ session'[u] = "none" /\ traces'[u] \subseteq traces[u] \ Owned
           /\ \A v \in Users \ {u} : traces'[v] = traces[v] /\ session'[v] = session[v]
           /\ \A v \in Users : traces'[v] \subseteq traces[v]
BY DEF Erase, AccountsOK, RowsOK

LEMMA PurgesBegin ==
    ASSUME TypeInv, TypeInv', PurgeInv, NEW p \in Procs,
           \/ p \in Slots /\ \E u \in Users : Close(p, u)
           \/ p \in Slots /\ ScrubStorage(p)
           \/ p = Cron /\ \E u \in Users : PickDelete(u)
    PROVE  PurgeInv'
<1>1. WorkOK /\ AccountsOK /\ RowsOK
    BY DEF TypeInv
<1>2. ASSUME p \in Slots, NEW u \in Users, Close(p, u)
      PROVE  PurgeInv'
    <2> DEFINE r == [Idle EXCEPT !.op = "close", !.u = u, !.pc = "code.read"]
    <2>1. Begin(p, r) /\ Erase(u) /\ PurgeBegins(u) /\ UNCHANGED reverse
        BY <1>2 DEF Close, codeVars
    <2>2. r.u = u
        BY DEF Idle
    <2>3. proc'[p].u = u /\ proc[p].pc \notin Busy
        BY <1>1, <2>1, <2>2, FreeLabels DEF Begin, WorkOK, At
    <2>4. Only(p, {"code.read"})
        BY <1>1, <1>2, BeginMoves
    <2>5. QED
        BY <1>1, <2>1, <2>3, <2>4, EraseRows, BegunPurge
<1>3. ASSUME p \in Slots, ScrubStorage(p)
      PROVE  PurgeInv'
    <2>1. PICK u \in Users : u = proc[p].u
        BY <1>1, <1>3, WorkAt, UserOfLabel DEF ScrubStorage, At, MatchLabels
    <2>2. proc[p].pc \notin Busy /\ PurgeBegins(u) /\ UNCHANGED <<accounts, reverse>>
          /\ recent' \subseteq recent
        BY <1>3, <2>1, FreeLabels DEF ScrubStorage, At, codeVars, accountVars
    <2>3. \A v \in Users : traces'[v] \subseteq traces[v]
        BY <1>1, <1>3, <2>1 DEF ScrubStorage, RowsOK
    <2>4. Only(p, {"code.read"})
        BY <1>1, <1>3, RequestMoves
    <2>5. proc'[p].u = u
        <3>1. proc[p] \in Process /\ proc \in [Procs -> Process]
            BY <1>1, WorkAt DEF WorkOK
        <3>2. QED
            BY <1>3, <2>1, <3>1 DEF ScrubStorage, Goto, Process
    <2>6. QED
        BY <2>2, <2>3, <2>4, <2>5, BegunPurge
<1>4. ASSUME p = Cron, NEW u \in Users, PickDelete(u)
      PROVE  PurgeInv'
    <2>1. proc[p].pc \notin Busy /\ PurgeBegins(u) /\ UNCHANGED <<accounts, reverse, recent, traces>>
        BY <1>4, FreeLabels DEF PickDelete, PickTo, At, codeVars, accountVars
    <2>2. Only(p, {"code.read"})
        BY <1>1, <1>4, CronMoves
    <2>3. proc'[p].u = u
        <3>1. proc[p] \in Process /\ proc \in [Procs -> Process]
            BY <1>1, WorkAt DEF WorkOK
        <3>2. QED
            BY <1>4, <3>1 DEF PickDelete, PickTo, Process
    <2>4. QED
        BY <2>1, <2>2, <2>3, BegunPurge
<1>5. QED
    BY <1>2, <1>3, <1>4

(* A call begins that is going to write a row that names the player: if a    *)
(* purge is under way, it is disturbed.                                     *)
LEMMA CodeBeginPurge ==
    ASSUME TypeInv, TypeInv', GoneBare, PurgeInv, NEW p \in Slots, NEW u \in Users, CodeBegin(p, u)
    PROVE  PurgeInv'
<1>1. WorkOK /\ p \in Procs /\ proc[p].pc \notin Busy
    BY Numbers, FreeLabels DEF TypeInv, CodeBegin, Begin, At
<1>2. Only(p, {"code.look"})
    BY <1>1, BeginMoves
<1>3. proc'[p].u = u /\ proc'[p].us = {} /\ proc'[p].named = {} /\ proc'[p].pc \notin PurgeLabels
    <2> DEFINE r == [Idle EXCEPT !.op = "code", !.u = u, !.pc = "code.look"]
    <2>1. Begin(p, r) /\ r.u = u /\ r.us = {} /\ r.named = {} /\ r.pc \notin PurgeLabels
        BY DEF CodeBegin, Idle, PurgeLabels
    <2>2. QED
        BY <1>1, <2>1 DEF Begin, WorkOK
<1>4. ASSUME NEW v \in Users, Clean(v)'
      PROVE  PurgedOf(v)'
    <2>1. /\ Purging(v)' <=> Purging(v)
          /\ \A pcs \in SUBSET PurgeLabels : PurgeAt(v, pcs)' <=> PurgeAt(v, pcs)
        BY <1>1, <1>2, <1>3, PurgeSame DEF Only, Busy
    <2>2. UNCHANGED <<accounts, reverse, recent, traces>> /\ tainted \subseteq tainted'
        BY DEF CodeBegin, accountVars, codeVars
    <2>3. v # u
        BY <1>4, <2>1 DEF CodeBegin, Clean, GoneBare, accountVars
    <2>4. Clean(v) /\ PurgedOf(v)
        BY <1>4, <2>1, <2>2 DEF Clean, PurgeInv
    <2>5. \A q \in Slots :
            /\ proc'[q].op = "code" /\ proc'[q].u = v => proc[q].op = "code" /\ proc[q].u = v
            /\ v \in proc'[q].named => v \in proc[q].named \cup (proc[q].us \cap accounts)
            /\ v \in accounts' => (v \in proc'[q].us => v \in proc[q].us)
        BY <1>2, <1>3, <2>3, Numbers DEF Only
    <2>6. Named(v)' <=> Named(v)
        BY <2>2 DEF Named
    <2>7. QED
        BY <2>1, <2>2, <2>4, <2>5, <2>6, PurgedFrame, Befores
<1>5. QED
    BY <1>4 DEF PurgeInv

LEMMA MatchBeginPurge ==
    ASSUME TypeInv, TypeInv', PurgeInv, NEW p \in Slots, NEW us \in SUBSET Users, MatchBegin(p, us)
    PROVE  PurgeInv'
<1>1. WorkOK /\ p \in Procs /\ proc[p].pc \notin Busy
    BY Numbers, FreeLabels DEF TypeInv, MatchBegin, Begin, At
<1>2. Only(p, {"users"})
    BY <1>1, BeginMoves
<1>3. /\ proc'[p].us = us /\ proc'[p].named = {} /\ proc'[p].pc \notin PurgeLabels
      /\ proc'[p].op = "match"
    <2> DEFINE r == [Idle EXCEPT !.op = "match", !.us = us, !.pc = "users"]
    <2>1. Begin(p, r) /\ r.us = us /\ r.named = {} /\ r.pc \notin PurgeLabels /\ r.op = "match"
        BY DEF MatchBegin, Idle, PurgeLabels
    <2>2. QED
        BY <1>1, <2>1 DEF Begin, WorkOK
<1>4. UNCHANGED <<accounts, reverse, recent, traces>>
      /\ tainted' = tainted \cup {u \in us : Purging(u)}
    BY DEF MatchBegin, accountVars, codeVars
<1>5. ASSUME NEW v \in Users, Clean(v)'
      PROVE  PurgedOf(v)'
    <2>1. /\ Purging(v)' <=> Purging(v)
          /\ \A pcs \in SUBSET PurgeLabels : PurgeAt(v, pcs)' <=> PurgeAt(v, pcs)
        BY <1>1, <1>2, <1>3, PurgeSame DEF Only, Busy
    <2>2. v \in us => v \notin accounts
        BY <1>4, <1>5, <2>1 DEF Clean
    <2>3. Clean(v) /\ PurgedOf(v)
        BY <1>4, <1>5, <2>1 DEF Clean, PurgeInv
    <2>4. \A q \in Slots :
            /\ proc'[q].op = "code" /\ proc'[q].u = v => proc[q].op = "code" /\ proc[q].u = v
            /\ v \in proc'[q].named => v \in proc[q].named \cup (proc[q].us \cap accounts)
            /\ v \in accounts' => (v \in proc'[q].us => v \in proc[q].us)
        BY <1>2, <1>3, <1>4, <2>2, Numbers DEF Only
    <2>5. Named(v)' <=> Named(v)
        BY <1>4 DEF Named
    <2>6. QED
        BY <1>4, <2>1, <2>3, <2>4, <2>5, PurgedFrame, Befores
<1>6. QED
    BY <1>5 DEF PurgeInv

(* A code call goes on; its player is not clean. *)
LEMMA CodeForwardMoves ==
    ASSUME WorkOK, NEW p \in Procs, CodeForward(p)
    PROVE  Only(p, {"code.reverse", "idle"})
<1>1. \/ Stop(p)
      \/ \E pc, c : /\ pc \in {"code.reverse"}
                    /\ proc' = [proc EXCEPT ![p].pc = pc, ![p].code = c]
    BY DEF CodeForward
<1>2. Only(p, {"code.reverse"}) \/ Only(p, {"idle"})
    BY <1>1, Moves
<1>3. QED
    BY <1>2 DEF Only

LEMMA CodeStepsPurge ==
    ASSUME TypeInv, TypeInv', PurgeInv, NEW p \in Slots,
           CodeLook(p) \/ CodeForward(p) \/ CodeReverse(p)
    PROVE  PurgeInv'
<1>1. WorkOK /\ CodesOK /\ p \in Procs /\ proc[p].pc \in CodeLabels
    BY Numbers DEF TypeInv, CodeLook, CodeForward, CodeReverse, At, CodeLabels
<1>2. PICK u \in Users : u = proc[p].u
    BY <1>1, WorkAt, UserOfLabel DEF MatchLabels, CodeLabels
<1>3. PICK pcs \in SUBSET (CodeLabels \cup {"idle"}) : Only(p, pcs)
    BY <1>1, CodeMoves, CodeForwardMoves DEF CodeLabels
<1>4. proc[p].op = "code" /\ proc[p].pc \notin PurgeLabels /\ proc'[p].pc \notin PurgeLabels
    BY <1>1, <1>3, WorkAt, OpOfLabel DEF Only, CodeLabels, PurgeLabels
<1>5. UNCHANGED <<accounts, recent, traces, tainted>>
    BY DEF CodeLook, CodeForward, CodeReverse, accountVars
<1>6. \A v \in Users : v # u => reverse'[v] = reverse[v]
    BY <1>1, <1>2 DEF CodeLook, CodeForward, CodeReverse, CodesOK
<1>7. proc'[p].us = {} /\ proc'[p].named = {} /\ (proc'[p].op = "code" => proc'[p].u = u)
    <2>1. Sound(proc'[p]) /\ proc'[p].pc \in CodeLabels \cup {"idle"}
        BY <1>1, <1>3 DEF Only, TypeInv, WorkOK
    <2>2. proc'[p].us = {} /\ proc'[p].named = {}
        BY <2>1 DEF Sound, Fits, CodeLabels, MatchLabels
    <2>3. proc'[p] = Idle \/ proc'[p].u = u
        <3>1. proc[p] \in Process /\ proc \in [Procs -> Process]
            BY <1>1, WorkAt DEF WorkOK
        <3>2. QED
            BY <1>2, <3>1 DEF CodeLook, CodeForward, CodeReverse, Goto, Stop, Process
    <2>4. QED
        BY <2>2, <2>3 DEF Idle
<1>8. ASSUME NEW v \in Users, Clean(v)'
      PROVE  PurgedOf(v)'
    <2>1. /\ Purging(v)' <=> Purging(v)
          /\ \A at \in SUBSET PurgeLabels : PurgeAt(v, at)' <=> PurgeAt(v, at)
        BY <1>1, <1>3, <1>4, PurgeSame DEF Only
    <2>2. Clean(v) /\ PurgedOf(v)
        BY <1>5, <1>8, <2>1 DEF Clean, PurgeInv
    <2>3. v # u
        BY <1>2, <1>4, <2>2 DEF PurgedOf
    <2>4. \A q \in Slots :
            /\ proc'[q].op = "code" /\ proc'[q].u = v => proc[q].op = "code" /\ proc[q].u = v
            /\ v \in proc'[q].named => v \in proc[q].named \cup (proc[q].us \cap accounts)
            /\ v \in accounts' => (v \in proc'[q].us => v \in proc[q].us)
        BY <1>3, <1>7, <2>3, Numbers DEF Only
    <2>5. Named(v)' <=> Named(v)
        BY <1>5 DEF Named
    <2>6. QED
        BY <1>5, <1>6, <2>1, <2>2, <2>3, <2>4, <2>5, PurgedFrame, Befores
<1>9. QED
    BY <1>8 DEF PurgeInv

(* The rows of an ended match name no clean player. *)
LEMMA MatchStepsPurge ==
    ASSUME TypeInv, TypeInv', PurgeInv, NEW p \in Slots, MatchUsers(p) \/ MatchWrite(p)
    PROVE  PurgeInv'
<1>1. WorkOK /\ p \in Procs /\ proc[p].pc \in MatchLabels
    BY Numbers DEF TypeInv, MatchUsers, MatchWrite, At, MatchLabels
<1>2. PICK pcs \in SUBSET {"write", "idle"} : Only(p, pcs)
    BY <1>1, CodeMoves
<1>3. proc[p].pc \notin PurgeLabels /\ proc'[p].pc \in {"write", "idle"}
    BY <1>1, <1>2 DEF Only, MatchLabels, PurgeLabels
<1>4. UNCHANGED <<accounts, reverse, traces, tainted>>
    BY DEF MatchUsers, MatchWrite, accountVars, codeVars
<1>5. /\ proc'[p].op # "code" /\ proc'[p].us \subseteq proc[p].us
      /\ proc'[p].named \subseteq proc[p].us \cap accounts
    <2>1. proc[p] \in Process /\ proc \in [Procs -> Process] /\ proc[p].op = "match"
        BY <1>1, WorkAt, OpOfLabel DEF WorkOK
    <2>2. CASE Stop(p)
        BY <1>1, <2>1, <2>2 DEF Stop, Idle
    <2>3. CASE proc' = [proc EXCEPT ![p].pc = "write",
                                    ![p].named = {u \in proc[p].us \cap accounts :
                                                    name[u] # "deleted"}]
        BY <1>1, <2>1, <2>3 DEF Process
    <2>4. QED
        BY <2>2, <2>3 DEF MatchUsers, MatchWrite
<1>6. \A v : Named(v)' => Named(v) \/ v \in proc[p].named
    BY DEF MatchUsers, MatchWrite, Named
<1>7. ASSUME NEW v \in Users, Clean(v)'
      PROVE  PurgedOf(v)'
    <2>1. /\ Purging(v)' <=> Purging(v)
          /\ \A at \in SUBSET PurgeLabels : PurgeAt(v, at)' <=> PurgeAt(v, at)
        BY <1>1, <1>2, <1>3, PurgeSame DEF Only, PurgeLabels
    <2>2. Clean(v) /\ PurgedOf(v)
        BY <1>4, <1>7, <2>1 DEF Clean, PurgeInv
    <2>3. \A q \in Slots :
            /\ proc'[q].op = "code" /\ proc'[q].u = v => proc[q].op = "code" /\ proc[q].u = v
            /\ v \in proc'[q].named => v \in proc[q].named \cup (proc[q].us \cap accounts)
            /\ v \in accounts' => (v \in proc'[q].us => v \in proc[q].us)
        BY <1>2, <1>4, <1>5, Numbers DEF Only
    <2>4. Named(v)' => Named(v)
        BY <1>6, <2>2 DEF PurgedOf
    <2>5. QED
        BY <1>4, <2>1, <2>2, <2>3, <2>4, PurgedFrame, Befores
<1>8. QED
    BY <1>7 DEF PurgeInv

LEMMA CodeReadMoves ==
    ASSUME WorkOK, NEW p \in Procs, CodeRead(p)
    PROVE  /\ Only(p, {"code.delete", "refs"}) /\ proc'[p].u = proc[p].u
           /\ proc'[p].op = proc[p].op /\ proc'[p].us = proc[p].us
           /\ proc'[p].named = proc[p].named
           /\ proc'[p].pc = "refs" => tainted' = tainted \cup {proc[p].u}
<1>1. proc[p] \in Process /\ proc \in [Procs -> Process]
    BY WorkAt DEF WorkOK
<1>2. QED
    BY <1>1 DEF CodeRead, Goto, Only, Process

LEMMA PurgeMovesKeep ==
    ASSUME WorkOK, NEW p \in Procs, CodeDelete(p) \/ DeleteRefs(p) \/ DeleteSent(p)
    PROVE  \/ proc'[p] = Idle
           \/ /\ proc'[p].u = proc[p].u /\ proc'[p].op = proc[p].op
              /\ proc'[p].us = proc[p].us /\ proc'[p].named = proc[p].named
<1>1. proc[p] \in Process /\ proc \in [Procs -> Process]
    BY WorkAt DEF WorkOK
<1>2. CASE CodeDelete(p)
    BY <1>1, <1>2 DEF CodeDelete, Process
<1>3. CASE DeleteRefs(p)
    BY <1>1, <1>3 DEF DeleteRefs, Goto, Process
<1>4. CASE DeleteSent(p)
    <2>1. PICK next : Stop(p) \/ Goto(p, next)
            \/ proc' = [proc EXCEPT ![p].pc = next, ![p].missed = @ \cup {"sent"}]
        BY <1>4 DEF DeleteSent
    <2>2. QED
        BY <1>1, <2>1 DEF Stop, Goto, Process
<1>5. QED
    BY <1>2, <1>3, <1>4

(* A step of a purge: what it leaves for its player, and that it touches no  *)
(* other's rows.                                                            *)
LEMMA PurgeGoes ==
    ASSUME TypeInv, TypeInv', PurgeInv, NEW p \in Procs, NEW pcs, Only(p, pcs),
           NEW u \in Users, u = proc[p].u, proc[p].pc \in PurgeLabels,
           \/ proc'[p] = Idle
           \/ /\ proc'[p].u = u /\ proc'[p].op = proc[p].op
              /\ proc'[p].us = proc[p].us /\ proc'[p].named = proc[p].named,
           accounts' \in {accounts, accounts \ {u}}, tainted \subseteq tainted',
           \A v \in Users \ {u} :
             reverse'[v] = reverse[v] /\ (Named(v)' => Named(v)) /\ traces'[v] \subseteq traces[v],
           Clean(u)' =>
             /\ reverse'[u] # None =>
                  /\ reverse[u] # None
                  /\ proc[p].pc \in BeforeCode => proc'[p].u = u /\ proc'[p].pc \in BeforeCode
             /\ Named(u)' =>
                  /\ Named(u)
                  /\ proc[p].pc \in BeforeRefs => proc'[p].u = u /\ proc'[p].pc \in BeforeRefs
             /\ "sent" \in traces'[u] =>
                  /\ "sent" \in traces[u]
                  /\ proc[p].pc \in BeforeSent => proc'[p].u = u /\ proc'[p].pc \in BeforeSent
    PROVE  PurgeInv'
<1>1. \A q \in Slots \ {p} : proc'[q] = proc[q]
    BY Numbers DEF Only
<1>2. \A v \in Users, q \in Slots :
        /\ proc'[q].op = "code" /\ proc'[q].u = v => proc[q].op = "code" /\ proc[q].u = v
        /\ v \in proc'[q].named => v \in proc[q].named \cup (proc[q].us \cap accounts)
        /\ v \in accounts' => (v \in proc'[q].us => v \in proc[q].us)
    BY <1>1 DEF Idle
<1>3. ASSUME Clean(u)'
      PROVE  PurgedOf(u)'
    <2>1. Purging(u)
        BY DEF Purging
    <2>2. PurgedOf(u)
        BY <1>3, <2>1 DEF Clean, PurgeInv
    <2>3. \A at : (proc[p].pc \in at => proc'[p].u = u /\ proc'[p].pc \in at)
                    => (PurgeAt(u, at) => PurgeAt(u, at)')
        BY DEF PurgeAt, Only
    <2>4. QED
        BY <1>2, <1>3, <2>2, <2>3, PurgedFrame
<1>4. ASSUME NEW v \in Users \ {u}, Clean(v)'
      PROVE  PurgedOf(v)'
    <2>1. proc'[p].u # v
        BY <1>4, Numbers DEF Idle
    <2>2. /\ Purging(v)' <=> Purging(v)
          /\ \A at \in SUBSET PurgeLabels : PurgeAt(v, at)' <=> PurgeAt(v, at)
        BY <2>1, PurgeSame DEF Only
    <2>3. Clean(v) /\ PurgedOf(v)
        BY <1>4, <2>2 DEF Clean, PurgeInv
    <2>4. accounts' \subseteq accounts /\ traces'[v] \subseteq traces[v]
        OBVIOUS
    <2>5. QED
        BY <1>2, <1>4, <2>2, <2>3, <2>4, PurgedFrame, Befores
<1>5. QED
    BY <1>3, <1>4 DEF PurgeInv

LEMMA PurgeStepsPurge ==
    ASSUME TypeInv, TypeInv', PurgeInv, NEW p \in Procs,
           CodeRead(p) \/ CodeDelete(p) \/ DeleteRefs(p) \/ DeleteSent(p)
    PROVE  PurgeInv'
<1>1. WorkOK /\ CodesOK /\ RowsOK /\ proc[p].pc \in {"code.read", "code.delete", "refs", "sent"}
    BY DEF TypeInv, CodeRead, CodeDelete, DeleteRefs, DeleteSent, At
<1>2. PICK u \in Users : u = proc[p].u
    BY <1>1, WorkAt, UserOfLabel DEF MatchLabels
<1>3. accounts' = accounts /\ tainted \subseteq tainted' /\ proc[p].pc \in PurgeLabels
    BY <1>1 DEF CodeRead, CodeDelete, DeleteRefs, DeleteSent, accountVars, PurgeLabels
<1>4. CASE CodeRead(p)
    <2>1. UNCHANGED <<reverse, recent, traces>>
        BY <1>4 DEF CodeRead, codeVars
    <2>2. /\ Only(p, {"code.delete", "refs"}) /\ proc'[p].u = u /\ proc'[p].op = proc[p].op
          /\ proc'[p].us = proc[p].us /\ proc'[p].named = proc[p].named
        BY <1>1, <1>2, <1>4, CodeReadMoves
    <2>3. Clean(u)' => proc'[p].pc = "code.delete"
        BY <1>1, <1>2, <1>4, <2>2, CodeReadMoves DEF Only, Clean
    <2>4. "code.delete" \in BeforeCode \cap BeforeRefs \cap BeforeSent
        BY DEF BeforeCode, BeforeRefs, BeforeSent
    <2>5. \A v : Named(v)' <=> Named(v)
        BY <2>1 DEF Named
    <2>6. QED
        BY <1>2, <1>3, <2>1, <2>2, <2>3, <2>4, <2>5, PurgeGoes
<1>5. CASE CodeDelete(p)
    <2>1. UNCHANGED <<recent, traces>> /\ \A v : Named(v)' <=> Named(v)
        BY <1>5 DEF CodeDelete, Named
    <2>2. Only(p, {"refs"}) /\ proc'[p].pc = "refs" /\ proc'[p] # Idle
        BY <1>1, <1>5, CodeMoves DEF Only, Idle
    <2>3. /\ proc'[p].u = u /\ proc'[p].op = proc[p].op
          /\ proc'[p].us = proc[p].us /\ proc'[p].named = proc[p].named
        BY <1>1, <1>2, <1>5, <2>2, PurgeMovesKeep
    <2>4. \A v \in Users : v # u => reverse'[v] = reverse[v]
        BY <1>1, <1>2, <1>5 DEF CodeDelete, CodesOK, codeVars
    <2>5. Clean(u)' => reverse'[u] = None
        BY <1>1, <1>2, <1>5 DEF CodeDelete, CodesOK, Clean
    <2>6. "refs" \in BeforeRefs \cap BeforeSent
        BY DEF BeforeRefs, BeforeSent
    <2>7. QED
        BY <1>2, <1>3, <2>1, <2>2, <2>3, <2>4, <2>5, <2>6, PurgeGoes
<1>6. CASE DeleteRefs(p)
    <2>1. UNCHANGED <<reverse, traces>> /\ \A v : Named(v)' => Named(v)
        BY <1>6 DEF DeleteRefs, Named, codeVars
    <2>2. Only(p, {"sent"}) /\ proc'[p].pc = "sent" /\ proc'[p] # Idle
        BY <1>1, <1>6, CodeMoves DEF Only, Idle
    <2>3. /\ proc'[p].u = u /\ proc'[p].op = proc[p].op
          /\ proc'[p].us = proc[p].us /\ proc'[p].named = proc[p].named
        BY <1>1, <1>2, <1>6, <2>2, PurgeMovesKeep
    <2>4. Clean(u)' => ~Named(u)'
        BY <1>2, <1>6 DEF DeleteRefs, Named, Clean
    <2>5. "sent" \in BeforeSent /\ proc[p].pc \notin BeforeCode
        BY <1>6 DEF BeforeCode, BeforeSent, DeleteRefs, At
    <2>6. QED
        BY <1>2, <1>3, <2>1, <2>2, <2>3, <2>4, <2>5, PurgeGoes
<1>7. CASE DeleteSent(p)
    <2>1. UNCHANGED <<reverse, recent>> /\ \A v : Named(v)' <=> Named(v)
        BY <1>7 DEF DeleteSent, Named, codeVars
    <2>2. Only(p, {"activity", "account", "idle"})
        BY <1>1, <1>7, DeleteSentMoves
    <2>3. \/ proc'[p] = Idle
          \/ /\ proc'[p].u = u /\ proc'[p].op = proc[p].op
             /\ proc'[p].us = proc[p].us /\ proc'[p].named = proc[p].named
        BY <1>1, <1>2, <1>7, PurgeMovesKeep
    <2>4. Clean(u)' => "sent" \notin traces'[u]
        BY <1>1, <1>2, <1>7 DEF DeleteSent, Clean, RowsOK
    <2>5. \A v \in Users : traces'[v] \subseteq traces[v]
        BY <1>1, <1>2, <1>7 DEF DeleteSent, RowsOK
    <2>6. proc[p].pc \notin BeforeCode /\ proc[p].pc \notin BeforeRefs
        BY <1>7 DEF BeforeCode, BeforeRefs, DeleteSent, At
    <2>7. QED
        BY <1>2, <1>3, <2>1, <2>2, <2>3, <2>4, <2>5, <2>6, PurgeGoes
<1>8. QED
    BY <1>4, <1>5, <1>6, <1>7

LEMMA DeleteAccountPurge ==
    ASSUME TypeInv, TypeInv', PurgeInv, DeleteAccount
    PROVE  PurgeInv'
<1>1. WorkOK /\ AccountsOK /\ RowsOK /\ proc[Cron].pc = "account" /\ Cron \in Procs
    BY Numbers DEF TypeInv, DeleteAccount, At
<1>2. PICK u \in Users : u = proc[Cron].u
    BY <1>1, WorkAt, UserOfLabel DEF MatchLabels
<1>3. UNCHANGED <<reverse, tainted>> /\ proc[Cron].pc \in PurgeLabels
    BY <1>1 DEF DeleteAccount, codeVars, PurgeLabels
<1>4. /\ accounts' \in {accounts, accounts \ {u}} /\ recent' \subseteq recent
      /\ \A v \in Users : traces'[v] \subseteq traces[v]
    BY <1>1, <1>2, EraseRows DEF DeleteAccount, accountVars
<1>5. \A v : Named(v)' => Named(v)
    BY <1>4 DEF Named
<1>6. Only(Cron, {"unqueue"})
    BY <1>1, CronMoves
<1>7. /\ proc'[Cron].u = u /\ proc'[Cron].op = proc[Cron].op
      /\ proc'[Cron].us = proc[Cron].us /\ proc'[Cron].named = proc[Cron].named
    <2>1. proc[Cron] \in Process /\ proc \in [Procs -> Process]
        BY <1>1, WorkAt DEF WorkOK
    <2>2. QED
        BY <1>1, <1>2, <2>1 DEF DeleteAccount, Goto, Process
<1>8. proc[Cron].pc \notin BeforeCode /\ proc[Cron].pc \notin BeforeRefs
      /\ proc[Cron].pc \notin BeforeSent
    BY <1>1 DEF BeforeCode, BeforeRefs, BeforeSent
<1>9. QED
    BY <1>1, <1>2, <1>3, <1>4, <1>5, <1>6, <1>7, <1>8, PurgeGoes

LEMMA WorldPurge ==
    ASSUME TypeInv, GoneBare, PurgeInv, NEW u \in Users,
           PlayerWrites(u) \/ UpdateAccount(u) \/ Cancel(u) \/ GraceEnds(u)
    PROVE  PurgeInv'
<1>1. UNCHANGED <<proc, accounts, reverse, recent>> /\ tainted \subseteq tainted'
    BY DEF PlayerWrites, UpdateAccount, Cancel, GraceEnds, accountVars, codeVars
<1>2. ASSUME NEW v \in Users, "sent" \in traces'[v]
      PROVE  "sent" \in traces[v] \/ ~Clean(v)'
    <2>1. CASE UNCHANGED traces
        BY <1>2, <2>1
    <2>2. CASE PlayerWrites(u)
        <3>1. u \in accounts
            BY <2>2 DEF PlayerWrites, GoneBare
        <3>2. PICK k \in Rewritten :
                /\ traces' = [traces EXCEPT ![u] = @ \cup {k}]
                /\ tainted' = IF Purging(u) /\ k = "sent" THEN tainted \cup {u} ELSE tainted
            BY <2>2 DEF PlayerWrites
        <3>3. Purging(u)' <=> Purging(u)
            BY <1>1 DEF Purging
        <3>4. v = u /\ k = "sent" => ~Clean(v)'
            BY <1>1, <3>1, <3>2, <3>3 DEF Clean
        <3>5. v # u \/ k # "sent" => "sent" \in traces[v]
            BY <1>2, <3>2 DEF TypeInv, RowsOK
        <3>6. QED
            BY <3>4, <3>5
    <2>3. QED
        BY <2>1, <2>2 DEF UpdateAccount, Cancel, GraceEnds
<1>3. QED
    BY <1>1, <1>2, StillPurge

LEMMA RestartPurge ==
    ASSUME TypeInv, PurgeInv, Restart
    PROVE  PurgeInv'
<1>1. \A p \in Procs : proc'[p] = Idle
    BY DEF Restart
<1>2. UNCHANGED <<accounts, reverse, recent, traces>>
      /\ tainted' = tainted \cup {u \in Users : Purging(u)}
    BY DEF Restart, accountVars
<1>3. ASSUME NEW u \in Users, Clean(u)'
      PROVE  PurgedOf(u)'
    <2>1. ~Purging(u)'
        BY <1>1 DEF Purging, Idle, PurgeLabels
    <2>2. ~Purging(u) /\ Clean(u) /\ PurgedOf(u)
        BY <1>2, <1>3, <2>1 DEF Clean, PurgeInv
    <2>3. ~PurgeAt(u, BeforeCode) /\ ~PurgeAt(u, BeforeRefs) /\ ~PurgeAt(u, BeforeSent)
        BY <2>2 DEF Purging, PurgeAt, PurgeLabels, BeforeCode, BeforeRefs, BeforeSent
    <2>4. reverse'[u] = None /\ ~Named(u)' /\ "sent" \notin traces'[u]
        BY <1>2, <2>2, <2>3 DEF PurgedOf, Named
    <2>5. QED
        BY <1>1, <2>4, Numbers DEF PurgedOf, Idle
<1>4. QED
    BY <1>3 DEF PurgeInv

-----------------------------------------------------------------------------
(* A deleted account has no session, and no row but those it sent.           *)

LEMMA BareFrame ==
    ASSUME GoneBare, accounts' = accounts,
           \A u \in Users : /\ traces'[u] \subseteq traces[u]
                            /\ session'[u] # "none" => session[u] # "none" \/ u \in accounts
    PROVE  GoneBare'
BY DEF GoneBare

LEMMA EraseBare ==
    ASSUME TypeInv, GoneBare, NEW u \in Users, Erase(u)
    PROVE  GoneBare'
<1>1. /\ accounts' = accounts \ {u}
      /\ session'[u] = "none" /\ traces'[u] \subseteq traces[u] \ Owned
      /\ \A v \in Users \ {u} : traces'[v] = traces[v] /\ session'[v] = session[v]
    BY EraseRows DEF TypeInv
<1>2. traces'[u] \subseteq {"sent"}
    BY <1>1 DEF TypeInv, RowsOK, Kinds, Owned
<1>3. QED
    BY <1>1, <1>2 DEF GoneBare

(* Steps of code calls, matches and purges. *)
LEMMA BusyFalls ==
    ASSUME TypeInv, NEW p \in Procs,
           \/ \E u \in Users : CodeBegin(p, u)
           \/ \E us \in SUBSET Users : MatchBegin(p, us)
           \/ CodeLook(p) \/ CodeForward(p) \/ CodeReverse(p) \/ MatchUsers(p) \/ MatchWrite(p)
           \/ ScrubStorage(p) \/ CodeRead(p) \/ CodeDelete(p) \/ DeleteRefs(p) \/ DeleteSent(p)
           \/ \E u \in Users : PickDelete(u)
    PROVE  UNCHANGED <<accounts, session>> /\ \A u \in Users : traces'[u] \subseteq traces[u]
<1>1. UNCHANGED <<accounts, session>>
    BY DEF CodeBegin, MatchBegin, CodeLook, CodeForward, CodeReverse, MatchUsers, MatchWrite,
           ScrubStorage, CodeRead, CodeDelete, DeleteRefs, DeleteSent, PickDelete, accountVars
<1>2. \A u \in Users : traces'[u] \subseteq traces[u]
    BY DEF CodeBegin, MatchBegin, CodeLook, CodeForward, CodeReverse, MatchUsers, MatchWrite,
           ScrubStorage, CodeRead, CodeDelete, DeleteRefs, DeleteSent, PickDelete, TypeInv, RowsOK
<1>3. QED
    BY <1>1, <1>2

LEMMA BareStep ==
    ASSUME TypeInv, GoneBare, [Next]_vars
    PROVE  GoneBare'
<1>1. RowsFall => GoneBare'
    BY BareFrame DEF RowsFall
<1>2. ASSUME UNCHANGED <<accounts, session>>, \A u \in Users : traces'[u] \subseteq traces[u]
      PROVE  GoneBare'
    BY <1>2, BareFrame
<1>3. ASSUME NEW p \in Slots, Requests(p)
      PROVE  GoneBare'
    <2>1. ASSUME NEW u \in Users, DeleteBegin(p, u) \/ RefreshBegin(p, u)
                                  \/ \E clamps \in Clamps : SignInBegin(p, u, clamps)
          PROVE  GoneBare'
        BY <1>1, <2>1, BeginAside
    <2>2. ASSUME NEW u \in Users, Close(p, u)
          PROVE  GoneBare'
        BY <2>2, EraseBare DEF Close
    <2>3. ASSUME \/ \E u \in Users : CodeBegin(p, u)
                 \/ \E us \in SUBSET Users : MatchBegin(p, us)
          PROVE  GoneBare'
        BY <1>2, <2>3, BusyFalls, Numbers
    <2>4. QED
        BY <1>3, <2>1, <2>2, <2>3 DEF Requests
<1>4. ASSUME NEW p \in Slots, RequestSteps(p)
      PROVE  GoneBare'
    BY <1>1, <1>2, <1>4, RequestAside, BusyFalls, Numbers DEF RequestSteps
<1>5. ASSUME NEW p \in Procs, SharedSteps(p)
      PROVE  GoneBare'
    BY <1>1, <1>2, <1>5, RequestAside, BusyFalls DEF SharedSteps
<1>6. CASE CronSteps
    <2>1. CASE DeleteAccount
        <3>1. proc[Cron].u \in Users
            BY <2>1, Numbers, WorkAt, UserOfLabel DEF DeleteAccount, At, MatchLabels, TypeInv
        <3>2. QED
            BY <1>2, <2>1, <3>1, EraseBare DEF DeleteAccount, accountVars
    <2>2. CASE ~DeleteAccount
        BY <1>1, <1>2, <1>6, <2>2, CronAside, BusyFalls, Numbers DEF CronSteps
    <2>3. QED
        BY <2>1, <2>2
<1>7. ASSUME NEW u \in Users, PlayerWrites(u) \/ UpdateAccount(u) \/ Cancel(u) \/ GraceEnds(u)
      PROVE  GoneBare'
    <2>1. CASE PlayerWrites(u)
        <3>1. u \in accounts
            BY <2>1 DEF PlayerWrites, GoneBare
        <3>2. UNCHANGED <<accounts, session>> /\ \A v \in Users \ {u} : traces'[v] = traces[v]
            BY <2>1 DEF PlayerWrites, accountVars, TypeInv, RowsOK
        <3>3. QED
            BY <3>1, <3>2 DEF GoneBare
    <2>2. CASE UpdateAccount(u) \/ Cancel(u) \/ GraceEnds(u)
        BY <1>2, <2>2 DEF UpdateAccount, Cancel, GraceEnds, accountVars
    <2>3. QED
        BY <1>7, <2>1, <2>2
<1>8. CASE Restart \/ UNCHANGED vars
    BY <1>2, <1>8 DEF Restart, vars, accountVars
<1>9. QED
    BY <1>3, <1>4, <1>5, <1>6, <1>7, <1>8 DEF Next

-----------------------------------------------------------------------------
(* A code row that leads to a player is that player's, or is about to be.    *)

DrawingStays == \A p \in Slots : Drawing(p) => proc'[p] = proc[p]

LEMMA LedFrame ==
    ASSUME RowLed, DrawingStays, UNCHANGED <<forward, reverse>>, strays \subseteq strays'
    PROVE  RowLed'
BY DEF RowLed, DrawingStays, Drawing

LEMMA OnlyStays ==
    ASSUME NEW p \in Procs, \A q \in Procs \ {p} : proc'[q] = proc[q],
           proc[p].pc # "code.reverse"
    PROVE  DrawingStays
BY Numbers DEF DrawingStays, Drawing

LEMMA CodeForwardLed ==
    ASSUME TypeInv, RowLed, NEW p \in Slots, CodeForward(p)
    PROVE  RowLed'
<1>1. WorkOK /\ CodesOK /\ p \in Procs /\ proc[p].pc = "code.forward" /\ UNCHANGED reverse
    BY Numbers DEF TypeInv, CodeForward, At
<1>2. DrawingStays
    BY <1>1, CodeForwardMoves, OnlyStays DEF Only
<1>3. strays \subseteq strays'
    BY DEF CodeForward
<1>4. CASE UNCHANGED forward
    BY <1>1, <1>2, <1>3, <1>4, LedFrame
<1>5. ASSUME NEW c \in Codes, forward' = [forward EXCEPT ![c] = proc[p].u],
             proc' = [proc EXCEPT ![p].pc = "code.reverse", ![p].code = c]
      PROVE  RowLed'
    <2>1. Drawing(p)' /\ proc'[p].u = proc[p].u /\ proc'[p].code = c
        <3>1. proc[p] \in Process
            BY <1>1, WorkAt
        <3>2. QED
            BY <1>1, <1>5, <3>1 DEF WorkOK, Drawing, Process
    <2>2. ASSUME NEW u \in Users \ strays', NEW d \in Codes, forward'[d] = u
          PROVE  reverse'[u] = d
                 \/ \E q \in Slots : Drawing(q)' /\ proc'[q].u = u /\ proc'[q].code = d
        <3>1. CASE d = c
            BY <1>1, <1>5, <2>1, <2>2, <3>1 DEF CodesOK
        <3>2. CASE d # c
            <4>1. forward[d] = u /\ u \notin strays
                BY <1>1, <1>3, <1>5, <2>2, <3>2 DEF CodesOK
            <4>2. QED
                BY <1>1, <1>2, <2>2, <4>1 DEF RowLed, DrawingStays, Drawing
        <3>3. QED
            BY <3>1, <3>2
    <2>3. QED
        BY <2>2 DEF RowLed
<1>6. QED
    BY <1>4, <1>5 DEF CodeForward

LEMMA CodeReverseLed ==
    ASSUME TypeInv, CodeInv, RowLed, NEW p \in Slots, CodeReverse(p)
    PROVE  RowLed'
<1>1. WorkOK /\ CodesOK /\ p \in Procs /\ Drawing(p) /\ DrawnOK(p) /\ UNCHANGED forward
    BY Numbers DEF TypeInv, CodeReverse, At, CodeInv, Drawing
<1>2. PICK u \in Users : u = proc[p].u
    BY <1>1, WorkAt, UserOfLabel DEF MatchLabels, Drawing
<1>3. \A q \in Slots \ {p} : proc'[q] = proc[q]
    BY <1>1, CodeMoves, Numbers DEF Only
<1>4. ASSUME NEW v \in Users \ strays', NEW d \in Codes, forward'[d] = v
      PROVE  reverse'[v] = d
             \/ \E q \in Slots : Drawing(q)' /\ proc'[q].u = v /\ proc'[q].code = d
    <2>1. v \notin strays
        BY <1>4 DEF CodeReverse
    <2>2. reverse[v] = d \/ \E q \in Slots : Drawing(q) /\ proc[q].u = v /\ proc[q].code = d
        BY <1>1, <1>4, <2>1 DEF RowLed
    <2>3. CASE v # u
        <3>1. reverse'[v] = reverse[v]
            BY <1>1, <1>2, <2>3 DEF CodeReverse, CodesOK
        <3>2. QED
            BY <1>2, <1>3, <2>2, <2>3, <3>1 DEF Drawing
    <2>4. CASE v = u
        <3>1. reverse[u] = None /\ \A q \in Slots \ {p} : Drawing(q) => proc[q].u # u
            BY <1>1, <1>2, <2>1, <2>4 DEF DrawnOK
        <3>2. proc[p].code = d
            BY <2>2, <2>4, <3>1, Numbers
        <3>3. reverse'[u] = proc[p].code
            BY <1>1, <1>2, <1>4, <2>4 DEF CodeReverse, CodesOK
        <3>4. QED
            BY <2>4, <3>2, <3>3
    <2>5. QED
        BY <2>3, <2>4
<1>5. QED
    BY <1>4 DEF RowLed

LEMMA CodeDeleteLed ==
    ASSUME TypeInv, RowLed, NEW p \in Procs, CodeDelete(p)
    PROVE  RowLed'
<1>1. WorkOK /\ CodesOK /\ proc[p].pc = "code.delete"
    BY DEF TypeInv, CodeDelete, At
<1>2. PICK u \in Users : u = proc[p].u
    BY <1>1, WorkAt, UserOfLabel DEF MatchLabels
<1>3. PICK c \in Codes \cup {None} : c = proc[p].code
    BY <1>1, WorkAt DEF Process
<1>4. DrawingStays
    BY <1>1, CodeMoves, OnlyStays DEF Only
<1>5. CASE UNCHANGED codeVars
    BY <1>4, <1>5, LedFrame DEF codeVars
<1>6. CASE /\ reverse' = [reverse EXCEPT ![u] = None]
           /\ forward' = IF c = None THEN forward ELSE [forward EXCEPT ![c] = None]
           /\ strays' = IF reverse[u] \notin {c, None} THEN strays \cup {u} ELSE strays
    <2>1. ASSUME NEW v \in Users \ strays', NEW d \in Codes, forward'[d] = v
          PROVE  reverse'[v] = d
                 \/ \E q \in Slots : Drawing(q)' /\ proc'[q].u = v /\ proc'[q].code = d
        <3>1. d # c /\ forward[d] = v
            BY <1>1, <1>3, <1>6, <2>1, Numbers DEF CodesOK
        <3>2. v \notin strays
            BY <1>6, <2>1
        <3>3. reverse[v] = d \/ \E q \in Slots : Drawing(q) /\ proc[q].u = v /\ proc[q].code = d
            BY <2>1, <3>1, <3>2 DEF RowLed
        <3>4. reverse[v] = d => v # u
            BY <1>6, <2>1, <3>1, Numbers
        <3>5. reverse[v] = d => reverse'[v] = d
            BY <1>1, <1>6, <3>4 DEF CodesOK
        <3>6. QED
            BY <1>4, <3>3, <3>5 DEF DrawingStays, Drawing
    <2>2. QED
        BY <2>1 DEF RowLed
<1>7. QED
    BY <1>2, <1>3, <1>5, <1>6 DEF CodeDelete

LEMMA LedStep ==
    ASSUME TypeInv, CodeInv, RowLed, [Next]_vars
    PROVE  RowLed'
<1>1. UNCHANGED codeVars /\ DrawingStays => RowLed'
    BY LedFrame DEF codeVars
<1>2. WorkOK
    BY DEF TypeInv
<1>3. ASSUME NEW p \in Procs, NEW pcs, Only(p, pcs), proc[p].pc # "code.reverse", UNCHANGED codeVars
      PROVE  RowLed'
    BY <1>1, <1>3, OnlyStays DEF Only
<1>4. ASSUME NEW p \in Slots, Requests(p)
      PROVE  RowLed'
    <2>1. p \in Procs /\ proc[p].pc = "idle" /\ UNCHANGED codeVars
        BY <1>4, BeginRests, Numbers
           DEF Requests, DeleteBegin, CodeBegin, MatchBegin, SignInBegin, RefreshBegin, Close,
               Begin, At
    <2>2. \E pcs : Only(p, pcs)
        BY <1>2, <1>4, BeginMoves DEF Requests
    <2>3. QED
        BY <1>3, <2>1, <2>2
<1>5. ASSUME NEW p \in Procs,
             \/ QueueDeletion(p) \/ ScrubProfile(p) \/ DeleteSocial(p) \/ ScrubStorage(p)
             \/ DeleteActivity(p) \/ LogOut(p) \/ Disconnect(p) \/ MatchUsers(p) \/ MatchWrite(p)
             \/ RefreshCheck(p) \/ Refresh(p) \/ NameRead(p) \/ NameWrite(p)
             \/ DeleteRefs(p) \/ DeleteSent(p) \/ EnforceProfile(p)
      PROVE  RowLed'
    <2>1. proc[p].pc # "code.reverse"
        BY <1>5 DEF QueueDeletion, ScrubProfile, DeleteSocial, ScrubStorage, DeleteActivity, Clears,
               LogOut, Disconnect, MatchUsers, MatchWrite, RefreshCheck, Refresh, NameRead,
               NameWrite, DeleteRefs, DeleteSent, EnforceProfile, At
    <2>2. UNCHANGED codeVars
        BY <1>5, RequestRests
    <2>3. \E pcs : Only(p, pcs)
        BY <1>2, <1>5, RequestMoves, NamingMoves, CodeMoves, DeleteSentMoves
    <2>4. QED
        BY <1>3, <2>1, <2>2, <2>3
<1>6. ASSUME NEW p \in Slots, CodeLook(p)
      PROVE  RowLed'
    <2>1. DrawingStays
        BY <1>2, <1>6, CodeMoves, OnlyStays, Numbers DEF Only, CodeLook, At
    <2>2. QED
        BY <1>6, <2>1, LedFrame DEF CodeLook
<1>7. ASSUME NEW p \in Procs, CodeRead(p)
      PROVE  RowLed'
    BY <1>2, <1>3, <1>7, CodeReadMoves DEF CodeRead, At
<1>8. CASE CronSteps
    <2>1. proc[Cron].pc # "code.reverse"
        BY <1>8 DEF CronSteps, ListQueue, PassEnds, PickDelete, PickKeepClear, PickTo, Minimize,
                    KeepRefsClear, DeleteAccount, Unqueue, At
    <2>2. (\E pcs : Only(Cron, pcs)) /\ UNCHANGED codeVars
        BY <1>2, <1>8, CronMoves, CronRests DEF CronSteps
    <2>3. QED
        BY <1>3, <2>1, <2>2, Numbers
<1>9. CASE \/ UNCHANGED vars
           \/ \E u \in Users : PlayerWrites(u) \/ UpdateAccount(u) \/ Cancel(u) \/ GraceEnds(u)
    BY <1>1, <1>9 DEF vars, PlayerWrites, UpdateAccount, Cancel, GraceEnds, DrawingStays
<1>10. CASE Restart
    <2>1. ASSUME NEW u \in Users \ strays', NEW c \in Codes, forward'[c] = u
          PROVE  reverse'[u] = c
        <3>1. u \notin strays /\ ~\E p \in CodeCalls(u) : At(p, "code.reverse")
            BY <1>10, <2>1 DEF Restart
        <3>2. \A p \in Slots : Drawing(p) => proc[p].u # u
            BY <1>2, <3>1, WorkAt, OpOfLabel, Numbers DEF Drawing, CodeCalls, At, CodeLabels
        <3>3. QED
            BY <1>10, <2>1, <3>1, <3>2 DEF RowLed, Restart
    <2>2. QED
        BY <2>1 DEF RowLed
<1>11. QED
    BY <1>4, <1>5, <1>6, <1>7, <1>8, <1>9, <1>10, CodeForwardLed, CodeReverseLed, CodeDeleteLed,
       Numbers
       DEF Next, RequestSteps, SharedSteps

-----------------------------------------------------------------------------
(* The cascade of a deletion request. *)

LEMMA ClearedLabels ==
    /\ Cleared("storage") = {"social"}
    /\ \A pc \in {"code.read", "code.delete", "refs", "sent"} : Cleared(pc) = {"social", "storage"}
    /\ Cleared("activity") = {"social", "storage", "sent"}
    /\ Cleared("logout") = Cleared("activity") \cup {"activity"}
    /\ \A pc : pc \notin {"storage", "code.read", "code.delete", "refs", "sent", "activity",
                          "logout"} => Cleared(pc) = {}
BY DEF Cleared, BeforeSent, BeforeRefs, BeforeCode, Kinds, Owned

LEMMA CascadeFrame ==
    ASSUME TypeInv, CascadeInv, NEW p \in Procs, \A q \in Procs \ {p} : proc'[q] = proc[q],
           \A u \in Users : traces'[u] \subseteq traces[u], p \in Slots => CascadeOf(p)'
    PROVE  CascadeInv'
<1>1. ASSUME NEW q \in Slots, q # p, proc[q].op = "delete"
      PROVE  CascadeOf(q)'
    <2>1. proc'[q] = proc[q] /\ proc[q].u \in Users
        BY <1>1, Numbers, WorkAt, UserOfLabel
           DEF TypeInv, Sound, Fits, DeleteLabels, MatchLabels
    <2>2. QED
        BY <2>1 DEF CascadeInv, CascadeOf
<1>2. ASSUME NEW q \in Slots, q # p, proc[q].op # "delete"
      PROVE  CascadeOf(q)'
    BY <1>2, Numbers DEF CascadeOf
<1>3. QED
    BY <1>1, <1>2 DEF CascadeInv

(* A process that is not, or no longer, in a cascade. *)
LEMMA NoCascade ==
    ASSUME NEW p \in Slots,
           \/ proc'[p].op # "delete"
           \/ proc'[p].pc \notin {"storage", "code.read", "code.delete", "refs", "sent", "activity",
                                  "logout"}
    PROVE  CascadeOf(p)'
BY ClearedLabels DEF CascadeOf

(* One that goes on: the kinds are cleared, or missed. *)
LEMMA CascadeGoes ==
    ASSUME TypeInv, CascadeInv, NEW p \in Slots, NEW kinds,
           proc'[p].u = proc[p].u, proc'[p].op = proc[p].op, proc[p].u \in Users,
           proc[p].missed \subseteq proc'[p].missed,
           Cleared(proc'[p].pc) \subseteq Cleared(proc[p].pc) \cup kinds,
           traces'[proc[p].u] \subseteq traces[proc[p].u],
           kinds \subseteq proc'[p].missed \/ kinds \cap traces'[proc[p].u] = {}
    PROVE  CascadeOf(p)'
BY DEF CascadeInv, CascadeOf

LEMMA ClearsCascade ==
    ASSUME TypeInv, CascadeInv, NEW p \in Slots,
           DeleteSocial(p) \/ ScrubStorage(p) \/ DeleteActivity(p)
    PROVE  CascadeInv'
<1>1. WorkOK /\ RowsOK /\ p \in Procs /\ proc[p] \in Process
    BY Numbers, WorkAt DEF TypeInv
<1>2. proc[p].u \in Users
    BY <1>1, WorkAt, UserOfLabel
       DEF DeleteSocial, ScrubStorage, DeleteActivity, Clears, At, MatchLabels
<1>3. PICK pc, kinds :
        /\ \/ proc[p].pc = "social" /\ pc = "storage" /\ kinds = {"social"}
           \/ proc[p].pc = "storage" /\ pc = "code.read" /\ kinds = {"storage"}
           \/ proc[p].pc = "activity" /\ pc = "logout" /\ kinds = {"activity"}
        /\ \/ Goto(p, pc) /\ traces' = [traces EXCEPT ![proc[p].u] = @ \ kinds]
           \/ /\ proc' = [proc EXCEPT ![p].pc = pc, ![p].missed = @ \cup kinds]
              /\ UNCHANGED traces
    BY DEF DeleteSocial, ScrubStorage, DeleteActivity, Clears, At
<1>4. /\ proc'[p].u = proc[p].u /\ proc'[p].op = proc[p].op /\ proc'[p].pc = pc
      /\ proc[p].missed \subseteq proc'[p].missed
      /\ kinds \subseteq proc'[p].missed \/ kinds \cap traces'[proc[p].u] = {}
    BY <1>1, <1>2, <1>3 DEF WorkOK, Process, Goto, RowsOK
<1>5. \A u \in Users : traces'[u] \subseteq traces[u]
    BY <1>1, <1>2, <1>3 DEF RowsOK
<1>6. Cleared(pc) \subseteq Cleared(proc[p].pc) \cup kinds
    BY <1>3, ClearedLabels
<1>7. CascadeOf(p)'
    BY <1>2, <1>4, <1>5, <1>6, CascadeGoes
<1>8. \A q \in Procs \ {p} : proc'[q] = proc[q]
    BY <1>1, <1>3, Moves DEF Only
<1>9. QED
    BY <1>1, <1>5, <1>7, <1>8, CascadeFrame

LEMMA PurgeCascade ==
    ASSUME TypeInv, CascadeInv, NEW p \in Procs,
           CodeRead(p) \/ CodeDelete(p) \/ DeleteRefs(p) \/ DeleteSent(p)
    PROVE  CascadeInv'
<1>1. WorkOK /\ RowsOK /\ proc[p] \in Process
    BY WorkAt DEF TypeInv
<1>2. proc[p].pc \in {"code.read", "code.delete", "refs", "sent"}
    BY DEF CodeRead, CodeDelete, DeleteRefs, DeleteSent, At
<1>3. proc[p].u \in Users
    BY <1>1, <1>2, WorkAt, UserOfLabel DEF MatchLabels
<1>4. \A u \in Users : traces'[u] \subseteq traces[u]
    BY BusyFalls
<1>5. \A q \in Procs \ {p} : proc'[q] = proc[q]
    BY <1>1, CodeReadMoves, CodeMoves, DeleteSentMoves DEF Only
<1>6. ASSUME p \in Slots
      PROVE  CascadeOf(p)'
    <2>1. CASE CodeRead(p) \/ CodeDelete(p) \/ DeleteRefs(p)
        <3>1. /\ proc'[p].u = proc[p].u /\ proc'[p].op = proc[p].op
              /\ proc'[p].missed = proc[p].missed
            BY <1>1, <2>1 DEF CodeRead, CodeDelete, DeleteRefs, Goto, Process, WorkOK
        <3>2. proc'[p].pc \in {"code.read", "code.delete", "refs", "sent"}
            BY <1>1, <2>1, CodeReadMoves, CodeMoves DEF Only
        <3>3. Cleared(proc'[p].pc) = Cleared(proc[p].pc)
            BY <1>2, <3>2, ClearedLabels
        <3>4. QED
            BY <1>3, <1>4, <1>6, <3>1, <3>3 DEF CascadeInv, CascadeOf
    <2>2. CASE DeleteSent(p)
        <3>1. CASE proc[p].op = "delete"
            <4>1. /\ proc'[p].u = proc[p].u /\ proc'[p].op = proc[p].op
                  /\ proc'[p].pc = "activity" /\ proc[p].missed \subseteq proc'[p].missed
                  /\ {"sent"} \subseteq proc'[p].missed \/ {"sent"} \cap traces'[proc[p].u] = {}
                BY <1>1, <1>3, <2>2, <3>1
                   DEF DeleteSent, AfterPurge, Goto, Process, WorkOK, RowsOK
            <4>2. Cleared("activity") \subseteq Cleared(proc[p].pc) \cup {"sent"}
                BY <1>2, ClearedLabels
            <4>3. QED
                BY <1>3, <1>4, <1>6, <4>1, <4>2, CascadeGoes
        <3>2. CASE proc[p].op # "delete"
            BY <1>1, <1>6, <2>2, <3>2, PurgeMovesKeep, NoCascade DEF Idle
        <3>3. QED
            BY <3>1, <3>2
    <2>3. QED
        BY <2>1, <2>2
<1>7. QED
    BY <1>4, <1>5, <1>6, CascadeFrame

LEMMA CascadeStep ==
    ASSUME TypeInv, TypeInv', CascadeInv, [Next]_vars
    PROVE  CascadeInv'
<1>1. WorkOK /\ RowsOK /\ WorkOK'
    BY DEF TypeInv
<1>2. ASSUME NEW p \in Slots, NEW pcs, Only(p, pcs), \A u \in Users : traces'[u] \subseteq traces[u],
             pcs \cap {"storage", "code.read", "code.delete", "refs", "sent", "activity",
                       "logout"} = {}
      PROVE  CascadeInv'
    BY <1>2, NoCascade, CascadeFrame, Numbers DEF Only
<1>3. ASSUME NEW p \in Slots, Requests(p)
      PROVE  CascadeInv'
    <2>1. \A u \in Users : traces'[u] \subseteq traces[u]
        BY <1>1, <1>3, EraseRows
           DEF Requests, DeleteBegin, CodeBegin, MatchBegin, SignInBegin, RefreshBegin, Close,
               TypeInv
    <2>2. ASSUME NEW u \in Users, Close(p, u)
          PROVE  CascadeInv'
        <3> DEFINE r == [Idle EXCEPT !.op = "close", !.u = u, !.pc = "code.read"]
        <3>1. Begin(p, r) /\ r.op = "close"
            BY <2>2 DEF Close, Idle
        <3>2. proc'[p].op # "delete" /\ \A q \in Procs \ {p} : proc'[q] = proc[q]
            BY <1>1, <3>1, Numbers DEF Begin, WorkOK
        <3>3. QED
            BY <2>1, <3>2, NoCascade, CascadeFrame, Numbers
    <2>3. CASE ~\E u \in Users : Close(p, u)
        <3>1. PICK pc \in {"queue", "code.look", "users", "name.read", "check"} : Only(p, {pc})
            BY <1>1, <1>3, <2>3, BeginMoves DEF Requests
        <3>2. QED
            BY <1>2, <2>1, <3>1
    <2>4. QED
        BY <2>2, <2>3
<1>4. ASSUME NEW p \in Procs,
             \/ QueueDeletion(p) \/ ScrubProfile(p) \/ LogOut(p) \/ Disconnect(p)
             \/ CodeLook(p) \/ CodeForward(p) \/ CodeReverse(p) \/ MatchUsers(p) \/ MatchWrite(p)
             \/ RefreshCheck(p) \/ Refresh(p) \/ NameRead(p) \/ NameWrite(p) \/ EnforceProfile(p)
      PROVE  CascadeInv'
    <2>1. UNCHANGED traces
        BY <1>4 DEF QueueDeletion, ScrubProfile, LogOut, Disconnect, CodeLook, CodeForward,
                    CodeReverse, MatchUsers, MatchWrite, RefreshCheck, Refresh, NameRead, NameWrite,
                    EnforceProfile
    <2>2. PICK pcs : Only(p, pcs) /\ pcs \cap {"storage", "code.read", "code.delete", "refs",
                                               "sent", "activity", "logout"} = {}
        <3>1. CASE \/ QueueDeletion(p) \/ ScrubProfile(p) \/ Disconnect(p) \/ LogOut(p)
                   \/ RefreshCheck(p) \/ Refresh(p) \/ NameRead(p) \/ NameWrite(p)
                   \/ EnforceProfile(p)
            BY <1>1, <3>1, RequestMoves, NamingMoves
        <3>2. CASE \/ CodeLook(p) \/ CodeForward(p) \/ CodeReverse(p) \/ MatchUsers(p)
                   \/ MatchWrite(p)
            BY <1>1, <3>2, CodeMoves, CodeForwardMoves
        <3>3. QED
            BY <1>4, <3>1, <3>2
    <2>3. p \in Slots => CascadeOf(p)'
        BY <2>2, NoCascade DEF Only
    <2>4. QED
        BY <2>1, <2>2, <2>3, CascadeFrame DEF Only
<1>5. CASE CronSteps
    <2>1. \A q \in Procs \ {Cron} : proc'[q] = proc[q]
        BY <1>1, <1>5, CronMoves DEF CronSteps, Only
    <2>2. \A u \in Users : traces'[u] \subseteq traces[u]
        <3>1. CASE UNCHANGED traces
            BY <3>1
        <3>2. CASE DeleteAccount
            <4>1. proc[Cron].u \in Users
                BY <1>1, <3>2, Numbers, WorkAt, UserOfLabel DEF DeleteAccount, At, MatchLabels
            <4>2. QED
                BY <1>1, <3>2, <4>1, EraseRows DEF DeleteAccount, TypeInv
        <3>3. QED
            BY <1>5, <3>1, <3>2
               DEF CronSteps, ListQueue, PassEnds, PickDelete, PickKeepClear, Minimize,
                   KeepRefsClear, Unqueue
    <2>3. QED
        BY <2>1, <2>2, CascadeFrame, Numbers
<1>6. ASSUME NEW u \in Users, PlayerWrites(u)
      PROVE  CascadeInv'
    <2>1. UNCHANGED proc /\ \A v \in Users : traces'[v] \subseteq traces[v] \cup Rewritten
        BY <1>1, <1>6 DEF PlayerWrites, RowsOK
    <2>2. \A p \in Slots : proc[p].op = "delete" => proc[p].u \in Users
        BY <1>1, Numbers, WorkAt, UserOfLabel DEF Sound, Fits, DeleteLabels, MatchLabels
    <2>3. QED
        BY <2>1, <2>2 DEF CascadeInv, CascadeOf
<1>7. CASE \/ UNCHANGED vars
           \/ \E u \in Users : UpdateAccount(u) \/ Cancel(u) \/ GraceEnds(u)
    BY <1>7 DEF vars, UpdateAccount, Cancel, GraceEnds, CascadeInv, CascadeOf
<1>8. CASE Restart
    BY <1>8, NoCascade, Numbers DEF Restart, Idle, CascadeInv
<1>9. QED
    BY <1>3, <1>4, <1>5, <1>6, <1>7, <1>8, ClearsCascade, PurgeCascade, Numbers
       DEF Next, RequestSteps, SharedSteps

LEMMA PurgeStep ==
    ASSUME TypeInv, TypeInv', GoneBare, PurgeInv, [Next]_vars
    PROVE  PurgeInv'
<1>1. ASSUME NEW p \in Slots, Requests(p)
      PROVE  PurgeInv'
    <2>1. p \in Procs
        BY Numbers
    <2>2. ASSUME NEW u \in Users, DeleteBegin(p, u) \/ RefreshBegin(p, u)
                                  \/ \E clamps \in Clamps : SignInBegin(p, u, clamps)
          PROVE  PurgeInv'
        BY <2>1, <2>2, BeginAside, AsidePurge
    <2>3. QED
        BY <1>1, <2>1, <2>2, CodeBeginPurge, MatchBeginPurge, PurgesBegin DEF Requests
<1>2. ASSUME NEW p \in Slots, RequestSteps(p)
      PROVE  PurgeInv'
    BY <1>2, RequestAside, AsidePurge, PurgesBegin, CodeStepsPurge, MatchStepsPurge, Numbers
       DEF RequestSteps
<1>3. ASSUME NEW p \in Procs, SharedSteps(p)
      PROVE  PurgeInv'
    BY <1>3, RequestAside, AsidePurge, PurgeStepsPurge DEF SharedSteps
<1>4. CASE CronSteps
    BY <1>4, CronAside, AsidePurge, PurgesBegin, DeleteAccountPurge, Numbers DEF CronSteps
<1>5. CASE \E u \in Users : PlayerWrites(u) \/ UpdateAccount(u) \/ Cancel(u) \/ GraceEnds(u)
    BY <1>5, WorldPurge
<1>6. CASE Restart
    BY <1>6, RestartPurge
<1>7. CASE UNCHANGED vars
    BY <1>7, StillPurge DEF vars, accountVars, codeVars
<1>8. QED
    BY <1>1, <1>2, <1>3, <1>4, <1>5, <1>6, <1>7 DEF Next

LEMMA InitPurge ==
    ASSUME Init
    PROVE  GoneBare /\ RowLed /\ PurgeInv /\ CascadeInv
<1>1. \A p \in Procs : proc[p] = Idle
    BY DEF Init
<1>2. GoneBare /\ RowLed
    BY Numbers DEF Init, GoneBare, RowLed
<1>3. \A u \in Users : ~Clean(u)
    BY <1>1 DEF Init, Clean, Purging, Idle, PurgeLabels
<1>4. CascadeInv
    BY <1>1, Numbers DEF CascadeInv, CascadeOf, Idle
<1>5. QED
    BY <1>2, <1>3, <1>4 DEF PurgeInv

PurgedInv == CodeInv /\ GoneBare /\ RowLed /\ PurgeInv /\ CascadeInv

(* Nothing names a deleted player, for any number of players, requests,      *)
(* faults and restarts: once a purge that no step of failed and no request   *)
(* that names the player overlapped is through, no code, no recent-players   *)
(* row and no notification is left.  And a deletion request leaves no row    *)
(* but those whose deletion failed and those the player wrote again.         *)
THEOREM PurgeHolds == Spec => []DeletedNamedByNoRow
<1>1. Init => TypeInv /\ PurgedInv
    BY InitType, InitCode, InitPurge DEF PurgedInv
<1>2. TypeInv /\ PurgedInv /\ [Next]_vars => TypeInv' /\ PurgedInv'
    BY TypeStep, CodeStep, BareStep, LedStep, PurgeStep, CascadeStep DEF PurgedInv
<1>3. TypeInv /\ PurgedInv => DeletedNamedByNoRow
    BY PurgeInvIsPurged DEF PurgedInv
<1>4. QED
    BY <1>1, <1>2, <1>3, PTL DEF Spec

=============================================================================
