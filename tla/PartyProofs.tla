---------------------------- MODULE PartyProofs ----------------------------
(* Theorems about Party, for every value of its constants. *)
EXTENDS PartyReady, PartyOverlap, FiniteSetTheorems, TLAPS

-----------------------------------------------------------------------------
(* TypeOK alone is not inductive: a settings write and a passed start guard *)
(* record the request's party, an invite reads its leader, and a disband    *)
(* reads the code of the party it ends, so a request that has reached one   *)
(* of these calls must name it.                                             *)

Naming == {"settings.write", "start.roster", "start.ready", "start.guard",
           "invite.roster", "invite.target"}

Disbanding == {"disband.delete", "disband.rows", "disband.code", "disband.codeRows"}

Free == Labels \ (Naming \cup Disbanding)

Sound == {r \in Request : /\ r.pc \in Naming => r.p \in Parties
                          /\ r.pc \in Disbanding => r.q \in Parties}

ReqOK == req \in [Users -> Sound]

StoreOK ==
    /\ groups \subseteq Parties
    /\ creator \in [Parties -> Users \cup {None}]
    /\ edge \in [Parties -> [Users -> EdgeStates]]
    /\ leader \in [Parties -> Users \cup {None}]
    /\ ready \in [Parties -> SUBSET Users]
    /\ settings \subseteq Parties
    /\ forward \in [Codes -> Parties \cup {None}]
    /\ reverse \in [Parties -> Codes \cup {None}]
    /\ guard \subseteq Parties
    /\ faults \in 0 .. MaxFaults

LEMMA NoneIsNobody == None \notin Users \cup Parties \cup Codes
BY PartyAssumption DEF PartyAssumption

-----------------------------------------------------------------------------
(* Requests stay requests when a helper moves them on. *)

LEMMA FreeType ==
    ASSUME NEW r \in Request, r.pc \in Free
    PROVE  r \in Sound
BY DEF Sound, Free

LEMMA IdleType == Idle \in Sound
<1>1. Idle \in Request
    BY DEF Idle, Request, Labels
<1>2. Idle.pc \in Free
    BY DEF Idle, Free, Labels, Naming, Disbanding
<1>3. QED
    BY <1>1, <1>2, FreeType

LEMMA PcType ==
    ASSUME NEW r \in Request, NEW pc \in Free
    PROVE  [r EXCEPT !.pc = pc] \in Sound
<1> DEFINE s == [r EXCEPT !.pc = pc]
<1>1. s \in Request /\ s.pc = pc
    BY DEF Request, Free
<1>2. QED
    BY <1>1, FreeType

LEMMA ThenSolosType ==
    ASSUME NEW r \in Request
    PROVE  ThenSolos(r) \in Sound
<1>1. {"disband.list", "create.commit", "clear.list"} \subseteq Free
    BY DEF Free, Labels, Naming, Disbanding
<1>2. QED
    BY <1>1, IdleType, PcType DEF ThenSolos

LEMMA ThenDisbandedType ==
    ASSUME NEW r \in Request
    PROVE  ThenDisbanded(r) \in Sound
<1>1. [r EXCEPT !.solos = @ \ {r.q}, !.q = None, !.c = None, !.roster = {}] \in Request
    BY DEF Request
<1>2. QED
    BY <1>1, ThenSolosType DEF ThenDisbanded

LEMMA ThenDisbandErrorType ==
    ASSUME NEW r \in Request
    PROVE  ThenDisbandError(r) \in Sound
BY IdleType, ThenDisbandedType DEF ThenDisbandError

LEMMA ThenClearedType ==
    ASSUME NEW r \in Request
    PROVE  ThenCleared(r) \in Sound
<1> DEFINE s == [r EXCEPT !.pc = "join.landed", !.roster = {}]
<1>1. "join.landed" \in Free /\ "join.landed" \in Labels
    BY DEF Free, Labels, Naming, Disbanding
<1>2. s \in Request /\ s.pc = "join.landed"
    BY <1>1 DEF Request
<1>3. QED
    BY <1>1, <1>2, FreeType, IdleType DEF ThenCleared

LEMMA ThenTransferredType ==
    ASSUME NEW r \in Request
    PROVE  ThenTransferred(r) \in Sound
<1> DEFINE s == [r EXCEPT !.pc = "kick.rows", !.next = None]
<1>1. "kick.rows" \in Free /\ "kick.rows" \in Labels
    BY DEF Free, Labels, Naming, Disbanding
<1>2. s \in Request /\ s.pc = "kick.rows"
    BY <1>1 DEF Request
<1>3. QED
    BY <1>1, <1>2, FreeType, IdleType DEF ThenTransferred

LEMMA OnErrorType ==
    ASSUME NEW r \in Sound
    PROVE  OnError(r) \in Sound
<1> DEFINE s == [r EXCEPT !.pc = "disband.code"]
<1>1. {"lead.resolve", "clear.list"} \subseteq Free
    BY DEF Free, Labels, Naming, Disbanding
<1>2. r \in Request
    BY DEF Sound
<1>3. ASSUME r.pc = "disband.rows"
      PROVE  s \in Sound
    <2>1. "disband.code" \in Labels
        BY DEF Labels
    <2>2. r.q \in Parties
        BY <1>3 DEF Sound, Disbanding
    <2>3. s \in Request /\ s.pc = "disband.code" /\ s.q \in Parties
        BY <1>2, <2>1, <2>2 DEF Request
    <2>4. QED
        BY <2>3 DEF Sound, Naming
<1>4. QED
    BY <1>1, <1>2, <1>3, IdleType, PcType, ThenDisbandErrorType, ThenDisbandedType,
       ThenClearedType, ThenTransferredType DEF OnError

LEMMA NewType ==
    ASSUME NEW op \in OpNames, NEW pc \in Labels \ Disbanding,
           NEW p \in Parties \cup {None}, NEW t \in Users \cup {None},
           pc \in Naming => p \in Parties
    PROVE  New(op, pc, p, t) \in Sound
<1>1. New(op, pc, p, t) \in Request
    BY IdleType DEF New, Idle, Request, Sound
<1>2. New(op, pc, p, t).pc = pc /\ New(op, pc, p, t).p = p
    BY DEF New, Idle
<1>3. QED
    BY <1>1, <1>2 DEF Sound

(* What the request updates do to req. *)

LEMMA BecomeType ==
    ASSUME ReqOK, NEW u \in Users, NEW r \in Sound, Become(u, r)
    PROVE  ReqOK'
BY DEF ReqOK, Become

LEMMA GotoType ==
    ASSUME ReqOK, NEW u \in Users, NEW pc \in Free, Goto(u, pc)
    PROVE  ReqOK'
BY PcType DEF ReqOK, Sound, Become, Goto

LEMMA FinishType ==
    ASSUME ReqOK, NEW u \in Users, Finish(u)
    PROVE  ReqOK'
BY IdleType, BecomeType DEF Finish

LEMMA CheckType ==
    ASSUME ReqOK, NEW u \in Users, NEW ok, NEW pc \in Free, Check(u, ok, pc)
    PROVE  ReqOK'
BY GotoType, FinishType DEF Check

LEMMA BeginType ==
    ASSUME ReqOK, NEW u \in Users, NEW r \in Sound, Begin(u, r)
    PROVE  ReqOK'
BY DEF ReqOK, Begin

LEMMA FieldType ==
    ASSUME ReqOK, NEW u \in Users
    PROVE  /\ req[u] \in Sound
           /\ req[u] \in Request
           /\ req[u].p \in Parties \cup {None}
           /\ req[u].t \in Users \cup {None}
           /\ req[u].next \in Users \cup {None}
           /\ req[u].c \in Codes \cup {None}
           /\ req[u].roster \subseteq Users
           /\ req[u].solos \subseteq Parties
           /\ req[u].q \in Parties \cup {None}
           /\ req[u].pc \in Naming => req[u].p \in Parties
           /\ req[u].pc \in Disbanding => req[u].q \in Parties
BY DEF ReqOK, Sound, Request

-----------------------------------------------------------------------------
(* Every action leaves requests of the right type. *)

(* The calls after which the request only moves on or ends. *)
SimpleStep(u) ==
    \/ LeadWrite(u) \/ CreateCommit(u) \/ InviteAdd(u) \/ InviteRows(u)
    \/ AddTarget(u) \/ AddCommit(u) \/ CodeStale(u) \/ CodeRoster(u)
    \/ CodeJoiner(u) \/ CodeAdd(u) \/ LeaveRows(u) \/ KickRoster(u)
    \/ KickCommit(u) \/ KickRows(u) \/ TransferRoster(u) \/ TransferWrite(u)
    \/ TransferPromote(u) \/ ReadyWrite(u) \/ SettingsWrite(u) \/ GetCodeRead(u)
    \/ GetCodeExhausted(u) \/ GetCodeReverse(u) \/ StartGuard(u) \/ AbortRoster(u)

LEMMA SimpleStepType ==
    ASSUME ReqOK, NEW u \in Users, SimpleStep(u)
    PROVE  ReqOK'
<1>1. CASE LeadWrite(u)
    <2>1. "lead.promote" \in Free
        BY DEF Free, Labels, Naming, Disbanding
    <2>2. QED
        BY <1>1, <2>1, GotoType, FinishType DEF LeadWrite
<1>2. CASE CreateCommit(u)
    BY <1>2, FinishType DEF CreateCommit
<1>3. CASE InviteAdd(u)
    <2>1. "invite.rows" \in Free
        BY DEF Free, Labels, Naming, Disbanding
    <2>2. QED
        BY <1>3, <2>1, GotoType, FinishType DEF InviteAdd
<1>4. CASE InviteRows(u)
    BY <1>4, FinishType DEF InviteRows
<1>5. CASE AddTarget(u)
    <2>1. "add.commit" \in Free
        BY DEF Free, Labels, Naming, Disbanding
    <2>2. QED
        BY <1>5, <2>1, CheckType, FinishType DEF AddTarget
<1>6. CASE AddCommit(u)
    BY <1>6, FinishType DEF AddCommit
<1>7. CASE CodeStale(u)
    BY <1>7, FinishType DEF CodeStale
<1>8. CASE CodeRoster(u)
    <2>1. "code.joiner" \in Free
        BY DEF Free, Labels, Naming, Disbanding
    <2>2. QED
        BY <1>8, <2>1, CheckType, FinishType DEF CodeRoster
<1>9. CASE CodeJoiner(u)
    <2>1. "code.add" \in Free
        BY DEF Free, Labels, Naming, Disbanding
    <2>2. QED
        BY <1>9, <2>1, CheckType, FinishType DEF CodeJoiner
<1>10. CASE CodeAdd(u)
    <2>1. "code.solos" \in Free
        BY DEF Free, Labels, Naming, Disbanding
    <2>2. QED
        BY <1>10, <2>1, GotoType, FinishType DEF CodeAdd
<1>11. CASE LeaveRows(u)
    <2>1. "lead.resolve" \in Free
        BY DEF Free, Labels, Naming, Disbanding
    <2>2. QED
        BY <1>11, <2>1, GotoType, FinishType DEF LeaveRows
<1>12. CASE KickRoster(u)
    <2>1. "kick.commit" \in Free
        BY DEF Free, Labels, Naming, Disbanding
    <2>2. QED
        BY <1>12, <2>1, CheckType, FinishType DEF KickRoster
<1>13. CASE KickCommit(u)
    <2>1. "lead.resolve" \in Free
        BY DEF Free, Labels, Naming, Disbanding
    <2>2. QED
        BY <1>13, <2>1, GotoType, FinishType DEF KickCommit
<1>14. CASE KickRows(u)
    BY <1>14, FinishType DEF KickRows
<1>15. CASE TransferRoster(u)
    <2>1. "transfer.write" \in Free
        BY DEF Free, Labels, Naming, Disbanding
    <2>2. QED
        BY <1>15, <2>1, CheckType, FinishType DEF TransferRoster
<1>16. CASE TransferWrite(u)
    <2>1. "transfer.promote" \in Free
        BY DEF Free, Labels, Naming, Disbanding
    <2>2. QED
        BY <1>16, <2>1, GotoType, FinishType DEF TransferWrite
<1>17. CASE TransferPromote(u)
    BY <1>17, FinishType DEF TransferPromote
<1>18. CASE ReadyWrite(u)
    BY <1>18, FinishType DEF ReadyWrite
<1>19. CASE SettingsWrite(u)
    BY <1>19, FinishType DEF SettingsWrite
<1>20. CASE GetCodeRead(u)
    <2>1. "getCode.forward" \in Free
        BY DEF Free, Labels, Naming, Disbanding
    <2>2. QED
        BY <1>20, <2>1, CheckType, FinishType DEF GetCodeRead
<1>21. CASE GetCodeExhausted(u)
    BY <1>21, FinishType DEF GetCodeExhausted
<1>22. CASE GetCodeReverse(u)
    BY <1>22, FinishType DEF GetCodeReverse
<1>23. CASE StartGuard(u)
    <2>1. "clear.list" \in Free
        BY DEF Free, Labels, Naming, Disbanding
    <2>2. QED
        BY <1>23, <2>1, CheckType, FinishType DEF StartGuard
<1>24. CASE AbortRoster(u)
    BY <1>24, FinishType DEF AbortRoster
<1>25. QED
    BY <1>1, <1>2, <1>3, <1>4, <1>5, <1>6, <1>7, <1>8, <1>9, <1>10, <1>11, <1>12, <1>13,
       <1>14, <1>15, <1>16, <1>17, <1>18, <1>19, <1>20, <1>21, <1>22, <1>23, <1>24 DEF
       SimpleStep

(* The other calls, one lemma for those of a kind. *)

LEMMA DisbandListType ==
    ASSUME ReqOK, NEW u \in Users, DisbandList(u)
    PROVE  ReqOK'
<1> DEFINE r == req[u]
<1>1. r \in Request
    BY FieldType
<1>2. PICK q \in r.solos :
          Become(u, IF q \in groups
                    THEN [r EXCEPT !.pc = "disband.delete", !.q = q, !.roster = Listed(q)]
                    ELSE ThenDisbandError([r EXCEPT !.q = q]))
    BY DEF DisbandList
<1>3. q \in Parties /\ Listed(q) \subseteq Users
    BY <1>2, FieldType DEF Listed
<1> DEFINE s == [r EXCEPT !.pc = "disband.delete", !.q = q, !.roster = Listed(q)]
<1>4. s \in Sound
    <2>1. "disband.delete" \in Labels
        BY DEF Labels
    <2>2. s \in Request /\ s.pc = "disband.delete" /\ s.q = q
        BY <1>1, <1>3, <2>1 DEF Request
    <2>3. QED
        BY <1>3, <2>2 DEF Sound, Naming
<1>5. [r EXCEPT !.q = q] \in Request
    BY <1>1, <1>3 DEF Request
<1>6. QED
    BY <1>2, <1>4, <1>5, ThenDisbandErrorType, BecomeType

LEMMA DisbandGotoType ==
    ASSUME ReqOK, NEW u \in Users, NEW pc \in Disbanding,
           req[u].pc \in Disbanding, Goto(u, pc)
    PROVE  ReqOK'
<1> DEFINE r == req[u]
           s == [r EXCEPT !.pc = pc]
<1>1. r \in Request /\ r.q \in Parties /\ pc \in Labels
    BY FieldType DEF Disbanding, Labels
<1>2. s \in Request /\ s.pc = pc /\ s.q \in Parties
    BY <1>1 DEF Request
<1>3. s \in Sound
    BY <1>2 DEF Sound, Disbanding, Naming
<1>4. QED
    BY <1>3, BecomeType DEF Goto

LEMMA DisbandCallType ==
    ASSUME ReqOK, StoreOK, NEW u \in Users,
           DisbandDelete(u) \/ DisbandRows(u) \/ DisbandCode(u) \/ DisbandCodeRows(u)
    PROVE  ReqOK'
<1> DEFINE r == req[u]
           c == reverse[r.q]
           s == [r EXCEPT !.pc = "disband.codeRows", !.c = c]
<1>1. r \in Request /\ ThenDisbandError(r) \in Sound /\ ThenDisbanded(r) \in Sound
    BY FieldType, ThenDisbandErrorType, ThenDisbandedType
<1>2. {"disband.delete", "disband.rows", "disband.code", "disband.codeRows"}
          \subseteq Disbanding
    BY DEF Disbanding
<1>3. CASE DisbandDelete(u)
    BY <1>1, <1>2, <1>3, BecomeType, DisbandGotoType DEF DisbandDelete, At
<1>4. CASE DisbandRows(u)
    BY <1>2, <1>4, DisbandGotoType DEF DisbandRows, At
<1>5. CASE DisbandCode(u)
    <2>1. r.q \in Parties /\ c \in Codes \cup {None}
        BY <1>2, <1>5, FieldType DEF DisbandCode, At, StoreOK
    <2>2. "disband.codeRows" \in Labels
        BY DEF Labels
    <2>3. s \in Request /\ s.pc = "disband.codeRows" /\ s.q = r.q
        BY <1>1, <2>1, <2>2 DEF Request
    <2>4. s \in Sound
        BY <2>1, <2>3 DEF Sound, Naming
    <2>5. QED
        BY <1>1, <1>5, <2>4, BecomeType DEF DisbandCode
<1>6. CASE DisbandCodeRows(u)
    BY <1>1, <1>6, BecomeType DEF DisbandCodeRows
<1>7. QED
    BY <1>3, <1>4, <1>5, <1>6

LEMMA ClearType ==
    ASSUME ReqOK, NEW u \in Users, ClearList(u) \/ ClearDelete(u)
    PROVE  ReqOK'
<1> DEFINE r == req[u]
           s == [r EXCEPT !.pc = "clear.delete", !.roster = Listed(r.p)]
<1>1. "clear.delete" \in Free /\ "clear.delete" \in Labels
    BY DEF Free, Labels, Naming, Disbanding
<1>2. r \in Request /\ ThenCleared(r) \in Sound /\ Listed(r.p) \subseteq Users
    BY FieldType, ThenClearedType DEF Listed
<1>3. s \in Request /\ s.pc = "clear.delete"
    BY <1>1, <1>2 DEF Request
<1>4. s \in Sound
    BY <1>1, <1>3, FreeType
<1>5. QED
    BY <1>2, <1>4, BecomeType DEF ClearList, ClearDelete

LEMMA LeadType ==
    ASSUME ReqOK, NEW u \in Users, LeadResolve(u) \/ LeadRoster(u) \/ LeadPromote(u)
    PROVE  ReqOK'
<1> DEFINE r == req[u]
<1>1. {"lead.roster", "lead.write"} \subseteq Free /\ "lead.write" \in Labels
    BY DEF Free, Labels, Naming, Disbanding
<1>2. r \in Request /\ ThenTransferred(r) \in Sound
    BY FieldType, ThenTransferredType
<1>3. [r EXCEPT !.pc = "lead.roster"] \in Sound
    BY <1>1, <1>2, PcType
<1>4. ASSUME NEW v \in Users
      PROVE  [r EXCEPT !.pc = "lead.write", !.next = v] \in Sound
    <2> DEFINE s == [r EXCEPT !.pc = "lead.write", !.next = v]
    <2>1. s \in Request /\ s.pc = "lead.write"
        BY <1>1, <1>2 DEF Request
    <2>2. QED
        BY <1>1, <2>1, FreeType
<1>5. CASE LeadResolve(u)
    BY <1>2, <1>3, <1>5, BecomeType DEF LeadResolve
<1>6. CASE LeadRoster(u)
    BY <1>2, <1>4, <1>6, BecomeType DEF LeadRoster, Active
<1>7. CASE LeadPromote(u)
    BY <1>2, <1>7, BecomeType DEF LeadPromote
<1>8. QED
    BY <1>5, <1>6, <1>7

LEMMA NamingCheckType ==
    ASSUME ReqOK, NEW u \in Users, NEW ok, NEW pc \in Naming,
           req[u].pc \in Naming, Check(u, ok, pc)
    PROVE  ReqOK'
<1> DEFINE r == req[u]
           s == [r EXCEPT !.pc = pc]
<1>1. r \in Request /\ r.p \in Parties /\ pc \in Labels
    BY FieldType DEF Naming, Labels
<1>2. s \in Request /\ s.pc = pc /\ s.p \in Parties
    BY <1>1 DEF Request
<1>3. s \in Sound
    BY <1>2 DEF Sound, Disbanding, Naming
<1>4. QED
    BY <1>3, BecomeType, FinishType DEF Check, Goto

LEMMA InviteType ==
    ASSUME ReqOK, StoreOK, NEW u \in Users, InviteRoster(u) \/ InviteTarget(u)
    PROVE  ReqOK'
<1> DEFINE r == req[u]
           l == ResolveLeader(r.p)
           s == [r EXCEPT !.pc = "invite.add", !.next = l]
<1>1. {"invite.roster", "invite.target"} \subseteq Naming
    BY DEF Naming
<1>2. "invite.add" \in Free /\ "invite.add" \in Labels
    BY DEF Free, Labels, Naming, Disbanding
<1>3. CASE InviteRoster(u)
    BY <1>1, <1>3, NamingCheckType DEF InviteRoster, At
<1>4. CASE InviteTarget(u)
    <2>1. r \in Request /\ r.p \in Parties
        BY <1>1, <1>4, FieldType DEF InviteTarget, At
    <2>2. l \in Users \cup {None}
        BY <2>1 DEF ResolveLeader, StoreOK
    <2>3. s \in Request /\ s.pc = "invite.add"
        BY <1>2, <2>1, <2>2 DEF Request
    <2>4. s \in Sound
        BY <1>2, <2>3, FreeType
    <2>5. QED
        BY <1>4, <2>4, IdleType, BecomeType DEF InviteTarget
<1>5. QED
    BY <1>3, <1>4

(* The parties a player leaves for another one are counted and disbanded. *)
LEMMA SolosType ==
    ASSUME NEW r \in Request
    PROVE  ThenSolos([r EXCEPT !.solos = SoloParties(@)]) \in Sound
<1>1. SoloParties(r.solos) \subseteq Parties
    BY DEF SoloParties, Request
<1>2. [r EXCEPT !.solos = SoloParties(@)] \in Request
    BY <1>1 DEF Request
<1>3. QED
    BY <1>2, ThenSolosType

LEMMA CountType ==
    ASSUME ReqOK, NEW u \in Users, CreateCount(u) \/ JoinCount(u) \/ CodeCount(u)
    PROVE  ReqOK'
<1>1. ThenSolos([req[u] EXCEPT !.solos = SoloParties(@)]) \in Sound
    BY FieldType, SolosType
<1>2. QED
    BY <1>1, IdleType, BecomeType DEF CreateCount, JoinCount, CodeCount

LEMMA JoinType ==
    ASSUME ReqOK, StoreOK, NEW u \in Users,
           JoinCommit(u) \/ JoinLanded(u) \/ CodeGroup(u) \/ CodeSolos(u)
    PROVE  ReqOK'
<1> DEFINE r == req[u]
           ps == Memberships(u, r.p)
           s == [r EXCEPT !.pc = "join.count", !.solos = ps]
           t == [r EXCEPT !.pc = "code.count", !.c = None, !.solos = ps]
<1>1. {"clear.list", "join.landed", "code.stale", "code.roster", "join.count",
       "code.count"} \subseteq Free
    BY DEF Free, Labels, Naming, Disbanding
<1>2. "join.count" \in Labels /\ "code.count" \in Labels
    BY DEF Labels
<1>3. r \in Request /\ ps \subseteq Parties
    BY FieldType DEF StoreOK, Memberships
<1>4. /\ s \in Request /\ s.pc = "join.count"
      /\ t \in Request /\ t.pc = "code.count"
    BY <1>2, <1>3 DEF Request
<1>5. s \in Sound /\ t \in Sound
    BY <1>1, <1>4, FreeType
<1>6. CASE JoinCommit(u)
    BY <1>1, <1>6, GotoType, FinishType DEF JoinCommit
<1>7. CASE JoinLanded(u)
    BY <1>5, <1>7, IdleType, BecomeType DEF JoinLanded
<1>8. CASE CodeGroup(u)
    BY <1>1, <1>8, GotoType, CheckType DEF CodeGroup
<1>9. CASE CodeSolos(u)
    BY <1>5, <1>9, BecomeType DEF CodeSolos
<1>10. QED
    BY <1>6, <1>7, <1>8, <1>9

LEMMA GetCodeForwardType ==
    ASSUME ReqOK, NEW u \in Users, GetCodeForward(u)
    PROVE  ReqOK'
<1> DEFINE r == req[u]
<1>1. "getCode.reverse" \in Free /\ "getCode.reverse" \in Labels
    BY DEF Free, Labels, Naming, Disbanding
<1>2. PICK c \in Codes : Become(u, [r EXCEPT !.pc = "getCode.reverse", !.c = c])
    BY DEF GetCodeForward
<1> DEFINE s == [r EXCEPT !.pc = "getCode.reverse", !.c = c]
<1>3. r \in Request
    BY FieldType
<1>4. s \in Request /\ s.pc = "getCode.reverse"
    BY <1>1, <1>3 DEF Request
<1>5. s \in Sound
    BY <1>1, <1>4, FreeType
<1>6. QED
    BY <1>2, <1>5, BecomeType

LEMMA StartType ==
    ASSUME ReqOK, NEW u \in Users, StartRoster(u) \/ StartReady(u)
    PROVE  ReqOK'
<1> DEFINE r == req[u]
           s == [r EXCEPT !.pc = "start.ready", !.roster = Active(r.p)]
<1>1. {"start.roster", "start.ready", "start.guard"} \subseteq Naming
    BY DEF Naming
<1>2. CASE StartRoster(u)
    <2>1. "start.ready" \in Labels
        BY DEF Labels
    <2>2. r \in Request /\ r.p \in Parties /\ Active(r.p) \subseteq Users
        BY <1>1, <1>2, FieldType DEF StartRoster, At, Active
    <2>3. s \in Request /\ s.p = r.p /\ s.pc = "start.ready"
        BY <2>1, <2>2 DEF Request
    <2>4. s \in Sound
        BY <2>2, <2>3 DEF Sound, Disbanding
    <2>5. QED
        BY <1>2, <2>4, IdleType, BecomeType DEF StartRoster
<1>3. CASE StartReady(u)
    BY <1>1, <1>3, NamingCheckType DEF StartReady, At
<1>4. QED
    BY <1>2, <1>3

LEMMA StepType ==
    ASSUME ReqOK, StoreOK, NEW u \in Users, Step(u)
    PROVE  ReqOK'
BY SimpleStepType, DisbandListType, DisbandCallType, ClearType, LeadType, InviteType,
   JoinType, CountType, GetCodeForwardType, StartType DEF Step, SimpleStep

LEMMA SendType ==
    ASSUME ReqOK, StoreOK, NEW u \in Users, Send(u)
    PROVE  ReqOK'
<1>1. {"create", "invite", "add", "join", "joinByCode", "leave", "kick", "transfer",
       "disband", "ready", "unready", "settings", "getCode", "start", "abort"}
          \subseteq OpNames
    BY DEF OpNames
<1>2. {"idle", "create.count", "invite.roster", "add.target", "join.commit", "code.group",
       "leave.rows", "kick.roster", "transfer.roster", "ready.write", "settings.write",
       "getCode.read", "start.roster", "abort.roster"} \subseteq Labels \ Disbanding
    BY DEF Labels, Disbanding
<1>3. {"create.count", "code.group"} \subseteq Free
    BY DEF Free, Labels, Naming, Disbanding
<1>4. ASSUME NEW p \in Parties
      PROVE  ThenSolos([New("disband", "idle", p, None) EXCEPT !.solos = {p}]) \in Sound
    <2> DEFINE r == New("disband", "idle", p, None)
    <2>1. r \in Request
        BY <1>1, <1>2, NewType DEF Sound, Naming
    <2>2. [r EXCEPT !.solos = {p}] \in Request
        BY <2>1 DEF Request
    <2>3. QED
        BY <2>2, ThenSolosType
<1>5. ASSUME NEW p \in Parties, NEW c \in Codes
      PROVE  [New("joinByCode", "code.group", p, None) EXCEPT !.c = c] \in Sound
    <2> DEFINE r == New("joinByCode", "code.group", p, None)
               s == [r EXCEPT !.c = c]
    <2>1. r \in Request /\ r.pc = "code.group"
        BY <1>1, <1>2, NewType DEF Sound, Naming, New, Idle
    <2>2. s \in Request /\ s.pc \in Free
        BY <1>3, <2>1 DEF Request
    <2>3. QED
        BY <2>2, FreeType
<1>6. CASE Create(u)
    <2> DEFINE r == New("create", "create.count", None, None)
               s == [r EXCEPT !.solos = Memberships(u, None)]
    <2>1. r \in Request /\ r.pc = "create.count"
        BY <1>1, <1>2, NewType DEF Sound, Naming, New, Idle
    <2>2. Memberships(u, None) \subseteq Parties
        BY DEF StoreOK, Memberships
    <2>3. s \in Request /\ s.pc \in Free
        BY <1>3, <2>1, <2>2 DEF Request
    <2>4. s \in Sound
        BY <2>3, FreeType
    <2>5. QED
        BY <1>6, <2>4, BeginType DEF Create
<1>7. CASE \E c \in Codes : JoinByCode(u, c)
    BY <1>5, <1>7, BeginType DEF JoinByCode, StoreOK
<1>8. ASSUME NEW p \in Parties, Disband(u, p) PROVE ReqOK'
    BY <1>4, <1>8, BeginType DEF Disband
<1>9. ASSUME NEW p \in Parties,
             \/ Join(u, p) \/ Leave(u, p)
             \/ SetReady(u, p, "ready") \/ SetReady(u, p, "unready")
             \/ SetSettings(u, p) \/ GetCode(u, p) \/ Start(u, p) \/ Abort(u, p)
      PROVE  ReqOK'
    BY <1>1, <1>2, <1>9, NewType, BeginType
       DEF Join, Leave, SetReady, SetSettings, GetCode, Start, Abort
<1>10. ASSUME NEW p \in Parties, NEW t \in Users,
              Invite(u, p, t) \/ Add(u, p, t) \/ Kick(u, p, t) \/ Transfer(u, p, t)
       PROVE  ReqOK'
    BY <1>1, <1>2, <1>10, NewType, BeginType DEF Invite, Add, Kick, Transfer
<1>11. QED
    BY <1>6, <1>7, <1>8, <1>9, <1>10 DEF Send

LEMMA CallErrorType ==
    ASSUME ReqOK, NEW u \in Users, CallError(u)
    PROVE  ReqOK'
<1> DEFINE r == req[u]
<1>1. PICK q \in IF r.pc = "disband.list" THEN r.solos ELSE {r.q} :
          Become(u, OnError([r EXCEPT !.q = q]))
    BY DEF CallError
<1> DEFINE s == [r EXCEPT !.q = q]
<1>2. r \in Sound /\ r \in Request /\ q \in Parties \cup {None}
    BY <1>1, FieldType
<1>3. s \in Request /\ s.pc = r.pc /\ s.p = r.p /\ s.q = q
    BY <1>2 DEF Request
<1>4. r.pc \in Disbanding => q \in Parties
    BY <1>1, FieldType
<1>5. s \in Sound
    BY <1>2, <1>3, <1>4 DEF Sound
<1>6. QED
    BY <1>1, <1>5, OnErrorType, BecomeType

LEMMA NextReqType ==
    ASSUME ReqOK, StoreOK, [Next]_vars
    PROVE  ReqOK'
<1>1. CASE RuntimeRestart
    BY <1>1, IdleType DEF RuntimeRestart, ReqOK
<1>2. CASE \E p \in Parties : GuardExpire(p)
    BY <1>2 DEF GuardExpire, ReqOK
<1>3. CASE UNCHANGED vars
    BY <1>3 DEF vars, ReqOK
<1>4. QED
    BY <1>1, <1>2, <1>3, SendType, StepType, CallErrorType DEF Next

-----------------------------------------------------------------------------
(* Every action leaves the groups, the rows and the guard of the right type. *)

Untouched == UNCHANGED <<groupVars, rowVars, guard, faults>>

LEMMA UntouchedStore ==
    ASSUME StoreOK, Untouched
    PROVE  StoreOK'
BY DEF StoreOK, Untouched, groupVars, rowVars
(* The calls that only read. *)
ReadStep(u) ==
    \/ DisbandList(u) \/ DisbandCode(u) \/ ClearList(u) \/ LeadResolve(u)
    \/ InviteRoster(u) \/ InviteTarget(u) \/ AddTarget(u) \/ JoinLanded(u)
    \/ JoinCount(u) \/ CreateCount(u) \/ CodeGroup(u) \/ CodeRoster(u)
    \/ CodeJoiner(u) \/ CodeSolos(u) \/ CodeCount(u) \/ KickRoster(u)
    \/ TransferRoster(u) \/ GetCodeRead(u) \/ GetCodeExhausted(u) \/ StartRoster(u)
    \/ StartReady(u)

LEMMA ReadStepStore ==
    ASSUME StoreOK, NEW u \in Users, ReadStep(u)
    PROVE  StoreOK'
<1>1. CASE DisbandList(u)
    BY <1>1, UntouchedStore DEF DisbandList, Untouched
<1>2. CASE DisbandCode(u)
    BY <1>2, UntouchedStore DEF DisbandCode, Untouched
<1>3. CASE ClearList(u)
    BY <1>3, UntouchedStore DEF ClearList, Untouched
<1>4. CASE LeadResolve(u)
    BY <1>4, UntouchedStore DEF LeadResolve, Untouched
<1>5. CASE InviteRoster(u)
    BY <1>5, UntouchedStore DEF InviteRoster, Untouched
<1>6. CASE InviteTarget(u)
    BY <1>6, UntouchedStore DEF InviteTarget, Untouched
<1>7. CASE AddTarget(u)
    BY <1>7, UntouchedStore DEF AddTarget, Untouched
<1>8. CASE JoinLanded(u)
    BY <1>8, UntouchedStore DEF JoinLanded, Untouched
<1>9. CASE JoinCount(u)
    BY <1>9, UntouchedStore DEF JoinCount, Untouched
<1>10. CASE CreateCount(u)
    BY <1>10, UntouchedStore DEF CreateCount, Untouched
<1>11. CASE CodeGroup(u)
    BY <1>11, UntouchedStore DEF CodeGroup, Untouched
<1>12. CASE CodeRoster(u)
    BY <1>12, UntouchedStore DEF CodeRoster, Untouched
<1>13. CASE CodeJoiner(u)
    BY <1>13, UntouchedStore DEF CodeJoiner, Untouched
<1>14. CASE CodeSolos(u)
    BY <1>14, UntouchedStore DEF CodeSolos, Untouched
<1>15. CASE CodeCount(u)
    BY <1>15, UntouchedStore DEF CodeCount, Untouched
<1>16. CASE KickRoster(u)
    BY <1>16, UntouchedStore DEF KickRoster, Untouched
<1>17. CASE TransferRoster(u)
    BY <1>17, UntouchedStore DEF TransferRoster, Untouched
<1>18. CASE GetCodeRead(u)
    BY <1>18, UntouchedStore DEF GetCodeRead, Untouched
<1>19. CASE GetCodeExhausted(u)
    BY <1>19, UntouchedStore DEF GetCodeExhausted, Untouched
<1>20. CASE StartRoster(u)
    BY <1>20, UntouchedStore DEF StartRoster, Untouched
<1>21. CASE StartReady(u)
    BY <1>21, UntouchedStore DEF StartReady, Untouched
<1>22. QED
    BY <1>1, <1>2, <1>3, <1>4, <1>5, <1>6, <1>7, <1>8, <1>9, <1>10, <1>11, <1>12, <1>13,
       <1>14, <1>15, <1>16, <1>17, <1>18, <1>19, <1>20, <1>21 DEF ReadStep

LEMMA EdgeType ==
    ASSUME StoreOK, NEW p, NEW v, NEW s,
           p \in Parties /\ v \in Users => s \in EdgeStates,
           edge' = [edge EXCEPT ![p][v] = s]
    PROVE  edge' \in [Parties -> [Users -> EdgeStates]]
BY DEF StoreOK

LEMMA AddAsType ==
    ASSUME StoreOK, NEW p, NEW t, AddAs(p, t)
    PROVE  edge' \in [Parties -> [Users -> EdgeStates]]
<1> DEFINE s == IF edge[p][t] \in {"none", "requested"} THEN "invited" ELSE edge[p][t]
<1>1. p \in Parties /\ t \in Users => s \in EdgeStates
    BY DEF StoreOK, EdgeStates
<1>2. edge' = [edge EXCEPT ![p][t] = s]
    BY DEF AddAs
<1>3. QED
    BY <1>1, <1>2, EdgeType

LEMMA PromoteType ==
    ASSUME StoreOK, NEW p, NEW v, Promote(p, v)
    PROVE  edge' \in [Parties -> [Users -> EdgeStates]]
<1> DEFINE s == IF edge[p][v] = "member" THEN "admin" ELSE edge[p][v]
<1>1. p \in Parties /\ v \in Users => s \in EdgeStates
    BY DEF StoreOK, EdgeStates
<1>2. edge' = [edge EXCEPT ![p][v] = s]
    BY DEF Promote
<1>3. QED
    BY <1>1, <1>2, EdgeType

(* The calls that write. *)
WriteStep(u) ==
    \/ DisbandDelete(u) \/ DisbandRows(u) \/ DisbandCodeRows(u) \/ ClearDelete(u)
    \/ LeadRoster(u) \/ LeadWrite(u) \/ LeadPromote(u) \/ CreateCommit(u)
    \/ InviteAdd(u) \/ InviteRows(u) \/ AddCommit(u) \/ JoinCommit(u)
    \/ CodeStale(u) \/ CodeAdd(u) \/ LeaveRows(u) \/ KickCommit(u)
    \/ KickRows(u) \/ TransferWrite(u) \/ TransferPromote(u) \/ ReadyWrite(u)
    \/ SettingsWrite(u) \/ GetCodeForward(u) \/ GetCodeReverse(u) \/ StartGuard(u)
    \/ AbortRoster(u)

LEMMA WriteStepStore ==
    ASSUME ReqOK, StoreOK, NEW u \in Users, WriteStep(u)
    PROVE  StoreOK'
<1>1. CASE DisbandDelete(u)
    BY <1>1 DEF DisbandDelete, StoreOK, rowVars, EdgeStates
<1>2. CASE DisbandRows(u)
    BY <1>2 DEF DisbandRows, StoreOK, groupVars, codeVars
<1>3. CASE DisbandCodeRows(u)
    BY <1>3 DEF DisbandCodeRows, StoreOK, groupVars, DeleteCodePair
<1>4. CASE ClearDelete(u)
    BY <1>4 DEF ClearDelete, StoreOK, groupVars, codeVars
<1>5. CASE LeadRoster(u)
    BY <1>5 DEF LeadRoster, StoreOK, groupVars, codeVars
<1>6. CASE LeadWrite(u)
    BY <1>6, FieldType DEF LeadWrite, StoreOK, groupVars, codeVars
<1>7. CASE LeadPromote(u)
    <2>1. edge' \in [Parties -> [Users -> EdgeStates]]
        BY <1>7, PromoteType DEF LeadPromote
    <2>2. QED
        BY <1>7, <2>1 DEF LeadPromote, StoreOK, rowVars
<1>8. CASE CreateCommit(u)
    <2>1. edge' \in [Parties -> [Users -> EdgeStates]]
        BY <1>8, EdgeType DEF CreateCommit, StoreOK, EdgeStates
    <2>2. QED
        BY <1>8, <2>1 DEF CreateCommit, StoreOK, rowVars
<1>9. CASE InviteAdd(u)
    <2>1. edge' \in [Parties -> [Users -> EdgeStates]]
        BY <1>9, AddAsType DEF InviteAdd, StoreOK
    <2>2. QED
        BY <1>9, <2>1 DEF InviteAdd, StoreOK, rowVars
<1>10. CASE InviteRows(u)
    BY <1>10 DEF InviteRows, StoreOK, groupVars, codeVars
<1>11. CASE AddCommit(u)
    <2>1. edge' \in [Parties -> [Users -> EdgeStates]]
        BY <1>11, AddAsType DEF AddCommit, StoreOK
    <2>2. QED
        BY <1>11, <2>1 DEF AddCommit, StoreOK, rowVars
<1>12. CASE JoinCommit(u)
    <2>1. edge' \in [Parties -> [Users -> EdgeStates]]
        BY <1>12, EdgeType DEF JoinCommit, StoreOK, EdgeStates
    <2>2. QED
        BY <1>12, <2>1 DEF JoinCommit, StoreOK, rowVars
<1>13. CASE CodeStale(u)
    BY <1>13 DEF CodeStale, StoreOK, groupVars, DeleteCodePair
<1>14. CASE CodeAdd(u)
    <2>1. edge' \in [Parties -> [Users -> EdgeStates]]
        BY <1>14, EdgeType DEF CodeAdd, StoreOK, EdgeStates
    <2>2. QED
        BY <1>14, <2>1 DEF CodeAdd, StoreOK, rowVars
<1>15. CASE LeaveRows(u)
    BY <1>15 DEF LeaveRows, StoreOK, groupVars, codeVars
<1>16. CASE KickCommit(u)
    <2>1. edge' \in [Parties -> [Users -> EdgeStates]]
        BY <1>16, EdgeType DEF KickCommit, StoreOK, EdgeStates
    <2>2. QED
        BY <1>16, <2>1 DEF KickCommit, StoreOK, rowVars
<1>17. CASE KickRows(u)
    BY <1>17 DEF KickRows, StoreOK, groupVars, codeVars
<1>18. CASE TransferWrite(u)
    BY <1>18, FieldType DEF TransferWrite, StoreOK, groupVars, codeVars
<1>19. CASE TransferPromote(u)
    <2>1. edge' \in [Parties -> [Users -> EdgeStates]]
        BY <1>19, PromoteType DEF TransferPromote
    <2>2. QED
        BY <1>19, <2>1 DEF TransferPromote, StoreOK, rowVars
<1>20. CASE ReadyWrite(u)
    BY <1>20 DEF ReadyWrite, StoreOK, groupVars, codeVars
<1>21. CASE SettingsWrite(u)
    BY <1>21, FieldType DEF SettingsWrite, StoreOK, groupVars, codeVars, Naming, At
<1>22. CASE GetCodeForward(u)
    BY <1>22, FieldType DEF GetCodeForward, StoreOK, groupVars
<1>23. CASE GetCodeReverse(u)
    BY <1>23, FieldType DEF GetCodeReverse, StoreOK, groupVars
<1>24. CASE StartGuard(u)
    BY <1>24, FieldType DEF StartGuard, StoreOK, groupVars, rowVars, Naming, At
<1>25. CASE AbortRoster(u)
    BY <1>25 DEF AbortRoster, StoreOK, groupVars, rowVars
<1>26. QED
    BY <1>1, <1>2, <1>3, <1>4, <1>5, <1>6, <1>7, <1>8, <1>9, <1>10, <1>11, <1>12, <1>13,
       <1>14, <1>15, <1>16, <1>17, <1>18, <1>19, <1>20, <1>21, <1>22, <1>23, <1>24, <1>25
       DEF WriteStep

LEMMA SendStore ==
    ASSUME StoreOK, NEW u \in Users, Send(u)
    PROVE  StoreOK'
<1>1. ASSUME NEW p \in Parties, Leave(u, p) PROVE StoreOK'
    BY <1>1 DEF Leave, StoreOK, EdgeStates, rowVars
<1>2. CASE \/ Create(u)
           \/ \E c \in Codes : JoinByCode(u, c)
    BY <1>2, UntouchedStore DEF Create, JoinByCode, Untouched
<1>3. ASSUME NEW p \in Parties,
             \/ Join(u, p) \/ Disband(u, p)
             \/ SetReady(u, p, "ready") \/ SetReady(u, p, "unready")
             \/ SetSettings(u, p) \/ GetCode(u, p) \/ Start(u, p) \/ Abort(u, p)
      PROVE  StoreOK'
    BY <1>3, UntouchedStore
       DEF Join, Disband, SetReady, SetSettings, GetCode, Start, Abort, Untouched
<1>4. ASSUME NEW p \in Parties, NEW t \in Users,
             Invite(u, p, t) \/ Add(u, p, t) \/ Kick(u, p, t) \/ Transfer(u, p, t)
      PROVE  StoreOK'
    BY <1>4, UntouchedStore DEF Invite, Add, Kick, Transfer, Untouched
<1>5. QED
    BY <1>1, <1>2, <1>3, <1>4 DEF Send

LEMMA NextStore ==
    ASSUME ReqOK, StoreOK, [Next]_vars
    PROVE  StoreOK'
<1>1. ASSUME NEW u \in Users, Step(u) PROVE StoreOK'
    BY <1>1, ReadStepStore, WriteStepStore DEF Step, ReadStep, WriteStep
<1>2. ASSUME NEW u \in Users, CallError(u) PROVE StoreOK'
    BY <1>2, PartyAssumption DEF PartyAssumption, CallError, StoreOK, groupVars, rowVars
<1>3. CASE RuntimeRestart
    BY <1>3, PartyAssumption DEF PartyAssumption, RuntimeRestart, StoreOK, groupVars, rowVars
<1>4. CASE \E p \in Parties : GuardExpire(p)
    BY <1>4 DEF GuardExpire, StoreOK, groupVars, rowVars
<1>5. CASE UNCHANGED vars
    BY <1>5 DEF StoreOK, vars
<1>6. QED
    BY <1>1, <1>2, <1>3, <1>4, <1>5, SendStore DEF Next

(* The inductive invariant holds. *)
LEMMA Typed == Spec => [](ReqOK /\ StoreOK)
<1>1. Init => ReqOK /\ StoreOK
    <2>1. MaxFaults \in Nat
        BY PartyAssumption DEF PartyAssumption
    <2>2. QED
        BY <2>1, IdleType DEF Init, ReqOK, StoreOK, EdgeStates
<1>2. ReqOK /\ StoreOK /\ [Next]_vars => (ReqOK /\ StoreOK)'
    BY NextReqType, NextStore
<1>3. QED
    BY <1>1, <1>2, PTL DEF Spec

(* Every reachable state of the party component is well typed, for any       *)
(* players, parties and codes and whatever requests, failures and restarts:  *)
(* no handler uses a party, a leader or a code it has not read.              *)
THEOREM TypeCorrect == Spec => []TypeOK
<1>1. ReqOK /\ StoreOK => TypeOK
    BY DEF ReqOK, StoreOK, Sound, TypeOK
<1>2. QED
    BY <1>1, Typed, PTL

-----------------------------------------------------------------------------
(* A step keeps the kind of its request: helpers hand a request on within    *)
(* its operation or end it, and none makes an abort of it.                   *)

Onward(r, s) == s.op \in {r.op, "idle"} /\ s.pc # "abort.roster"

LEMMA IdleOnward ==
    ASSUME NEW r
    PROVE  Onward(r, Idle)
BY DEF Onward, Idle

LEMMA PcOnward ==
    ASSUME NEW r \in Request, NEW pc \in Labels \ {"abort.roster"}
    PROVE  Onward(r, [r EXCEPT !.pc = pc])
BY DEF Onward, Request

LEMMA ThenSolosOnward ==
    ASSUME NEW r \in Request
    PROVE  Onward(r, ThenSolos(r))
<1>1. {"disband.list", "create.commit", "clear.list"} \subseteq Labels \ {"abort.roster"}
    BY DEF Labels
<1>2. QED
    BY <1>1, IdleOnward, PcOnward DEF ThenSolos

LEMMA ThenDisbandedOnward ==
    ASSUME NEW r \in Request
    PROVE  Onward(r, ThenDisbanded(r)) /\ Onward(r, ThenDisbandError(r))
<1> DEFINE s == [r EXCEPT !.solos = @ \ {r.q}, !.q = None, !.c = None, !.roster = {}]
<1>1. s \in Request /\ s.op = r.op
    BY DEF Request
<1>2. Onward(r, ThenSolos(s))
    BY <1>1, ThenSolosOnward DEF Onward
<1>3. QED
    BY <1>2, IdleOnward DEF ThenDisbanded, ThenDisbandError

LEMMA ThenClearedOnward ==
    ASSUME NEW r \in Request
    PROVE  Onward(r, ThenCleared(r))
<1> DEFINE s == [r EXCEPT !.pc = "join.landed", !.roster = {}]
<1>1. s.op = r.op /\ s.pc = "join.landed"
    BY DEF Request
<1>2. QED
    BY <1>1, IdleOnward DEF Onward, ThenCleared

LEMMA ThenTransferredOnward ==
    ASSUME NEW r \in Request
    PROVE  Onward(r, ThenTransferred(r))
<1> DEFINE s == [r EXCEPT !.pc = "kick.rows", !.next = None]
<1>1. s.op = r.op /\ s.pc = "kick.rows"
    BY DEF Request
<1>2. QED
    BY <1>1, IdleOnward DEF Onward, ThenTransferred

LEMMA OnErrorOnward ==
    ASSUME NEW r \in Request
    PROVE  Onward(r, OnError(r))
<1>1. {"disband.code", "lead.resolve", "clear.list"} \subseteq Labels \ {"abort.roster"}
    BY DEF Labels
<1>2. QED
    BY <1>1, IdleOnward, PcOnward, ThenDisbandedOnward, ThenClearedOnward,
       ThenTransferredOnward DEF OnError

(* The request of u becomes s. *)
Becomes(u, s) == req' = [req EXCEPT ![u] = s] /\ Onward(req[u], s)

LEMMA GotoOnward ==
    ASSUME ReqOK, NEW u \in Users, NEW pc \in Labels \ {"abort.roster"}, Goto(u, pc)
    PROVE  \E s : Becomes(u, s)
BY FieldType, PcOnward DEF Goto, Become, Becomes

LEMMA FinishOnward ==
    ASSUME NEW u \in Users, Finish(u)
    PROVE  \E s : Becomes(u, s)
BY IdleOnward DEF Finish, Become, Becomes

LEMMA CheckOnward ==
    ASSUME ReqOK, NEW u \in Users, NEW ok, NEW pc \in Labels \ {"abort.roster"},
           Check(u, ok, pc)
    PROVE  \E s : Becomes(u, s)
BY GotoOnward, FinishOnward DEF Check

LEMMA SimpleStepOnward ==
    ASSUME ReqOK, NEW u \in Users, SimpleStep(u)
    PROVE  \E s : Becomes(u, s)
<1>1. CASE LeadWrite(u)
    <2>1. "lead.promote" \in Labels \ {"abort.roster"}
        BY DEF Labels
    <2>2. QED
        BY <1>1, <2>1, GotoOnward, FinishOnward DEF LeadWrite
<1>2. CASE CreateCommit(u)
    BY <1>2, FinishOnward DEF CreateCommit
<1>3. CASE InviteAdd(u)
    <2>1. "invite.rows" \in Labels \ {"abort.roster"}
        BY DEF Labels
    <2>2. QED
        BY <1>3, <2>1, GotoOnward, FinishOnward DEF InviteAdd
<1>4. CASE InviteRows(u)
    BY <1>4, FinishOnward DEF InviteRows
<1>5. CASE AddTarget(u)
    <2>1. "add.commit" \in Labels \ {"abort.roster"}
        BY DEF Labels
    <2>2. QED
        BY <1>5, <2>1, CheckOnward, FinishOnward DEF AddTarget
<1>6. CASE AddCommit(u)
    BY <1>6, FinishOnward DEF AddCommit
<1>7. CASE CodeStale(u)
    BY <1>7, FinishOnward DEF CodeStale
<1>8. CASE CodeRoster(u)
    <2>1. "code.joiner" \in Labels \ {"abort.roster"}
        BY DEF Labels
    <2>2. QED
        BY <1>8, <2>1, CheckOnward, FinishOnward DEF CodeRoster
<1>9. CASE CodeJoiner(u)
    <2>1. "code.add" \in Labels \ {"abort.roster"}
        BY DEF Labels
    <2>2. QED
        BY <1>9, <2>1, CheckOnward, FinishOnward DEF CodeJoiner
<1>10. CASE CodeAdd(u)
    <2>1. "code.solos" \in Labels \ {"abort.roster"}
        BY DEF Labels
    <2>2. QED
        BY <1>10, <2>1, GotoOnward, FinishOnward DEF CodeAdd
<1>11. CASE LeaveRows(u)
    <2>1. "lead.resolve" \in Labels \ {"abort.roster"}
        BY DEF Labels
    <2>2. QED
        BY <1>11, <2>1, GotoOnward, FinishOnward DEF LeaveRows
<1>12. CASE KickRoster(u)
    <2>1. "kick.commit" \in Labels \ {"abort.roster"}
        BY DEF Labels
    <2>2. QED
        BY <1>12, <2>1, CheckOnward, FinishOnward DEF KickRoster
<1>13. CASE KickCommit(u)
    <2>1. "lead.resolve" \in Labels \ {"abort.roster"}
        BY DEF Labels
    <2>2. QED
        BY <1>13, <2>1, GotoOnward, FinishOnward DEF KickCommit
<1>14. CASE KickRows(u)
    BY <1>14, FinishOnward DEF KickRows
<1>15. CASE TransferRoster(u)
    <2>1. "transfer.write" \in Labels \ {"abort.roster"}
        BY DEF Labels
    <2>2. QED
        BY <1>15, <2>1, CheckOnward, FinishOnward DEF TransferRoster
<1>16. CASE TransferWrite(u)
    <2>1. "transfer.promote" \in Labels \ {"abort.roster"}
        BY DEF Labels
    <2>2. QED
        BY <1>16, <2>1, GotoOnward, FinishOnward DEF TransferWrite
<1>17. CASE TransferPromote(u)
    BY <1>17, FinishOnward DEF TransferPromote
<1>18. CASE ReadyWrite(u)
    BY <1>18, FinishOnward DEF ReadyWrite
<1>19. CASE SettingsWrite(u)
    BY <1>19, FinishOnward DEF SettingsWrite
<1>20. CASE GetCodeRead(u)
    <2>1. "getCode.forward" \in Labels \ {"abort.roster"}
        BY DEF Labels
    <2>2. QED
        BY <1>20, <2>1, CheckOnward, FinishOnward DEF GetCodeRead
<1>21. CASE GetCodeExhausted(u)
    BY <1>21, FinishOnward DEF GetCodeExhausted
<1>22. CASE GetCodeReverse(u)
    BY <1>22, FinishOnward DEF GetCodeReverse
<1>23. CASE StartGuard(u)
    <2>1. "clear.list" \in Labels \ {"abort.roster"}
        BY DEF Labels
    <2>2. QED
        BY <1>23, <2>1, CheckOnward, FinishOnward DEF StartGuard
<1>24. CASE AbortRoster(u)
    BY <1>24, FinishOnward DEF AbortRoster
<1>25. QED
    BY <1>1, <1>2, <1>3, <1>4, <1>5, <1>6, <1>7, <1>8, <1>9, <1>10, <1>11, <1>12, <1>13,
       <1>14, <1>15, <1>16, <1>17, <1>18, <1>19, <1>20, <1>21, <1>22, <1>23, <1>24 DEF
       SimpleStep

LEMMA StepOnward ==
    ASSUME ReqOK, StoreOK, NEW u \in Users, Step(u)
    PROVE  \E s : Becomes(u, s)
<1> DEFINE r == req[u]
<1>1. r \in Request
    BY FieldType
<1>2. {"disband.rows", "disband.code", "lead.roster", "clear.list", "code.stale",
       "code.roster", "start.guard", "invite.target"} \subseteq Labels \ {"abort.roster"}
    BY DEF Labels
<1>3. Onward(r, ThenSolos([r EXCEPT !.solos = SoloParties(@)]))
    <2> DEFINE s == [r EXCEPT !.solos = SoloParties(@)]
    <2>1. SoloParties(r.solos) \subseteq Parties
        BY <1>1 DEF SoloParties, Request
    <2>2. s \in Request /\ s.op = r.op
        BY <1>1, <2>1 DEF Request
    <2>3. QED
        BY <2>2, ThenSolosOnward DEF Onward
<1>4. CASE DisbandList(u)
    <2>1. PICK q \in r.solos :
              Become(u, IF q \in groups
                        THEN [r EXCEPT !.pc = "disband.delete", !.q = q, !.roster = Listed(q)]
                        ELSE ThenDisbandError([r EXCEPT !.q = q]))
        BY <1>4 DEF DisbandList
    <2> DEFINE s == [r EXCEPT !.q = q]
    <2>2. q \in Parties
        BY <2>1, FieldType
    <2>3. s \in Request /\ s.op = r.op
        BY <1>1, <2>2 DEF Request
    <2>4. Onward(r, ThenDisbandError(s))
        BY <2>3, ThenDisbandedOnward DEF Onward
    <2>5. Onward(r, [r EXCEPT !.pc = "disband.delete", !.q = q, !.roster = Listed(q)])
        BY <1>1 DEF Onward, Request
    <2>6. QED
        BY <2>1, <2>4, <2>5 DEF Become, Becomes
<1>5. CASE DisbandDelete(u)
    BY <1>1, <1>2, <1>5, GotoOnward, ThenDisbandedOnward DEF DisbandDelete, Become, Becomes
<1>6. CASE DisbandRows(u)
    BY <1>2, <1>6, GotoOnward DEF DisbandRows
<1>7. CASE DisbandCode(u)
    <2>1. ASSUME NEW c
          PROVE  Onward(r, [r EXCEPT !.pc = "disband.codeRows", !.c = c])
        BY <1>1 DEF Onward, Request
    <2>2. QED
        BY <1>1, <1>7, <2>1, ThenDisbandedOnward DEF DisbandCode, Become, Becomes
<1>8. CASE DisbandCodeRows(u)
    BY <1>1, <1>8, ThenDisbandedOnward DEF DisbandCodeRows, Become, Becomes
<1>9. CASE ClearList(u)
    <2>1. Onward(r, [r EXCEPT !.pc = "clear.delete", !.roster = Listed(r.p)])
        BY <1>1 DEF Onward, Request
    <2>2. QED
        BY <1>9, <2>1 DEF ClearList, Become, Becomes
<1>10. CASE ClearDelete(u)
    BY <1>1, <1>10, ThenClearedOnward DEF ClearDelete, Become, Becomes
<1>11. CASE LeadResolve(u)
    BY <1>1, <1>2, <1>11, PcOnward, ThenTransferredOnward DEF LeadResolve, Become, Becomes
<1>12. CASE LeadRoster(u)
    <2>1. ASSUME NEW v
          PROVE  Onward(r, [r EXCEPT !.pc = "lead.write", !.next = v])
        BY <1>1 DEF Onward, Request
    <2>2. QED
        BY <1>1, <1>12, <2>1, ThenTransferredOnward DEF LeadRoster, Become, Becomes
<1>13. CASE LeadPromote(u)
    BY <1>1, <1>13, ThenTransferredOnward DEF LeadPromote, Become, Becomes
<1>14. CASE JoinCommit(u)
    BY <1>2, <1>14, GotoOnward, FinishOnward DEF JoinCommit
<1>15. CASE JoinLanded(u)
    <2>1. Onward(r, [r EXCEPT !.pc = "join.count", !.solos = Memberships(u, r.p)])
        BY <1>1 DEF Onward, Request
    <2>2. QED
        BY <1>15, <2>1, IdleOnward DEF JoinLanded, Become, Becomes
<1>16. CASE CodeGroup(u)
    BY <1>2, <1>16, GotoOnward, CheckOnward DEF CodeGroup
<1>17. CASE CodeSolos(u)
    <2>1. Onward(r, [r EXCEPT !.pc = "code.count", !.c = None,
                              !.solos = Memberships(u, r.p)])
        BY <1>1 DEF Onward, Request
    <2>2. QED
        BY <1>17, <2>1 DEF CodeSolos, Become, Becomes
<1>18. CASE GetCodeForward(u)
    <2>1. ASSUME NEW c
          PROVE  Onward(r, [r EXCEPT !.pc = "getCode.reverse", !.c = c])
        BY <1>1 DEF Onward, Request
    <2>2. QED
        BY <1>18, <2>1 DEF GetCodeForward, Become, Becomes
<1>19. CASE StartRoster(u)
    <2>1. Onward(r, [r EXCEPT !.pc = "start.ready", !.roster = Active(r.p)])
        BY <1>1 DEF Onward, Request
    <2>2. QED
        BY <1>19, <2>1, IdleOnward DEF StartRoster, Become, Becomes
<1>20. CASE StartReady(u)
    BY <1>2, <1>20, CheckOnward DEF StartReady
<1>21. CASE CreateCount(u) \/ JoinCount(u) \/ CodeCount(u)
    BY <1>3, <1>21, IdleOnward DEF CreateCount, JoinCount, CodeCount, Become, Becomes
<1>22. CASE InviteRoster(u)
    BY <1>2, <1>22, CheckOnward DEF InviteRoster
<1>23. CASE InviteTarget(u)
    <2>1. Onward(r, [r EXCEPT !.pc = "invite.add", !.next = ResolveLeader(r.p)])
        BY <1>1 DEF Onward, Request
    <2>2. QED
        BY <1>23, <2>1, IdleOnward DEF InviteTarget, Become, Becomes
<1>24. QED
    BY <1>4, <1>5, <1>6, <1>7, <1>8, <1>9, <1>10, <1>11, <1>12, <1>13, <1>14, <1>15,
       <1>16, <1>17, <1>18, <1>19, <1>20, <1>21, <1>22, <1>23, SimpleStepOnward
       DEF Step, SimpleStep

-----------------------------------------------------------------------------
(* One start past the guard.  A start that tryStart let through keeps the    *)
(* party in the guard until it ends: the window outlasts its calls, and only *)
(* an abort releases it earlier.                                             *)

PastGuard(r) == r.op = "start" /\ r.pc \in {"clear.list", "clear.delete"}

BeforeGuard == {"start.roster", "start.ready", "start.guard"}

StartInv ==
    /\ \A u \in Users : req[u].pc # "abort.roster"
    /\ \A u \in Users : req[u].op = "start" => req[u].pc \in BeforeGuard \/ PastGuard(req[u])
    /\ \A u \in Users : PastGuard(req[u]) => req[u].p \in guard
    /\ OneStartPastGuard

(* A request that is not past the guard disturbs nothing. *)
LEMMA StartUndisturbed ==
    ASSUME ReqOK, StartInv, NEW u \in Users, NEW s, req' = [req EXCEPT ![u] = s],
           s.pc # "abort.roster", s.op = "start" => s.pc \in BeforeGuard,
           guard \subseteq guard'
    PROVE  StartInv'
<1>1. \A v \in Users : req'[v] = IF v = u THEN s ELSE req[v]
    BY DEF ReqOK
<1>2. ~PastGuard(s)
    BY DEF BeforeGuard, PastGuard
<1>3. (\A v \in Users : req[v].pc # "abort.roster")'
    BY <1>1 DEF StartInv
<1>4. (\A v \in Users : req[v].op = "start" => req[v].pc \in BeforeGuard \/ PastGuard(req[v]))'
    BY <1>1 DEF StartInv, PastGuard
<1>5. (\A v \in Users : PastGuard(req[v]) => req[v].p \in guard)'
    BY <1>1, <1>2 DEF StartInv, PastGuard
<1>6. OneStartPastGuard'
    BY <1>1, <1>2 DEF StartInv, OneStartPastGuard, PastGuard
<1>7. QED
    BY <1>3, <1>4, <1>5, <1>6 DEF StartInv

(* The calls a start does not make. *)
OtherStep(u) ==
    \/ DisbandList(u) \/ DisbandDelete(u) \/ DisbandRows(u) \/ DisbandCode(u)
    \/ DisbandCodeRows(u) \/ LeadResolve(u) \/ LeadRoster(u) \/ LeadWrite(u)
    \/ LeadPromote(u) \/ CreateCount(u) \/ CreateCommit(u) \/ InviteRoster(u)
    \/ InviteTarget(u) \/ InviteAdd(u) \/ InviteRows(u) \/ AddTarget(u)
    \/ AddCommit(u) \/ JoinCommit(u) \/ JoinLanded(u) \/ JoinCount(u)
    \/ CodeGroup(u) \/ CodeStale(u) \/ CodeRoster(u) \/ CodeJoiner(u)
    \/ CodeAdd(u) \/ CodeSolos(u) \/ CodeCount(u) \/ LeaveRows(u)
    \/ KickRoster(u) \/ KickCommit(u) \/ KickRows(u) \/ TransferRoster(u)
    \/ TransferWrite(u) \/ TransferPromote(u) \/ ReadyWrite(u) \/ SettingsWrite(u)
    \/ GetCodeRead(u) \/ GetCodeForward(u) \/ GetCodeExhausted(u) \/ GetCodeReverse(u)
    \/ AbortRoster(u)

LEMMA OtherStepLabel ==
    ASSUME NEW u \in Users, OtherStep(u)
    PROVE  ~(req[u].pc \in BeforeGuard \/ PastGuard(req[u]))
<1>1. CASE DisbandList(u) \/ DisbandDelete(u) \/ DisbandRows(u) \/ DisbandCode(u)
             \/ DisbandCodeRows(u) \/ LeadResolve(u) \/ LeadRoster(u)
    BY <1>1 DEF At, BeforeGuard, PastGuard, DisbandList, DisbandDelete, DisbandRows,
           DisbandCode, DisbandCodeRows, LeadResolve, LeadRoster
<1>2. CASE LeadWrite(u) \/ LeadPromote(u) \/ CreateCount(u) \/ CreateCommit(u)
             \/ InviteRoster(u) \/ InviteTarget(u) \/ InviteAdd(u)
    BY <1>2 DEF At, BeforeGuard, PastGuard, LeadWrite, LeadPromote, CreateCount,
           CreateCommit, InviteRoster, InviteTarget, InviteAdd
<1>3. CASE InviteRows(u) \/ AddTarget(u) \/ AddCommit(u) \/ JoinCommit(u)
             \/ JoinLanded(u) \/ JoinCount(u) \/ CodeGroup(u)
    BY <1>3 DEF At, BeforeGuard, PastGuard, InviteRows, AddTarget, AddCommit, JoinCommit,
           JoinLanded, JoinCount, CodeGroup
<1>4. CASE CodeStale(u) \/ CodeRoster(u) \/ CodeJoiner(u) \/ CodeAdd(u)
             \/ CodeSolos(u) \/ CodeCount(u) \/ LeaveRows(u)
    BY <1>4 DEF At, BeforeGuard, PastGuard, CodeStale, CodeRoster, CodeJoiner, CodeAdd,
           CodeSolos, CodeCount, LeaveRows
<1>5. CASE KickRoster(u) \/ KickCommit(u) \/ KickRows(u) \/ TransferRoster(u)
             \/ TransferWrite(u) \/ TransferPromote(u) \/ ReadyWrite(u)
    BY <1>5 DEF At, BeforeGuard, PastGuard, KickRoster, KickCommit, KickRows,
           TransferRoster, TransferWrite, TransferPromote, ReadyWrite
<1>6. CASE SettingsWrite(u) \/ GetCodeRead(u) \/ GetCodeForward(u) \/ GetCodeExhausted(u)
             \/ GetCodeReverse(u) \/ AbortRoster(u)
    BY <1>6 DEF At, BeforeGuard, PastGuard, SettingsWrite, GetCodeRead, GetCodeForward,
           GetCodeExhausted, GetCodeReverse, AbortRoster
<1>7. QED
    BY <1>1, <1>2, <1>3, <1>4, <1>5, <1>6 DEF OtherStep

LEMMA OtherStepGuard ==
    ASSUME StartInv, NEW u \in Users, OtherStep(u)
    PROVE  guard' = guard
<1> req[u].pc # "abort.roster"
    BY DEF StartInv
<1>1. CASE DisbandList(u) \/ DisbandDelete(u) \/ DisbandRows(u) \/ DisbandCode(u)
             \/ DisbandCodeRows(u) \/ LeadResolve(u) \/ LeadRoster(u)
    BY <1>1 DEF DisbandList, DisbandDelete, DisbandRows, DisbandCode, DisbandCodeRows,
           LeadResolve, LeadRoster
<1>2. CASE LeadWrite(u) \/ LeadPromote(u) \/ CreateCount(u) \/ CreateCommit(u)
             \/ InviteRoster(u) \/ InviteTarget(u) \/ InviteAdd(u)
    BY <1>2 DEF LeadWrite, LeadPromote, CreateCount, CreateCommit, InviteRoster,
           InviteTarget, InviteAdd
<1>3. CASE InviteRows(u) \/ AddTarget(u) \/ AddCommit(u) \/ JoinCommit(u)
             \/ JoinLanded(u) \/ JoinCount(u) \/ CodeGroup(u)
    BY <1>3 DEF InviteRows, AddTarget, AddCommit, JoinCommit, JoinLanded, JoinCount,
           CodeGroup
<1>4. CASE CodeStale(u) \/ CodeRoster(u) \/ CodeJoiner(u) \/ CodeAdd(u)
             \/ CodeSolos(u) \/ CodeCount(u) \/ LeaveRows(u)
    BY <1>4 DEF CodeStale, CodeRoster, CodeJoiner, CodeAdd, CodeSolos, CodeCount, LeaveRows
<1>5. CASE KickRoster(u) \/ KickCommit(u) \/ KickRows(u) \/ TransferRoster(u)
             \/ TransferWrite(u) \/ TransferPromote(u) \/ ReadyWrite(u)
    BY <1>5 DEF KickRoster, KickCommit, KickRows, TransferRoster, TransferWrite,
           TransferPromote, ReadyWrite
<1>6. CASE SettingsWrite(u) \/ GetCodeRead(u) \/ GetCodeForward(u) \/ GetCodeExhausted(u)
             \/ GetCodeReverse(u) \/ AbortRoster(u)
    BY <1>6 DEF At, SettingsWrite, GetCodeRead, GetCodeForward, GetCodeExhausted,
           GetCodeReverse, AbortRoster
<1>7. QED
    BY <1>1, <1>2, <1>3, <1>4, <1>5, <1>6 DEF OtherStep

LEMMA StartStepInv ==
    ASSUME ReqOK, StoreOK, StartInv, NEW u \in Users, Step(u)
    PROVE  StartInv'
<1> DEFINE r == req[u]
<1>1. r \in Request
    BY FieldType
<1>2. CASE OtherStep(u)
    <2>1. PICK s : Becomes(u, s)
        BY StepOnward
    <2>2. r.op # "start"
        BY <1>2, OtherStepLabel DEF StartInv
    <2>3. s.op # "start" /\ s.pc # "abort.roster"
        BY <2>1, <2>2 DEF Becomes, Onward
    <2>4. guard' = guard
        BY <1>2, OtherStepGuard
    <2>5. QED
        BY <2>1, <2>3, <2>4, StartUndisturbed DEF Becomes
<1>3. CASE StartRoster(u)
    <2> DEFINE s == [r EXCEPT !.pc = "start.ready", !.roster = Active(r.p)]
    <2>1. s.pc = "start.ready"
        BY <1>1 DEF Request
    <2>2. guard' = guard /\ (req' = [req EXCEPT ![u] = s] \/ req' = [req EXCEPT ![u] = Idle])
        BY <1>3 DEF StartRoster, Become
    <2>3. s.pc \in BeforeGuard /\ s.pc # "abort.roster"
        BY <2>1 DEF BeforeGuard
    <2>4. Idle.op # "start" /\ Idle.pc # "abort.roster"
        BY DEF Idle
    <2>5. QED
        BY <2>2, <2>3, <2>4, StartUndisturbed
<1>4. CASE StartReady(u)
    <2> DEFINE s == [r EXCEPT !.pc = "start.guard"]
    <2>1. s.pc = "start.guard"
        BY <1>1 DEF Request
    <2>2. guard' = guard /\ (req' = [req EXCEPT ![u] = s] \/ req' = [req EXCEPT ![u] = Idle])
        BY <1>4 DEF StartReady, Check, Goto, Finish, Become
    <2>3. s.pc \in BeforeGuard /\ s.pc # "abort.roster"
        BY <2>1 DEF BeforeGuard
    <2>4. Idle.op # "start" /\ Idle.pc # "abort.roster"
        BY DEF Idle
    <2>5. QED
        BY <2>2, <2>3, <2>4, StartUndisturbed
<1>5. CASE StartGuard(u)
    <2> DEFINE s == [r EXCEPT !.pc = "clear.list"]
    <2>1. CASE r.p \in guard
        <3>1. guard \subseteq guard' /\ req' = [req EXCEPT ![u] = Idle]
            BY <1>5, <2>1 DEF StartGuard, Check, Finish, Become
        <3>2. Idle.op # "start" /\ Idle.pc # "abort.roster"
            BY DEF Idle
        <3>3. QED
            BY <3>1, <3>2, StartUndisturbed
    <2>2. CASE r.p \notin guard
        <3>1. guard' = guard \cup {r.p} /\ req' = [req EXCEPT ![u] = s]
            BY <1>5, <2>2 DEF StartGuard, Check, Goto, Become
        <3>2. s.pc = "clear.list" /\ s.op = r.op /\ s.p = r.p
            BY <1>1 DEF Request
        <3>3. \A v \in Users : req'[v] = IF v = u THEN s ELSE req[v]
            BY <3>1 DEF ReqOK
        <3>4. \A v \in Users : PastGuard(req[v]) => req[v].p # r.p
            BY <2>2 DEF StartInv
        <3>5. (\A v \in Users : req[v].pc # "abort.roster")'
            BY <3>2, <3>3 DEF StartInv
        <3>6. (\A v \in Users : req[v].op = "start" =>
                  req[v].pc \in BeforeGuard \/ PastGuard(req[v]))'
            BY <3>2, <3>3 DEF StartInv, PastGuard
        <3>7. (\A v \in Users : PastGuard(req[v]) => req[v].p \in guard)'
            BY <3>1, <3>2, <3>3 DEF StartInv, PastGuard
        <3>8. OneStartPastGuard'
            <4>1. SUFFICES ASSUME NEW v \in Users, NEW w \in Users, v # w,
                                  PastGuard(req'[v]), PastGuard(req'[w]),
                                  req'[v].p = req'[w].p
                           PROVE  FALSE
                BY DEF OneStartPastGuard, PastGuard
            <4>2. v # u /\ w # u
                <5>1. req'[u].p = r.p
                    BY <3>2, <3>3
                <5>2. \A x \in Users \ {u} : PastGuard(req'[x]) => req'[x].p # r.p
                    BY <3>3, <3>4
                <5>3. QED
                    BY <4>1, <5>1, <5>2
            <4>3. req'[v] = req[v] /\ req'[w] = req[w]
                BY <3>3, <4>2
            <4>4. QED
                BY <4>1, <4>3 DEF StartInv, OneStartPastGuard, PastGuard
        <3>9. QED
            BY <3>5, <3>6, <3>7, <3>8 DEF StartInv
    <2>3. QED
        BY <2>1, <2>2
<1>6. CASE ClearList(u)
    <2> DEFINE s == [r EXCEPT !.pc = "clear.delete", !.roster = Listed(r.p)]
    <2>1. r.pc = "clear.list" /\ guard' = guard /\ req' = [req EXCEPT ![u] = s]
        BY <1>6 DEF ClearList, At, Become
    <2>2. s.pc = "clear.delete" /\ s.op = r.op /\ s.p = r.p
        BY <1>1 DEF Request
    <2>3. \A v \in Users : req'[v] = IF v = u THEN s ELSE req[v]
        BY <2>1 DEF ReqOK
    <2>4. PastGuard(s) <=> PastGuard(r)
        BY <2>1, <2>2 DEF PastGuard
    <2>5. (\A v \in Users : req[v].pc # "abort.roster")'
        BY <2>2, <2>3 DEF StartInv
    <2>6. (\A v \in Users : req[v].op = "start" =>
              req[v].pc \in BeforeGuard \/ PastGuard(req[v]))'
        BY <2>2, <2>3 DEF StartInv, PastGuard
    <2>7. (\A v \in Users : PastGuard(req[v]) => req[v].p \in guard)'
        BY <2>1, <2>2, <2>3, <2>4 DEF StartInv, PastGuard
    <2>8. OneStartPastGuard'
        BY <2>1, <2>2, <2>3 DEF StartInv, OneStartPastGuard
    <2>9. QED
        BY <2>5, <2>6, <2>7, <2>8 DEF StartInv
<1>7. CASE ClearDelete(u)
    <2> DEFINE s == ThenCleared(r)
    <2>1. guard' = guard /\ req' = [req EXCEPT ![u] = s]
        BY <1>7 DEF ClearDelete, Become
    <2>2. s.op # "start" /\ s.pc # "abort.roster"
        <3>1. [r EXCEPT !.pc = "join.landed", !.roster = {}].op = r.op
              /\ [r EXCEPT !.pc = "join.landed", !.roster = {}].pc = "join.landed"
            BY <1>1 DEF Request
        <3>2. QED
            BY <3>1 DEF ThenCleared, Idle
    <2>3. QED
        BY <2>1, <2>2, StartUndisturbed
<1>8. QED
    BY <1>2, <1>3, <1>4, <1>5, <1>6, <1>7 DEF Step, OtherStep

LEMMA BeginStartInv ==
    ASSUME ReqOK, StartInv, NEW u \in Users, NEW s, Begin(u, s), guard' = guard,
           s.pc # "abort.roster", s.op = "start" => s.pc = "start.roster"
    PROVE  StartInv'
<1>1. req' = [req EXCEPT ![u] = s] /\ (s.op = "start" => s.pc \in BeforeGuard)
    BY DEF Begin, BeforeGuard
<1>2. QED
    BY <1>1, StartUndisturbed

LEMMA StartSendInv ==
    ASSUME ReqOK, StoreOK, StartInv, "abort" \notin Ops, NEW u \in Users, Send(u)
    PROVE  StartInv'
<1>1. ASSUME NEW op, NEW pc, NEW p, NEW t
      PROVE  New(op, pc, p, t).op = op /\ New(op, pc, p, t).pc = pc
    BY DEF New, Idle
<1>2. ASSUME NEW p \in Parties
      PROVE  LET s == ThenSolos([New("disband", "idle", p, None) EXCEPT !.solos = {p}])
             IN  s.pc # "abort.roster" /\ s.op # "start"
    <2> DEFINE n == New("disband", "idle", p, None)
               m == [n EXCEPT !.solos = {p}]
    <2>1. "disband" \in OpNames /\ "idle" \in Labels \ Disbanding
        BY DEF OpNames, Labels, Disbanding
    <2>2. n \in Request
        BY <2>1, NewType DEF Sound, Naming
    <2>3. m \in Request /\ m.op = "disband"
        BY <1>1, <2>2 DEF Request
    <2>4. QED
        BY <2>3, ThenSolosOnward DEF Onward
<1>3. CASE Create(u)
    <2> DEFINE n == New("create", "create.count", None, None)
               s == [n EXCEPT !.solos = Memberships(u, None)]
    <2>1. s.op = "create" /\ s.pc = "create.count"
        BY DEF New, Idle
    <2>2. QED
        BY <1>3, <2>1, BeginStartInv DEF Create
<1>4. ASSUME NEW c \in Codes, JoinByCode(u, c) PROVE StartInv'
    <2> DEFINE s == [New("joinByCode", "code.group", forward[c], None) EXCEPT !.c = c]
    <2>1. s.op = "joinByCode" /\ s.pc = "code.group"
        BY DEF New, Idle
    <2>2. QED
        BY <1>4, <2>1, BeginStartInv DEF JoinByCode
<1>5. ASSUME NEW p \in Parties, Disband(u, p) PROVE StartInv'
    BY <1>2, <1>5, BeginStartInv DEF Disband
<1>6. ASSUME NEW p \in Parties,
             \/ Join(u, p) \/ Leave(u, p)
             \/ SetReady(u, p, "ready") \/ SetReady(u, p, "unready")
             \/ SetSettings(u, p) \/ GetCode(u, p) \/ Start(u, p)
      PROVE  StartInv'
    BY <1>1, <1>6, BeginStartInv DEF Join, Leave, SetReady, SetSettings, GetCode, Start
<1>7. ASSUME NEW p \in Parties PROVE ~Abort(u, p)
    BY <1>1 DEF Abort, Begin
<1>8. ASSUME NEW p \in Parties, NEW t \in Users,
             Invite(u, p, t) \/ Add(u, p, t) \/ Kick(u, p, t) \/ Transfer(u, p, t)
      PROVE  StartInv'
    BY <1>1, <1>8, BeginStartInv DEF Invite, Add, Kick, Transfer
<1>9. QED
    BY <1>3, <1>4, <1>5, <1>6, <1>7, <1>8 DEF Send

LEMMA StartErrorInv ==
    ASSUME ReqOK, StartInv, NEW u \in Users, CallError(u)
    PROVE  StartInv'
<1> DEFINE r == req[u]
<1>1. PICK q \in IF r.pc = "disband.list" THEN r.solos ELSE {r.q} :
          Become(u, OnError([r EXCEPT !.q = q]))
    BY DEF CallError
<1> DEFINE m == [r EXCEPT !.q = q]
           s == OnError(m)
<1>2. r \in Request /\ q \in Parties \cup {None}
    BY <1>1, FieldType
<1>3. m \in Request /\ m.op = r.op /\ m.pc = r.pc
    BY <1>2 DEF Request
<1>4. Onward(m, s)
    BY <1>3, OnErrorOnward
<1>5. s.op = "start" => s.pc \in BeforeGuard
    <2>1. SUFFICES ASSUME m.op = "start" PROVE s.op # "start"
        BY <1>4 DEF Onward
    <2>2. m.pc \in BeforeGuard \cup {"clear.list", "clear.delete"}
        BY <1>3, <2>1 DEF StartInv, PastGuard
    <2>3. s = Idle
        BY <2>1, <2>2 DEF OnError, ThenCleared, BeforeGuard
    <2>4. QED
        BY <2>3 DEF Idle
<1>6. guard' = guard /\ req' = [req EXCEPT ![u] = s]
    BY <1>1 DEF CallError, Become
<1>7. QED
    BY <1>4, <1>5, <1>6, StartUndisturbed DEF Onward

LEMMA StartInvNext ==
    ASSUME ReqOK, StoreOK, StartInv, "abort" \notin Ops, [Next]_vars
    PROVE  StartInv'
<1>1. CASE RuntimeRestart
    <2>1. \A u \in Users : req'[u] = Idle
        BY <1>1 DEF RuntimeRestart
    <2>2. Idle.op = "idle" /\ Idle.pc = "idle"
        BY DEF Idle
    <2>3. QED
        BY <2>1, <2>2 DEF StartInv, OneStartPastGuard, PastGuard
<1>2. ASSUME NEW p \in Parties, GuardExpire(p) PROVE StartInv'
    <2>1. req' = req /\ guard' = guard \ {p} /\ \A u \in Users : req[u].p # p
        BY <1>2 DEF GuardExpire
    <2>2. QED
        BY <2>1 DEF StartInv, OneStartPastGuard, PastGuard
<1>3. CASE UNCHANGED vars
    BY <1>3 DEF vars, StartInv, OneStartPastGuard, PastGuard
<1>4. QED
    BY <1>1, <1>2, <1>3, StartStepInv, StartSendInv, StartErrorInv DEF Next

(* partyStartGuard keeps one live start per party: with nobody aborting, two *)
(* starts of a party are never past tryStart together, for any number of     *)
(* players and parties and across failed calls and runtime restarts.         *)
THEOREM OneStart == "abort" \notin Ops => (Spec => []OneStartPastGuard)
<1>1. SUFFICES ASSUME "abort" \notin Ops PROVE Spec => []OneStartPastGuard
    OBVIOUS
<1>2. Init => StartInv
    BY DEF Init, Idle, StartInv, OneStartPastGuard, PastGuard
<1>3. ReqOK /\ StoreOK /\ StartInv /\ [Next]_vars => StartInv'
    BY <1>1, StartInvNext
<1>4. StartInv => OneStartPastGuard
    BY DEF StartInv
<1>5. QED
    BY <1>2, <1>3, <1>4, Typed, PTL DEF Spec

-----------------------------------------------------------------------------
(* CodeLeadsToParty.  The forward row of a code that a party's reverse row,  *)
(* or a request in flight, names is that party's or none: a drawn code is    *)
(* one nobody names.  And a pair is only deleted for a party that is gone    *)
(* for good, since a group id is not used twice.                             *)

Made(p) == p \in Parties /\ creator[p] # None
Dead(p) == Made(p) /\ p \notin groups
Leads(c, p) == c \in Codes /\ forward[c] \in {p, None}

(* What is known of a request that handles a code or ends a party. *)
PairOf(r) ==
    /\ r.pc \in {"getCode.read", "getCode.forward", "getCode.reverse", "code.group"} => Made(r.p)
    /\ r.pc \in {"getCode.reverse", "code.group", "code.stale"} => Leads(r.c, r.p)
    /\ r.pc = "getCode.reverse" /\ r.p \in groups => forward[r.c] = r.p
    /\ r.pc = "code.stale" => Dead(r.p)
    /\ r.pc = "disband.delete" => Made(r.q)
    /\ r.pc \in {"disband.rows", "disband.code", "disband.codeRows"} => Dead(r.q)
    /\ r.pc = "disband.codeRows" => Leads(r.c, r.q)

PairInv ==
    /\ \A p \in groups : Made(p)
    /\ \A c \in Codes : forward[c] # None => Made(forward[c])
    /\ \A p \in Parties : reverse[p] # None => Made(p) /\ Leads(reverse[p], p)
    /\ CodeLeadsToParty
    /\ \A u \in Users : PairOf(req[u])

(* The labels PairOf speaks of. *)
Coded == {"getCode.read", "getCode.forward", "getCode.reverse", "code.group", "code.stale",
          "disband.delete", "disband.rows", "disband.code", "disband.codeRows"}

LEMMA TamePair ==
    ASSUME NEW r, r.pc \notin Coded
    PROVE  PairOf(r)
BY DEF PairOf, Coded

LEMMA ThenSolosTame ==
    ASSUME NEW r \in Request
    PROVE  ThenSolos(r).pc \notin Coded
BY DEF ThenSolos, Idle, Request, Coded

LEMMA ThenDisbandedTame ==
    ASSUME NEW r \in Request
    PROVE  ThenDisbanded(r).pc \notin Coded /\ ThenDisbandError(r).pc \notin Coded
<1>1. [r EXCEPT !.solos = @ \ {r.q}, !.q = None, !.c = None, !.roster = {}] \in Request
    BY DEF Request
<1>2. ThenDisbanded(r).pc \notin Coded
    BY <1>1, ThenSolosTame DEF ThenDisbanded
<1>3. QED
    BY <1>2 DEF ThenDisbandError, Idle, Coded

LEMMA ThenClearedTame ==
    ASSUME NEW r \in Request
    PROVE  ThenCleared(r).pc \notin Coded /\ ThenTransferred(r).pc \notin Coded
BY DEF ThenCleared, ThenTransferred, Idle, Request, Coded

(* A request that only moves on. *)
Tamed(u) == \E s : req' = [req EXCEPT ![u] = s] /\ s.pc \notin Coded

LEMMA FinishTamed ==
    ASSUME NEW u, Finish(u)
    PROVE  Tamed(u)
<1>1. Idle.pc \notin Coded
    BY DEF Idle, Coded
<1>2. QED
    BY <1>1 DEF Finish, Become, Tamed

LEMMA GotoTamed ==
    ASSUME ReqOK, NEW u \in Users, NEW pc \in Labels \ Coded, Goto(u, pc)
    PROVE  Tamed(u)
<1>1. [req[u] EXCEPT !.pc = pc].pc = pc
    BY FieldType DEF Request
<1>2. QED
    BY <1>1 DEF Goto, Become, Tamed

LEMMA CheckTamed ==
    ASSUME ReqOK, NEW u \in Users, NEW ok, NEW pc \in Labels \ Coded, Check(u, ok, pc)
    PROVE  Tamed(u)
BY GotoTamed, FinishTamed DEF Check

(* Labels that a call goes on to, outside the handling of codes. *)
PlainLabels ==
    {"lead.promote", "lead.resolve", "lead.roster", "invite.rows", "invite.target", "add.commit",
     "kick.commit", "transfer.write", "transfer.promote", "code.roster", "code.joiner", "code.add",
     "code.solos", "clear.list", "start.guard"}

LEMMA PlainTame == PlainLabels \subseteq Labels \ Coded
BY DEF PlainLabels, Labels, Coded

(* What PairInv speaks of, but for the requests. *)
pairVars == <<groups, creator, forward, reverse>>

(* The calls that only move on, one lemma for those that go to a plain label *)
(* or end, and one for those that record what they read.                     *)

LEMMA PlainSteps ==
    ASSUME ReqOK, NEW u \in Users,
           \/ LeadWrite(u) \/ InviteAdd(u) \/ InviteRows(u) \/ AddTarget(u) \/ AddCommit(u)
           \/ CodeRoster(u) \/ CodeJoiner(u) \/ CodeAdd(u) \/ LeaveRows(u) \/ KickRoster(u)
           \/ KickCommit(u) \/ KickRows(u) \/ TransferRoster(u) \/ TransferWrite(u)
           \/ TransferPromote(u) \/ ReadyWrite(u) \/ SettingsWrite(u) \/ GetCodeExhausted(u)
           \/ StartGuard(u) \/ AbortRoster(u) \/ InviteRoster(u) \/ StartReady(u) \/ JoinCommit(u)
    PROVE  Tamed(u) /\ UNCHANGED pairVars
<1>1. ASSUME NEW pc \in PlainLabels, Goto(u, pc) \/ \E ok : Check(u, ok, pc)
      PROVE  Tamed(u)
    BY <1>1, PlainTame, GotoTamed, CheckTamed
<1>2. CASE LeadWrite(u) \/ InviteAdd(u) \/ InviteRows(u) \/ AddTarget(u) \/ AddCommit(u)
    BY <1>1, <1>2, FinishTamed
       DEF LeadWrite, InviteAdd, InviteRows, AddTarget, AddCommit, PlainLabels, pairVars,
           groupVars, rowVars, codeVars
<1>3. CASE CodeRoster(u) \/ CodeJoiner(u) \/ CodeAdd(u) \/ LeaveRows(u) \/ KickRoster(u)
    BY <1>1, <1>3, FinishTamed
       DEF CodeRoster, CodeJoiner, CodeAdd, LeaveRows, KickRoster, PlainLabels, pairVars,
           groupVars, rowVars, codeVars
<1>4. CASE KickCommit(u) \/ KickRows(u) \/ TransferRoster(u) \/ TransferWrite(u)
    BY <1>1, <1>4, FinishTamed
       DEF KickCommit, KickRows, TransferRoster, TransferWrite, PlainLabels, pairVars,
           groupVars, rowVars, codeVars
<1>5. CASE TransferPromote(u) \/ ReadyWrite(u) \/ SettingsWrite(u) \/ GetCodeExhausted(u)
    BY <1>5, FinishTamed
       DEF TransferPromote, ReadyWrite, SettingsWrite, GetCodeExhausted, pairVars,
           groupVars, rowVars, codeVars
<1>6. CASE StartGuard(u) \/ AbortRoster(u) \/ InviteRoster(u) \/ StartReady(u) \/ JoinCommit(u)
    BY <1>1, <1>6, FinishTamed
       DEF StartGuard, AbortRoster, InviteRoster, StartReady, JoinCommit, PlainLabels, pairVars,
           groupVars, rowVars, codeVars
<1>7. QED
    BY <1>2, <1>3, <1>4, <1>5, <1>6

LEMMA ReadingSteps ==
    ASSUME ReqOK, NEW u \in Users,
           \/ DisbandCodeRows(u) \/ ClearList(u) \/ ClearDelete(u) \/ LeadResolve(u)
           \/ LeadRoster(u) \/ LeadPromote(u) \/ CreateCount(u) \/ JoinCount(u) \/ CodeCount(u)
           \/ InviteTarget(u) \/ JoinLanded(u) \/ CodeSolos(u) \/ StartRoster(u)
    PROVE  Tamed(u)
<1> DEFINE r == req[u]
<1>1. r \in Request
    BY FieldType
<1>2. ASSUME NEW s, Become(u, s), s.pc \notin Coded
      PROVE  Tamed(u)
    BY <1>2 DEF Become, Tamed
<1>3. CASE DisbandCodeRows(u)
    BY <1>1, <1>2, <1>3, ThenDisbandedTame DEF DisbandCodeRows
<1>4. CASE ClearList(u)
    <2>1. [r EXCEPT !.pc = "clear.delete", !.roster = Listed(r.p)].pc \notin Coded
        BY <1>1 DEF Request, Coded
    <2>2. QED
        BY <1>2, <1>4, <2>1 DEF ClearList
<1>5. CASE ClearDelete(u) \/ LeadPromote(u)
    BY <1>1, <1>2, <1>5, ThenClearedTame DEF ClearDelete, LeadPromote
<1>6. CASE LeadResolve(u)
    <2>1. [r EXCEPT !.pc = "lead.roster"].pc \notin Coded
        BY <1>1 DEF Request, Coded
    <2>2. QED
        BY <1>1, <1>2, <1>6, <2>1, ThenClearedTame DEF LeadResolve
<1>7. CASE LeadRoster(u)
    <2>1. \A v : [r EXCEPT !.pc = "lead.write", !.next = v].pc \notin Coded
        BY <1>1 DEF Request, Coded
    <2>2. QED
        BY <1>1, <1>2, <1>7, <2>1, ThenClearedTame DEF LeadRoster
<1>8. CASE CreateCount(u) \/ JoinCount(u) \/ CodeCount(u)
    <2>1. SoloParties(r.solos) \subseteq Parties
        BY <1>1 DEF SoloParties, Request
    <2>2. [r EXCEPT !.solos = SoloParties(@)] \in Request
        BY <1>1, <2>1 DEF Request
    <2>3. ThenSolos([r EXCEPT !.solos = SoloParties(@)]).pc \notin Coded /\ Idle.pc \notin Coded
        BY <2>2, ThenSolosTame DEF Idle, Coded
    <2>4. QED
        BY <1>2, <1>8, <2>3 DEF CreateCount, JoinCount, CodeCount
<1>9. CASE InviteTarget(u)
    <2>1. [r EXCEPT !.pc = "invite.add", !.next = ResolveLeader(r.p)].pc \notin Coded
        BY <1>1 DEF Request, Coded
    <2>2. Idle.pc \notin Coded
        BY DEF Idle, Coded
    <2>3. QED
        BY <1>2, <1>9, <2>1, <2>2 DEF InviteTarget
<1>10. CASE JoinLanded(u)
    <2>1. [r EXCEPT !.pc = "join.count", !.solos = Memberships(u, r.p)].pc \notin Coded
        BY <1>1 DEF Request, Coded
    <2>2. Idle.pc \notin Coded
        BY DEF Idle, Coded
    <2>3. QED
        BY <1>2, <1>10, <2>1, <2>2 DEF JoinLanded
<1>11. CASE CodeSolos(u)
    <2>1. [r EXCEPT !.pc = "code.count", !.c = None, !.solos = Memberships(u, r.p)].pc \notin Coded
        BY <1>1 DEF Request, Coded
    <2>2. QED
        BY <1>2, <1>11, <2>1 DEF CodeSolos
<1>12. CASE StartRoster(u)
    <2>1. [r EXCEPT !.pc = "start.ready", !.roster = Active(r.p)].pc \notin Coded
        BY <1>1 DEF Request, Coded
    <2>2. Idle.pc \notin Coded
        BY DEF Idle, Coded
    <2>3. QED
        BY <1>2, <1>12, <2>1, <2>2 DEF StartRoster
<1>13. QED
    BY <1>3, <1>4, <1>5, <1>6, <1>7, <1>8, <1>9, <1>10, <1>11, <1>12

(* A step that leaves groups and codes alone keeps the invariant when it     *)
(* leaves its request in order.                                              *)
LEMMA PairFrame ==
    ASSUME ReqOK, PairInv, UNCHANGED pairVars, NEW u \in Users, NEW s,
           req' = [req EXCEPT ![u] = s], PairOf(s)
    PROVE  PairInv'
<1>1. \A v \in Users : req'[v] = IF v = u THEN s ELSE req[v]
    BY DEF ReqOK
<1>2. \A r : PairOf(r)' <=> PairOf(r)
    BY DEF PairOf, Made, Dead, Leads, pairVars
<1>3. ASSUME NEW v \in Users
      PROVE  PairOf(req[v])'
    BY <1>1, <1>2 DEF PairInv, PairOf, Made, Dead, Leads, pairVars
<1>4. CodeLeadsToParty'
    BY DEF PairInv, CodeLeadsToParty, pairVars
<1>5. QED
    BY <1>3, <1>4 DEF PairInv, Made, Leads, pairVars

LEMMA TamedPair ==
    ASSUME ReqOK, PairInv, UNCHANGED pairVars, NEW u \in Users, Tamed(u)
    PROVE  PairInv'
BY PairFrame, TamePair DEF Tamed

(* The calls that read a code or find a party gone. *)

LEMMA DisbandListPair ==
    ASSUME ReqOK, StoreOK, PairInv, NEW u \in Users, DisbandList(u)
    PROVE  PairInv'
<1> DEFINE r == req[u]
<1>1. r \in Request /\ r.solos \subseteq Parties /\ UNCHANGED pairVars
    BY FieldType DEF DisbandList, pairVars, groupVars, rowVars
<1>2. PICK q \in r.solos :
          Become(u, IF q \in groups
                    THEN [r EXCEPT !.pc = "disband.delete", !.q = q, !.roster = Listed(q)]
                    ELSE ThenDisbandError([r EXCEPT !.q = q]))
    BY DEF DisbandList
<1>3. CASE q \in groups
    <2> DEFINE s == [r EXCEPT !.pc = "disband.delete", !.q = q, !.roster = Listed(q)]
    <2>1. s.pc = "disband.delete" /\ s.q = q
        BY <1>1 DEF Request
    <2>2. Made(q)
        BY <1>3 DEF PairInv
    <2>3. PairOf(s)
        BY <2>1, <2>2 DEF PairOf
    <2>4. req' = [req EXCEPT ![u] = s]
        BY <1>2, <1>3 DEF Become
    <2>5. QED
        BY <1>1, <2>3, <2>4, PairFrame
<1>4. CASE q \notin groups
    <2>1. [r EXCEPT !.q = q] \in Request
        BY <1>1, <1>2 DEF Request
    <2>2. Tamed(u)
        BY <1>2, <1>4, <2>1, ThenDisbandedTame DEF Tamed, Become
    <2>3. QED
        BY <1>1, <2>2, TamedPair
<1>5. QED
    BY <1>3, <1>4

LEMMA DisbandRowsPair ==
    ASSUME ReqOK, StoreOK, PairInv, NEW u \in Users, DisbandRows(u)
    PROVE  PairInv'
<1> DEFINE r == req[u]
           s == [r EXCEPT !.pc = "disband.code"]
<1>1. r \in Request /\ UNCHANGED pairVars /\ req' = [req EXCEPT ![u] = s]
    BY FieldType DEF DisbandRows, pairVars, groupVars, codeVars, Goto, Become
<1>2. s.pc = "disband.code" /\ s.q = r.q
    BY <1>1 DEF Request
<1>3. Dead(r.q)
    BY DEF DisbandRows, At, PairInv, PairOf
<1>4. PairOf(s)
    BY <1>2, <1>3 DEF PairOf
<1>5. QED
    BY <1>1, <1>4, PairFrame

LEMMA DisbandCodePair ==
    ASSUME ReqOK, StoreOK, PairInv, NEW u \in Users, DisbandCode(u)
    PROVE  PairInv'
<1> DEFINE r == req[u]
           c == reverse[r.q]
           s == [r EXCEPT !.pc = "disband.codeRows", !.c = c]
<1>1. r \in Request /\ UNCHANGED pairVars
    BY FieldType DEF DisbandCode, pairVars, groupVars, rowVars
<1>2. Dead(r.q)
    BY DEF DisbandCode, At, PairInv, PairOf
<1>3. CASE c = None
    <2>1. Become(u, ThenDisbanded(r))
        BY <1>3 DEF DisbandCode
    <2>2. Tamed(u)
        BY <1>1, <2>1, ThenDisbandedTame DEF Tamed, Become
    <2>3. QED
        BY <1>1, <2>2, TamedPair
<1>4. CASE c # None
    <2>1. req' = [req EXCEPT ![u] = s]
        BY <1>4 DEF DisbandCode, Become
    <2>2. s.pc = "disband.codeRows" /\ s.q = r.q /\ s.c = c
        BY <1>1 DEF Request
    <2>3. Leads(c, r.q)
        BY <1>2, <1>4 DEF PairInv, Dead, Made
    <2>4. PairOf(s)
        BY <1>2, <2>2, <2>3 DEF PairOf
    <2>5. QED
        BY <1>1, <2>1, <2>4, PairFrame
<1>5. QED
    BY <1>3, <1>4

LEMMA CodeGroupPair ==
    ASSUME ReqOK, StoreOK, PairInv, NEW u \in Users, CodeGroup(u)
    PROVE  PairInv'
<1> DEFINE r == req[u]
           s == [r EXCEPT !.pc = "code.stale"]
<1>1. r \in Request /\ UNCHANGED pairVars
    BY FieldType DEF CodeGroup, pairVars, groupVars, rowVars
<1>2. CASE r.p \notin groups
    <2>1. req' = [req EXCEPT ![u] = s]
        BY <1>2 DEF CodeGroup, Goto, Become
    <2>2. s.pc = "code.stale" /\ s.p = r.p /\ s.c = r.c
        BY <1>1 DEF Request
    <2>3. Made(r.p) /\ Leads(r.c, r.p)
        BY DEF CodeGroup, At, PairInv, PairOf
    <2>4. PairOf(s)
        BY <1>2, <2>2, <2>3 DEF PairOf, Dead
    <2>5. QED
        BY <1>1, <2>1, <2>4, PairFrame
<1>3. CASE r.p \in groups
    <2>1. Check(u, HasRoom(r.p), "code.roster") /\ "code.roster" \in Labels \ Coded
        BY <1>3, PlainTame DEF CodeGroup, PlainLabels
    <2>2. Tamed(u)
        BY <2>1, CheckTamed
    <2>3. QED
        BY <1>1, <2>2, TamedPair
<1>4. QED
    BY <1>2, <1>3

LEMMA GetCodeReadPair ==
    ASSUME ReqOK, StoreOK, PairInv, NEW u \in Users, GetCodeRead(u)
    PROVE  PairInv'
<1> DEFINE r == req[u]
           s == [r EXCEPT !.pc = "getCode.forward"]
<1>1. r \in Request /\ UNCHANGED pairVars
    BY FieldType DEF GetCodeRead, pairVars, groupVars, rowVars
<1>2. CASE Finish(u)
    BY <1>1, <1>2, FinishTamed, TamedPair
<1>3. CASE req' = [req EXCEPT ![u] = s]
    <2>1. s.pc = "getCode.forward" /\ s.p = r.p
        BY <1>1 DEF Request
    <2>2. Made(r.p)
        BY DEF GetCodeRead, At, PairInv, PairOf
    <2>3. PairOf(s)
        BY <2>1, <2>2 DEF PairOf
    <2>4. QED
        BY <1>1, <1>3, <2>3, PairFrame
<1>4. QED
    BY <1>2, <1>3 DEF GetCodeRead, Check, Goto, Become

-----------------------------------------------------------------------------
(* The calls that write groups or codes. *)

(* A group ends. *)
LEMMA DisbandDeletePair ==
    ASSUME ReqOK, StoreOK, PairInv, NEW u \in Users, DisbandDelete(u)
    PROVE  PairInv'
<1> DEFINE r == req[u]
           s == [r EXCEPT !.pc = "disband.rows"]
<1>1. r \in Request /\ Made(r.q) /\ UNCHANGED <<creator, forward, reverse>>
    BY FieldType DEF DisbandDelete, rowVars, At, PairInv, PairOf
<1>2. CASE r.q \notin groups
    <2>1. Become(u, ThenDisbandError(r)) /\ UNCHANGED groups
        BY <1>2 DEF DisbandDelete
    <2>2. Tamed(u) /\ UNCHANGED pairVars
        BY <1>1, <2>1, ThenDisbandedTame DEF Tamed, Become, pairVars
    <2>3. QED
        BY <2>2, TamedPair
<1>3. CASE r.q \in groups
    <2>1. groups' = groups \ {r.q} /\ req' = [req EXCEPT ![u] = s]
        BY <1>3 DEF DisbandDelete, Goto, Become
    <2>2. s.pc = "disband.rows" /\ s.q = r.q
        BY <1>1 DEF Request
    <2>3. Dead(r.q)'
        BY <1>1, <2>1 DEF Dead, Made
    <2>4. \A v \in Users : req'[v] = IF v = u THEN s ELSE req[v]
        BY <2>1 DEF ReqOK
    <2>5. ASSUME NEW t, PairOf(t)
          PROVE  PairOf(t)'
        BY <1>1, <2>1, <2>5 DEF PairOf, Made, Dead, Leads
    <2>6. ASSUME NEW v \in Users
          PROVE  PairOf(req[v])'
        <3>1. CASE v = u
            BY <2>2, <2>3, <2>4, <3>1 DEF PairOf
        <3>2. CASE v # u
            <4>1. PairOf(req[v]) /\ req'[v] = req[v]
                BY <2>4, <3>2 DEF PairInv
            <4>2. QED
                BY <1>1, <2>1, <4>1 DEF PairOf, Made, Dead, Leads
        <3>3. QED
            BY <3>1, <3>2
    <2>7. CodeLeadsToParty'
        BY <1>1, <2>1 DEF PairInv, CodeLeadsToParty
    <2>8. QED
        BY <1>1, <2>1, <2>6, <2>7 DEF PairInv, Made, Leads
<1>4. QED
    BY <1>2, <1>3

(* A group begins, with an id no code was ever written for. *)
LEMMA CreateCommitPair ==
    ASSUME ReqOK, StoreOK, PairInv, NEW u \in Users, CreateCommit(u)
    PROVE  PairInv'
<1>1. UNCHANGED <<forward, reverse>> /\ req' = [req EXCEPT ![u] = Idle]
    BY DEF CreateCommit, rowVars, Finish, Become
<1>2. PICK p \in Parties :
          /\ creator[p] = None /\ creator' = [creator EXCEPT ![p] = u]
          /\ groups' = groups \cup {p}
    BY DEF CreateCommit
<1>3. \A q : (Made(q) => Made(q)' /\ q # p) /\ (Dead(q) => Dead(q)') /\ (Made(p)')
    BY <1>2, NoneIsNobody DEF StoreOK, Made, Dead
<1>4. \A v \in Users : req'[v] = IF v = u THEN Idle ELSE req[v]
    BY <1>1 DEF ReqOK
<1>5. ASSUME NEW v \in Users
      PROVE  PairOf(req[v])'
    <2>1. CASE v = u
        BY <1>4, <2>1 DEF PairOf, Idle
    <2>2. CASE v # u
        <3>1. PairOf(req[v]) /\ req'[v] = req[v]
            BY <1>4, <2>2 DEF PairInv
        <3>2. QED
            BY <1>1, <1>2, <1>3, <3>1 DEF PairOf, Leads
    <2>3. QED
        BY <2>1, <2>2
<1>6. CodeLeadsToParty'
    <2>1. reverse[p] = None
        BY <1>2, <1>3 DEF PairInv
    <2>2. QED
        BY <1>1, <1>2, <2>1 DEF PairInv, CodeLeadsToParty
<1>7. QED
    BY <1>1, <1>2, <1>3, <1>5, <1>6 DEF PairInv, Leads

(* Both rows of a pair go, for a party that is gone. *)
LEMMA DeletePairKeeps ==
    ASSUME ReqOK, StoreOK, PairInv, NEW u \in Users, NEW c, NEW p, Dead(p), Leads(c, p),
           DeleteCodePair(c, p), UNCHANGED <<groups, creator>>, Tamed(u)
    PROVE  PairInv'
<1>1. PICK s : req' = [req EXCEPT ![u] = s] /\ s.pc \notin Coded
    BY DEF Tamed
<1>2. \A v \in Users : req'[v] = IF v = u THEN s ELSE req[v]
    BY <1>1 DEF ReqOK
<1>3. /\ p \in Parties /\ p \notin groups /\ p # None /\ c \in Codes
      /\ forward[c] \in {p, None}
    BY NoneIsNobody DEF Dead, Made, Leads
<1>4. /\ \A d \in Codes : forward'[d] = IF d = c THEN None ELSE forward[d]
      /\ \A q \in Parties : reverse'[q] = IF q = p THEN None ELSE reverse[q]
    BY DEF DeleteCodePair, StoreOK
<1>5. /\ \A d, q : Leads(d, q) => Leads(d, q)'
      /\ \A q : (Made(q)' <=> Made(q)) /\ (Dead(q)' <=> Dead(q))
    BY <1>4 DEF Leads, Made, Dead
<1>6. ASSUME NEW d \in Codes, forward[d] \in groups
      PROVE  forward'[d] = forward[d]
    BY <1>3, <1>4, <1>6 DEF PairInv, StoreOK
<1>7. ASSUME NEW v \in Users
      PROVE  PairOf(req[v])'
    <2>1. CASE v = u
        BY <1>1, <1>2, <2>1 DEF PairOf, Coded
    <2>2. CASE v # u
        <3>1. PairOf(req[v]) /\ req'[v] = req[v]
            BY <1>2, <2>2 DEF PairInv
        <3>2. ASSUME req[v].pc = "getCode.reverse", req[v].p \in groups
              PROVE  forward'[req[v].c] = req[v].p
            BY <1>6, <3>1, <3>2 DEF PairOf, Leads
        <3>3. QED
            BY <1>5, <3>1, <3>2 DEF PairOf
    <2>3. QED
        BY <2>1, <2>2
<1>8. CodeLeadsToParty'
    <2>1. ASSUME NEW q \in groups, reverse'[q] # None
          PROVE  forward'[reverse'[q]] = q
        <3>1. q \in Parties /\ reverse'[q] = reverse[q]
            BY <1>3, <1>4, <2>1 DEF StoreOK
        <3>2. reverse[q] \in Codes /\ forward[reverse[q]] = q
            BY <2>1, <3>1 DEF PairInv, CodeLeadsToParty, Leads
        <3>3. QED
            BY <1>6, <3>1, <3>2
    <2>2. QED
        BY <2>1 DEF CodeLeadsToParty
<1>9. QED
    BY <1>4, <1>5, <1>7, <1>8 DEF PairInv

LEMMA DeletionsPair ==
    ASSUME ReqOK, StoreOK, PairInv, NEW u \in Users, CodeStale(u) \/ DisbandCodeRows(u)
    PROVE  PairInv'
<1>1. CASE CodeStale(u)
    <2>1. Tamed(u) /\ UNCHANGED <<groups, creator>>
        BY <1>1, FinishTamed DEF CodeStale, groupVars
    <2>2. Dead(req[u].p) /\ Leads(req[u].c, req[u].p)
        BY <1>1 DEF CodeStale, At, PairInv, PairOf
    <2>3. QED
        BY <1>1, <2>1, <2>2, DeletePairKeeps DEF CodeStale
<1>2. CASE DisbandCodeRows(u)
    <2>1. Tamed(u) /\ UNCHANGED <<groups, creator>>
        BY <1>2, ReadingSteps DEF DisbandCodeRows, groupVars
    <2>2. Dead(req[u].q) /\ Leads(req[u].c, req[u].q)
        BY <1>2 DEF DisbandCodeRows, At, PairInv, PairOf
    <2>3. QED
        BY <1>2, <2>1, <2>2, DeletePairKeeps DEF DisbandCodeRows
<1>3. QED
    BY <1>1, <1>2

(* A drawn code is one that no row and no request names. *)
LEMMA GetCodeForwardPair ==
    ASSUME ReqOK, StoreOK, PairInv, NEW u \in Users, GetCodeForward(u)
    PROVE  PairInv'
<1> DEFINE r == req[u]
<1>1. r \in Request /\ UNCHANGED <<groups, creator, reverse>>
    BY FieldType DEF GetCodeForward, groupVars
<1>2. PICK c \in Codes :
          /\ Drawable(c) /\ forward[c] = None
          /\ forward' = [forward EXCEPT ![c] = r.p]
          /\ req' = [req EXCEPT ![u] = [r EXCEPT !.pc = "getCode.reverse", !.c = c]]
    BY DEF GetCodeForward, Become
<1> DEFINE s == [r EXCEPT !.pc = "getCode.reverse", !.c = c]
<1>3. s.pc = "getCode.reverse" /\ s.c = c /\ s.p = r.p
    BY <1>1 DEF Request
<1>4. \A v \in Users : req'[v] = IF v = u THEN s ELSE req[v]
    BY <1>2 DEF ReqOK
<1>5. Made(r.p)
    BY DEF GetCodeForward, At, PairInv, PairOf
<1>6. /\ \A d \in Codes : forward'[d] = IF d = c THEN r.p ELSE forward[d]
      /\ \A v \in Users : req[v].c # c
      /\ \A p \in Parties : reverse[p] # c
    BY <1>2 DEF StoreOK, Drawable
<1>7. /\ \A d, q : d # c /\ Leads(d, q) => Leads(d, q)'
      /\ \A q : (Made(q)' <=> Made(q)) /\ (Dead(q)' <=> Dead(q))
    BY <1>1, <1>6 DEF Leads, Made, Dead
<1>8. ASSUME NEW v \in Users
      PROVE  PairOf(req[v])'
    <2>1. CASE v = u
        <3>1. Made(r.p)' /\ Leads(c, r.p)' /\ forward'[c] = r.p
            BY <1>2, <1>5, <1>6, <1>7 DEF Leads
        <3>2. QED
            BY <1>3, <1>4, <2>1, <3>1 DEF PairOf
    <2>2. CASE v # u
        <3>1. PairOf(req[v]) /\ req'[v] = req[v] /\ req[v].c # c
            BY <1>4, <1>6, <2>2 DEF PairInv
        <3>2. ASSUME req[v].pc = "getCode.reverse", req[v].p \in groups
              PROVE  forward'[req[v].c] = req[v].p
            BY <1>6, <3>1, <3>2 DEF PairOf, Leads
        <3>3. QED
            BY <1>1, <1>7, <3>1, <3>2 DEF PairOf
    <2>3. QED
        BY <2>1, <2>2
<1>9. CodeLeadsToParty'
    <2>1. ASSUME NEW q \in groups, reverse[q] # None
          PROVE  forward'[reverse[q]] = q
        <3>1. q \in Parties
            BY <2>1 DEF StoreOK
        <3>2. reverse[q] \in Codes /\ reverse[q] # c /\ forward[reverse[q]] = q
            BY <1>6, <2>1, <3>1 DEF PairInv, CodeLeadsToParty, Leads
        <3>3. QED
            BY <1>6, <3>2
    <2>2. QED
        BY <1>1, <2>1 DEF CodeLeadsToParty
<1>10. ASSUME NEW d \in Codes, NEW q, q = forward'[d], q # None
       PROVE  Made(q)'
    BY <1>5, <1>6, <1>7, <1>10 DEF PairInv
<1>11. ASSUME NEW p \in Parties, NEW d, d = reverse'[p], d # None
       PROVE  Made(p)' /\ Leads(d, p)'
    BY <1>1, <1>6, <1>7, <1>11 DEF PairInv
<1>12. QED
    BY <1>1, <1>7, <1>8, <1>9, <1>10, <1>11 DEF PairInv

LEMMA GetCodeReversePair ==
    ASSUME ReqOK, StoreOK, PairInv, NEW u \in Users, GetCodeReverse(u)
    PROVE  PairInv'
<1> DEFINE r == req[u]
<1>1. /\ UNCHANGED <<groups, creator, forward>> /\ req' = [req EXCEPT ![u] = Idle]
      /\ reverse' = [reverse EXCEPT ![r.p] = r.c]
    BY DEF GetCodeReverse, groupVars, Finish, Become
<1>2. \A v \in Users : req'[v] = IF v = u THEN Idle ELSE req[v]
    BY <1>1 DEF ReqOK
<1>3. Made(r.p) /\ Leads(r.c, r.p) /\ (r.p \in groups => forward[r.c] = r.p)
    BY DEF GetCodeReverse, At, PairInv, PairOf
<1>4. \A q \in Parties : reverse'[q] = IF q = r.p THEN r.c ELSE reverse[q]
    BY <1>1 DEF StoreOK
<1>5. \A t : PairOf(t)' <=> PairOf(t)
    BY <1>1 DEF PairOf, Made, Dead, Leads
<1>6. ASSUME NEW v \in Users
      PROVE  PairOf(req[v])'
    <2>1. CASE v = u
        BY <1>2, <2>1 DEF PairOf, Idle
    <2>2. CASE v # u
        BY <1>1, <1>2, <2>2 DEF PairInv, PairOf, Made, Dead, Leads
    <2>3. QED
        BY <2>1, <2>2
<1>7. CodeLeadsToParty'
    BY <1>1, <1>3, <1>4 DEF PairInv, CodeLeadsToParty, StoreOK
<1>8. ASSUME NEW q \in Parties, NEW d, d = reverse'[q], d # None
      PROVE  Made(q)' /\ Leads(d, q)'
    BY <1>1, <1>3, <1>4, <1>8 DEF PairInv, Made, Leads
<1>9. QED
    BY <1>1, <1>6, <1>7, <1>8 DEF PairInv, Made

-----------------------------------------------------------------------------
(* Requests begin, fail and are lost. *)

LEMMA SendPair ==
    ASSUME ReqOK, StoreOK, PairInv, NEW u \in Users, Send(u)
    PROVE  PairInv'
<1>1. ASSUME NEW s, Begin(u, s), PairOf(s), UNCHANGED pairVars
      PROVE  PairInv'
    BY <1>1, PairFrame DEF Begin
<1>2. ASSUME NEW op, NEW pc, NEW p, NEW t, pc \notin Coded
      PROVE  PairOf(New(op, pc, p, t))
    BY <1>2, TamePair DEF New, Idle
<1>3. CASE Create(u)
    <2> DEFINE s == [New("create", "create.count", None, None)
                        EXCEPT !.solos = Memberships(u, None)]
    <2>1. s.pc \notin Coded
        BY DEF New, Idle, Coded
    <2>2. QED
        BY <1>1, <1>3, <2>1, TamePair DEF Create, pairVars, groupVars, rowVars
<1>4. ASSUME NEW c \in Codes, JoinByCode(u, c)
      PROVE  PairInv'
    <2> DEFINE s == [New("joinByCode", "code.group", forward[c], None) EXCEPT !.c = c]
    <2>1. s.pc = "code.group" /\ s.p = forward[c] /\ s.c = c
        BY DEF New, Idle
    <2>2. Made(forward[c]) /\ Leads(c, forward[c])
        BY <1>4 DEF JoinByCode, PairInv, Leads
    <2>3. PairOf(s)
        BY <2>1, <2>2 DEF PairOf
    <2>4. QED
        BY <1>1, <1>4, <2>3 DEF JoinByCode, pairVars, groupVars, rowVars
<1>5. ASSUME NEW p \in Parties, GetCode(u, p)
      PROVE  PairInv'
    <2> DEFINE s == New("getCode", "getCode.read", p, None)
    <2>1. s.pc = "getCode.read" /\ s.p = p
        BY DEF New, Idle
    <2>2. Made(p)
        BY <1>5 DEF GetCode, PairInv
    <2>3. PairOf(s)
        BY <2>1, <2>2 DEF PairOf
    <2>4. QED
        BY <1>1, <1>5, <2>3 DEF GetCode, pairVars, groupVars, rowVars
<1>6. ASSUME NEW p \in Parties, Disband(u, p)
      PROVE  PairInv'
    <2> DEFINE s == [New("disband", "idle", p, None) EXCEPT !.solos = {p}]
    <2>1. s \in Request
        BY <1>6 DEF New, Idle, Request, OpNames, Labels
    <2>2. PairOf(ThenSolos(s))
        BY <2>1, ThenSolosTame, TamePair
    <2>3. QED
        BY <1>1, <1>6, <2>2 DEF Disband, pairVars, groupVars, rowVars
<1>7. {"join.commit", "leave.rows", "ready.write", "settings.write", "start.roster",
       "abort.roster", "invite.roster", "add.target", "kick.roster", "transfer.roster"}
        \cap Coded = {}
    BY DEF Coded
<1>8. ASSUME NEW p \in Parties,
             \/ Join(u, p) \/ Leave(u, p) \/ SetReady(u, p, "ready") \/ SetReady(u, p, "unready")
             \/ SetSettings(u, p) \/ Start(u, p) \/ Abort(u, p)
      PROVE  PairInv'
    BY <1>1, <1>2, <1>7, <1>8
       DEF Join, Leave, SetReady, SetSettings, Start, Abort, pairVars, groupVars, rowVars
<1>9. ASSUME NEW p \in Parties, NEW t \in Users,
             Invite(u, p, t) \/ Add(u, p, t) \/ Kick(u, p, t) \/ Transfer(u, p, t)
      PROVE  PairInv'
    BY <1>1, <1>2, <1>7, <1>9
       DEF Invite, Add, Kick, Transfer, pairVars, groupVars, rowVars
<1>10. QED
    BY <1>3, <1>4, <1>5, <1>6, <1>8, <1>9 DEF Send

LEMMA CallErrorPair ==
    ASSUME ReqOK, StoreOK, PairInv, NEW u \in Users, CallError(u)
    PROVE  PairInv'
<1> DEFINE r == req[u]
<1>1. r \in Request /\ r.solos \subseteq Parties /\ UNCHANGED pairVars
    BY FieldType DEF CallError, pairVars, groupVars, rowVars
<1>2. PICK q \in (IF r.pc = "disband.list" THEN r.solos ELSE {r.q}) :
          Become(u, OnError([r EXCEPT !.q = q]))
    BY DEF CallError
<1> DEFINE s == [r EXCEPT !.q = q]
<1>3. s \in Request /\ s.pc = r.pc
    BY <1>1, <1>2 DEF Request
<1>4. CASE r.pc = "disband.rows"
    <2> DEFINE t == [s EXCEPT !.pc = "disband.code"]
    <2>1. OnError(s) = t
        BY <1>3, <1>4 DEF OnError
    <2>2. t.pc = "disband.code" /\ t.q = r.q
        BY <1>1, <1>2, <1>4 DEF Request
    <2>3. Dead(r.q)
        BY <1>4 DEF PairInv, PairOf
    <2>4. PairOf(t)
        BY <2>2, <2>3 DEF PairOf
    <2>5. QED
        BY <1>1, <1>2, <2>1, <2>4, PairFrame DEF Become
<1>5. CASE r.pc # "disband.rows"
    <2>1. /\ [s EXCEPT !.pc = "lead.resolve"].pc \notin Coded
          /\ [s EXCEPT !.pc = "clear.list"].pc \notin Coded
          /\ Idle.pc \notin Coded
        BY <1>3 DEF Request, Coded, Idle
    <2>2. OnError(s).pc \notin Coded
        BY <1>3, <1>5, <2>1, ThenDisbandedTame, ThenClearedTame DEF OnError
    <2>3. Tamed(u)
        BY <1>2, <2>2 DEF Tamed, Become
    <2>4. QED
        BY <1>1, <2>3, TamedPair
<1>6. QED
    BY <1>4, <1>5

LEMMA StepPair ==
    ASSUME ReqOK, StoreOK, PairInv, NEW u \in Users, Step(u)
    PROVE  PairInv'
<1>1. CASE \/ ClearList(u) \/ ClearDelete(u) \/ LeadResolve(u) \/ LeadRoster(u)
           \/ LeadPromote(u) \/ CreateCount(u) \/ JoinCount(u) \/ CodeCount(u)
           \/ InviteTarget(u) \/ JoinLanded(u) \/ CodeSolos(u) \/ StartRoster(u)
    <2>1. UNCHANGED pairVars
        BY <1>1 DEF ClearList, ClearDelete, LeadResolve, LeadRoster, LeadPromote, CreateCount,
                    JoinCount, CodeCount, InviteTarget, JoinLanded, CodeSolos, StartRoster,
                    pairVars, groupVars, rowVars, codeVars
    <2>2. QED
        BY <1>1, <2>1, ReadingSteps, TamedPair
<1>2. CASE \/ LeadWrite(u) \/ InviteAdd(u) \/ InviteRows(u) \/ AddTarget(u) \/ AddCommit(u)
           \/ CodeRoster(u) \/ CodeJoiner(u) \/ CodeAdd(u) \/ LeaveRows(u) \/ KickRoster(u)
           \/ KickCommit(u) \/ KickRows(u) \/ TransferRoster(u) \/ TransferWrite(u)
           \/ TransferPromote(u) \/ ReadyWrite(u) \/ SettingsWrite(u) \/ GetCodeExhausted(u)
           \/ StartGuard(u) \/ AbortRoster(u) \/ InviteRoster(u) \/ StartReady(u) \/ JoinCommit(u)
    BY <1>2, PlainSteps, TamedPair
<1>3. QED
    BY <1>1, <1>2, DisbandListPair, DisbandDeletePair, DisbandRowsPair, DisbandCodePair,
       CodeGroupPair, GetCodeReadPair, CreateCommitPair, DeletionsPair, GetCodeForwardPair,
       GetCodeReversePair DEF Step

LEMMA PairNext ==
    ASSUME ReqOK, StoreOK, PairInv, [Next]_vars
    PROVE  PairInv'
<1>1. CASE \E p \in Parties : GuardExpire(p)
    BY <1>1 DEF GuardExpire, groupVars, rowVars, PairInv, PairOf, Made, Dead, Leads,
                CodeLeadsToParty
<1>2. CASE RuntimeRestart
    <2>1. UNCHANGED pairVars /\ \A u \in Users : req'[u] = Idle
        BY <1>2 DEF RuntimeRestart, pairVars, groupVars, rowVars
    <2>2. \A u \in Users : PairOf(req[u])'
        BY <2>1 DEF PairOf, Idle
    <2>3. QED
        BY <2>1, <2>2 DEF pairVars, PairInv, Made, Leads, CodeLeadsToParty
<1>3. CASE UNCHANGED vars
    BY <1>3 DEF vars, PairInv, PairOf, Made, Dead, Leads, CodeLeadsToParty
<1>4. QED
    BY <1>1, <1>2, <1>3, StepPair, SendPair, CallErrorPair DEF Next

(* The code that a live party hands out leads back to it, at every moment,   *)
(* for any number of players, parties and codes, whatever requests overlap,  *)
(* fail half-way or are cut short by a restart: deleteStalePartyInviteCode   *)
(* and disbandPartyGroup never take the pair of another party.               *)
THEOREM CodeLeads == Spec => []CodeLeadsToParty
<1>1. Init => PairInv
    BY DEF Init, PairInv, PairOf, Idle, CodeLeadsToParty
<1>2. ReqOK /\ StoreOK /\ PairInv /\ [Next]_vars => PairInv'
    BY PairNext
<1>3. PairInv => CodeLeadsToParty
    BY DEF PairInv
<1>4. QED
    BY <1>1, <1>2, <1>3, Typed, PTL DEF Spec

-----------------------------------------------------------------------------
(* The kinds of requests, and the calls each of them makes. *)

Leading == {"lead.resolve", "lead.roster", "lead.write", "lead.promote"}
Clearing == {"clear.list", "clear.delete"}
Ending == {"disband.rows", "disband.code", "disband.codeRows"}
Moving == {"join", "joinByCode"}

(* Which kind of request makes a call. *)
Kinds(r) ==
    /\ r.op = "idle" <=> r.pc = "idle"
    /\ r.pc \in {"create.count", "create.commit"} => r.op = "create"
    /\ r.pc \in {"join.commit", "join.landed", "join.count"} => r.op = "join"
    /\ r.pc \in {"code.group", "code.roster", "code.joiner", "code.add", "code.solos",
                 "code.count"} => r.op = "joinByCode"
    /\ r.pc \in {"disband.list"} \cup Disbanding => r.op \in Moving \cup {"create", "disband"}
    /\ r.pc \in Clearing => r.op \in Moving \cup {"start"}
    /\ r.pc \in {"kick.roster", "kick.commit", "kick.rows"} => r.op = "kick"
    /\ r.pc = "leave.rows" => r.op = "leave"
    /\ r.pc \in Leading => r.op \in {"leave", "kick"}
    /\ r.pc \in BeforeGuard => r.op = "start"

Departing == {"leave.rows", "kick.roster", "kick.commit", "kick.rows"} \cup Leading

(* A join that has still to clear the ready rows of its party. *)
Resets(r) ==
    \/ r.op \in Moving /\ r.pc \in Clearing
    \/ r.pc \in {"code.solos", "code.count"}
    \/ r.op = "joinByCode" /\ r.pc \in {"disband.list"} \cup Disbanding

(* Members stay until their party goes, and every ready row is a member's. *)
Kept ==
    /\ \A u \in Users : Kinds(req[u]) /\ req[u].pc \notin Departing
    /\ \A p \in groups : creator[p] # None /\ ready[p] \subseteq Active(p)
    /\ \A p \in Parties : creator[p] = None => ready[p] = {}
    /\ \A p \in Parties \ groups : \A v \in Users : edge[p][v] = "none"
    /\ \A u \in Users : At(u, "ready.write") =>
          /\ req[u].p \in Parties /\ creator[req[u].p] # None
          /\ req[u].p \in groups => u \in Active(req[u].p)

(* Nobody is ready before the join has cleared the rows; a row from before   *)
(* the join is one that it will clear.                                       *)
Unready == \A u \in Users : Resets(req[u]) /\ req[u].p \in groups => u \notin ready[req[u].p]

Owing(r, m) == Resets(r) /\ (r.pc = "clear.delete" => m \in r.roster)

Staled ==
    \A p \in Parties, m, j \in Users :
        <<m, j>> \in stale[p] =>
           m \in ready[p] /\ j \in Active(p) /\ req[j].p = p /\ Owing(req[j], m)

(* The flags a start counted are cleared before the next one reads them. *)
Clears(r, p, m) == r.p = p /\ r.pc \in Clearing /\ (r.pc = "clear.delete" => m \in r.roster)

Spent ==
    /\ \A p \in Parties \ guard :
          \/ spent[p] \cap ready[p] = {}
          \/ p \notin groups /\ \A u \in Users : ~(At(u, "start.ready") /\ req[u].p = p)
    /\ \A u \in Users : At(u, "start.guard") /\ req[u].p \notin guard =>
          req[u].roster \cap spent[req[u].p] = {}
    /\ \A p \in guard \cap groups : \A m \in spent[p] \cap ready[p] :
          \E v \in Users : Clears(req[v], p, m)

-----------------------------------------------------------------------------
(* What the helpers make of a request, field by field. *)

(* s is r, gone on to pc with the parties in solos. *)
Goes(r, s, pc, solos) ==
    /\ s.op = r.op /\ s.pc = pc /\ s.p = r.p /\ s.t = r.t /\ s.solos = solos

(* s is r at pc, all else as it was. *)
Same(r, s, pc) ==
    /\ Goes(r, s, pc, r.solos)
    /\ s.next = r.next /\ s.c = r.c /\ s.roster = r.roster /\ s.q = r.q

Solos(r, s, solos) ==
    \/ solos # {} /\ Goes(r, s, "disband.list", solos)
    \/ solos = {} /\ r.op = "create" /\ Goes(r, s, "create.commit", {})
    \/ solos = {} /\ r.op = "joinByCode" /\ Goes(r, s, "clear.list", {})
    \/ solos = {} /\ r.op \notin {"create", "joinByCode"} /\ s = Idle

(* The request of u becomes s, and no other moves. *)
Turns(u, s) == req'[u] = s /\ \A v \in Users \ {u} : req'[v] = req[v]

LEMMA IdleFields ==
    /\ Idle.op = "idle" /\ Idle.pc = "idle" /\ Idle.p = None /\ Idle.t = None
    /\ Idle.next = None /\ Idle.c = None /\ Idle.roster = {} /\ Idle.solos = {}
    /\ Idle.q = None
BY DEF Idle

LEMMA PcFields ==
    ASSUME NEW r \in Request, NEW pc
    PROVE  Same(r, [r EXCEPT !.pc = pc], pc)
BY DEF Same, Goes, Request

LEMMA NewFields ==
    ASSUME NEW op, NEW pc, NEW p, NEW t
    PROVE  LET s == New(op, pc, p, t) IN
           /\ s.op = op /\ s.pc = pc /\ s.p = p /\ s.t = t /\ s.solos = {}
           /\ s.next = None /\ s.c = None /\ s.roster = {} /\ s.q = None
BY DEF New, Idle

LEMMA ThenSolosFields ==
    ASSUME NEW r \in Request
    PROVE  Solos(r, ThenSolos(r), r.solos)
<1>1. CASE r.solos # {}
    BY <1>1, PcFields DEF Same, Solos, ThenSolos
<1>2. CASE r.solos = {} /\ r.op = "create"
    BY <1>2, PcFields DEF Same, Solos, ThenSolos
<1>3. CASE r.solos = {} /\ r.op = "joinByCode"
    BY <1>3, PcFields DEF Same, Solos, ThenSolos
<1>4. CASE r.solos = {} /\ r.op \notin {"create", "joinByCode"}
    BY <1>4 DEF Solos, ThenSolos
<1>5. QED
    BY <1>1, <1>2, <1>3, <1>4

LEMMA ThenDisbandedFields ==
    ASSUME NEW r \in Request
    PROVE  Solos(r, ThenDisbanded(r), r.solos \ {r.q})
<1> DEFINE m == [r EXCEPT !.solos = @ \ {r.q}, !.q = None, !.c = None, !.roster = {}]
<1>1. m \in Request /\ m.op = r.op /\ m.p = r.p /\ m.t = r.t /\ m.solos = r.solos \ {r.q}
    BY DEF Request
<1>2. Solos(m, ThenSolos(m), m.solos)
    BY <1>1, ThenSolosFields
<1>3. QED
    BY <1>1, <1>2 DEF Solos, Goes, ThenDisbanded

LEMMA ThenClearedFields ==
    ASSUME NEW r \in Request
    PROVE  LET s == ThenCleared(r) IN
           \/ r.op = "join" /\ Goes(r, s, "join.landed", r.solos)
           \/ r.op # "join" /\ s = Idle
BY DEF ThenCleared, Goes, Request

LEMMA ThenTransferredFields ==
    ASSUME NEW r \in Request
    PROVE  LET s == ThenTransferred(r) IN
           \/ r.op = "kick" /\ Goes(r, s, "kick.rows", r.solos)
           \/ r.op # "kick" /\ s = Idle
BY DEF ThenTransferred, Goes, Request

LEMMA BecomeTurns ==
    ASSUME ReqOK, NEW u \in Users, NEW s, Become(u, s)
    PROVE  Turns(u, s)
BY DEF ReqOK, Become, Turns

LEMMA GotoTurns ==
    ASSUME ReqOK, NEW u \in Users, NEW pc, Goto(u, pc)
    PROVE  Turns(u, req'[u]) /\ Same(req[u], req'[u], pc)
BY BecomeTurns, PcFields, FieldType DEF Goto, Turns

LEMMA FinishTurns ==
    ASSUME ReqOK, NEW u \in Users, Finish(u)
    PROVE  Turns(u, Idle)
BY BecomeTurns DEF Finish

LEMMA CheckTurns ==
    ASSUME ReqOK, NEW u \in Users, NEW ok, NEW pc, Check(u, ok, pc)
    PROVE  \/ ok /\ Turns(u, req'[u]) /\ Same(req[u], req'[u], pc)
           \/ ~ok /\ Turns(u, Idle)
BY GotoTurns, FinishTurns DEF Check

LEMMA BeginTurns ==
    ASSUME ReqOK, NEW u \in Users, NEW s, Begin(u, s)
    PROVE  Turns(u, s) /\ s.op \in Ops /\ req[u].pc = "idle"
BY DEF ReqOK, Begin, Turns

(* What the calls that set more than the label make of a request. *)

LEMMA DisbandListTurns ==
    ASSUME ReqOK, NEW u \in Users, DisbandList(u)
    PROVE  \E q \in req[u].solos :
              LET s == req'[u] IN
              /\ Turns(u, s) /\ q \in Parties
              /\ \/ /\ q \in groups /\ Goes(req[u], s, "disband.delete", req[u].solos)
                    /\ s.q = q /\ s.roster = Listed(q)
                 \/ q \notin groups /\ req[u].op = "create" /\ s = Idle
                 \/ q \notin groups /\ Solos(req[u], s, req[u].solos \ {q})
<1> DEFINE r == req[u]
<1>1. r \in Request /\ r.solos \subseteq Parties
    BY FieldType
<1>2. PICK q \in r.solos :
          Become(u, IF q \in groups
                    THEN [r EXCEPT !.pc = "disband.delete", !.q = q, !.roster = Listed(q)]
                    ELSE ThenDisbandError([r EXCEPT !.q = q]))
    BY DEF DisbandList
<1> DEFINE m == [r EXCEPT !.q = q]
           d == [r EXCEPT !.pc = "disband.delete", !.q = q, !.roster = Listed(q)]
<1>3. m \in Request /\ m.op = r.op /\ m.p = r.p /\ m.t = r.t /\ m.solos = r.solos /\ m.q = q
    BY <1>1, <1>2 DEF Request
<1>4. Goes(r, d, "disband.delete", r.solos) /\ d.q = q /\ d.roster = Listed(q)
    BY <1>1 DEF Goes, Request
<1>5. CASE q \in groups
    <2>1. Turns(u, d)
        BY <1>2, <1>5, BecomeTurns
    <2>2. QED
        BY <1>1, <1>2, <1>4, <1>5, <2>1 DEF Turns
<1>6. CASE q \notin groups
    <2>1. Turns(u, ThenDisbandError(m))
        BY <1>2, <1>6, BecomeTurns
    <2>2. Solos(m, ThenDisbanded(m), r.solos \ {q})
        BY <1>3, ThenDisbandedFields
    <2>3. Solos(r, ThenDisbanded(m), r.solos \ {q})
        BY <1>3, <2>2 DEF Solos, Goes
    <2>4. QED
        BY <1>1, <1>2, <1>3, <1>6, <2>1, <2>3 DEF ThenDisbandError, Turns
<1>7. QED
    BY <1>5, <1>6

LEMMA DisbandDeleteTurns ==
    ASSUME ReqOK, NEW u \in Users, DisbandDelete(u)
    PROVE  LET s == req'[u]
               r == req[u] IN
           /\ Turns(u, s)
           /\ \/ r.q \in groups /\ Same(r, s, "disband.rows")
              \/ r.q \notin groups /\ r.op = "create" /\ s = Idle
              \/ r.q \notin groups /\ Solos(r, s, r.solos \ {r.q})
<1>1. CASE req[u].q \in groups
    BY <1>1, GotoTurns DEF DisbandDelete
<1>2. CASE req[u].q \notin groups
    BY <1>2, BecomeTurns, ThenDisbandedFields, FieldType
       DEF DisbandDelete, ThenDisbandError, Turns
<1>3. QED
    BY <1>1, <1>2

LEMMA DisbandCodeTurns ==
    ASSUME ReqOK, NEW u \in Users, DisbandCode(u)
    PROVE  LET s == req'[u]
               r == req[u] IN
           /\ Turns(u, s)
           /\ \/ reverse[r.q] = None /\ Solos(r, s, r.solos \ {r.q})
              \/ /\ reverse[r.q] # None /\ Goes(r, s, "disband.codeRows", r.solos)
                 /\ s.c = reverse[r.q] /\ s.q = r.q
<1> DEFINE r == req[u]
           d == [r EXCEPT !.pc = "disband.codeRows", !.c = reverse[r.q]]
<1>1. r \in Request
    BY FieldType
<1>2. Goes(r, d, "disband.codeRows", r.solos) /\ d.c = reverse[r.q] /\ d.q = r.q
    BY <1>1 DEF Goes, Request
<1>3. Become(u, IF reverse[r.q] = None THEN ThenDisbanded(r) ELSE d)
    BY DEF DisbandCode
<1>4. CASE reverse[r.q] = None
    BY <1>1, <1>3, <1>4, BecomeTurns, ThenDisbandedFields DEF Turns
<1>5. CASE reverse[r.q] # None
    <2>1. Turns(u, d)
        BY <1>3, <1>5, BecomeTurns
    <2>2. QED
        BY <1>2, <1>5, <2>1 DEF Turns
<1>6. QED
    BY <1>4, <1>5

LEMMA DisbandCodeRowsTurns ==
    ASSUME ReqOK, NEW u \in Users, DisbandCodeRows(u)
    PROVE  Turns(u, req'[u]) /\ Solos(req[u], req'[u], req[u].solos \ {req[u].q})
BY BecomeTurns, ThenDisbandedFields, FieldType DEF DisbandCodeRows, Turns

LEMMA ClearListTurns ==
    ASSUME ReqOK, NEW u \in Users, ClearList(u)
    PROVE  LET s == req'[u]
               r == req[u] IN
           Turns(u, s) /\ Goes(r, s, "clear.delete", r.solos) /\ s.roster = Listed(r.p)
<1> DEFINE r == req[u]
           d == [r EXCEPT !.pc = "clear.delete", !.roster = Listed(r.p)]
<1>1. r \in Request
    BY FieldType
<1>2. Goes(r, d, "clear.delete", r.solos) /\ d.roster = Listed(r.p)
    BY <1>1 DEF Goes, Request
<1>3. QED
    BY <1>2, BecomeTurns DEF ClearList, Turns

LEMMA ClearDeleteTurns ==
    ASSUME ReqOK, NEW u \in Users, ClearDelete(u)
    PROVE  LET s == req'[u]
               r == req[u] IN
           /\ Turns(u, s)
           /\ \/ r.op = "join" /\ Goes(r, s, "join.landed", r.solos)
              \/ r.op # "join" /\ s = Idle
BY BecomeTurns, ThenClearedFields, FieldType DEF ClearDelete, Turns

(* A helper's count keeps the parties of one member. *)
LEMMA CountTurns ==
    ASSUME ReqOK, NEW u \in Users,
           Become(u, ThenSolos([req[u] EXCEPT !.solos = SoloParties(@)]))
    PROVE  Turns(u, req'[u]) /\ Solos(req[u], req'[u], SoloParties(req[u].solos))
<1> DEFINE r == req[u]
           m == [r EXCEPT !.solos = SoloParties(@)]
<1>1. r \in Request /\ SoloParties(r.solos) \subseteq Parties
    BY FieldType DEF SoloParties
<1>2. m \in Request /\ m.op = r.op /\ m.p = r.p /\ m.t = r.t /\ m.solos = SoloParties(r.solos)
    BY <1>1 DEF Request
<1>3. Solos(m, ThenSolos(m), m.solos)
    BY <1>2, ThenSolosFields
<1>4. Turns(u, ThenSolos(m))
    BY BecomeTurns
<1>5. QED
    BY <1>2, <1>3, <1>4 DEF Solos, Goes, Turns

LEMMA CreateCountTurns ==
    ASSUME ReqOK, NEW u \in Users, CreateCount(u)
    PROVE  LET s == req'[u]
               r == req[u] IN
           /\ Turns(u, s)
           /\ \/ s = Idle
              \/ SharedParties(r.solos) = {} /\ Solos(r, s, SoloParties(r.solos))
<1>1. CASE SharedParties(req[u].solos) = {}
    BY <1>1, CountTurns DEF CreateCount
<1>2. CASE SharedParties(req[u].solos) # {}
    BY <1>2, BecomeTurns DEF CreateCount, Turns
<1>3. QED
    BY <1>1, <1>2

LEMMA LeadResolveTurns ==
    ASSUME ReqOK, NEW u \in Users, LeadResolve(u)
    PROVE  LET s == req'[u]
               r == req[u] IN
           /\ Turns(u, s)
           /\ \/ r.p \in groups /\ ResolveLeader(r.p) = r.t /\ Same(r, s, "lead.roster")
              \/ /\ ~(r.p \in groups /\ ResolveLeader(r.p) = r.t)
                 /\ \/ r.op = "kick" /\ Goes(r, s, "kick.rows", r.solos)
                    \/ r.op # "kick" /\ s = Idle
<1> DEFINE r == req[u]
<1>1. r \in Request
    BY FieldType
<1>2. CASE r.p \in groups /\ ResolveLeader(r.p) = r.t
    BY <1>1, <1>2, BecomeTurns, PcFields DEF LeadResolve, Turns
<1>3. CASE ~(r.p \in groups /\ ResolveLeader(r.p) = r.t)
    BY <1>1, <1>3, BecomeTurns, ThenTransferredFields DEF LeadResolve, Turns
<1>4. QED
    BY <1>2, <1>3

LEMMA LeadRosterTurns ==
    ASSUME ReqOK, NEW u \in Users, LeadRoster(u)
    PROVE  LET s == req'[u]
               r == req[u] IN
           /\ Turns(u, s)
           /\ \/ /\ \/ r.p \notin groups /\ leader' = leader
                    \/ /\ r.p \in groups /\ Active(r.p) \ {r.t} = {}
                       /\ leader' = [leader EXCEPT ![r.p] = None]
                 /\ \/ r.op = "kick" /\ Goes(r, s, "kick.rows", r.solos)
                    \/ r.op # "kick" /\ s = Idle
              \/ /\ leader' = leader /\ s.next \in Active(r.p) \ {r.t}
                 /\ Goes(r, s, "lead.write", r.solos)
<1> DEFINE r == req[u]
<1>1. r \in Request
    BY FieldType
<1>2. CASE r.p \notin groups /\ Become(u, ThenTransferred(r)) /\ UNCHANGED leader
    BY <1>1, <1>2, BecomeTurns, ThenTransferredFields DEF Turns
<1>3. ASSUME NEW v \in Active(r.p) \ {r.t}, UNCHANGED leader,
             Become(u, [r EXCEPT !.pc = "lead.write", !.next = v])
      PROVE  /\ Turns(u, req'[u]) /\ leader' = leader /\ req'[u].next \in Active(r.p) \ {r.t}
             /\ Goes(r, req'[u], "lead.write", r.solos)
    <2> DEFINE d == [r EXCEPT !.pc = "lead.write", !.next = v]
    <2>1. d.next = v
        BY <1>1 DEF Request
    <2>2. Goes(r, d, "lead.write", r.solos)
        BY <1>1 DEF Goes, Request
    <2>3. Become(u, d)
        BY <1>3
    <2> HIDE DEF d
    <2>4. QED
        BY <1>3, <2>1, <2>2, <2>3, BecomeTurns DEF Turns
<1>4. CASE r.p \in groups /\ Active(r.p) \ {r.t} = {} /\ Become(u, ThenTransferred(r))
             /\ leader' = [leader EXCEPT ![r.p] = None]
    BY <1>1, <1>4, BecomeTurns, ThenTransferredFields DEF Turns
<1>5. QED
    BY <1>2, <1>3, <1>4 DEF LeadRoster

LEMMA LeadPromoteTurns ==
    ASSUME ReqOK, NEW u \in Users, LeadPromote(u)
    PROVE  LET s == req'[u]
               r == req[u] IN
           /\ Turns(u, s)
           /\ \/ r.op = "kick" /\ Goes(r, s, "kick.rows", r.solos)
              \/ r.op # "kick" /\ s = Idle
BY BecomeTurns, ThenTransferredFields, FieldType DEF LeadPromote, Turns

LEMMA InviteTargetTurns ==
    ASSUME ReqOK, NEW u \in Users, InviteTarget(u)
    PROVE  LET s == req'[u]
               r == req[u] IN
           Turns(u, s) /\ (s = Idle \/ Goes(r, s, "invite.add", r.solos))
<1> DEFINE r == req[u]
           d == [r EXCEPT !.pc = "invite.add", !.next = ResolveLeader(r.p)]
<1>1. Goes(r, d, "invite.add", r.solos)
    BY FieldType DEF Goes, Request
<1>2. QED
    BY <1>1, BecomeTurns DEF InviteTarget, Turns

LEMMA JoinLandedTurns ==
    ASSUME ReqOK, NEW u \in Users, JoinLanded(u)
    PROVE  LET s == req'[u]
               r == req[u] IN
           /\ Turns(u, s)
           /\ \/ r.p \notin Memberships(u, None) /\ s = Idle
              \/ /\ r.p \in Memberships(u, None)
                 /\ Goes(r, s, "join.count", Memberships(u, r.p))
<1> DEFINE r == req[u]
           d == [r EXCEPT !.pc = "join.count", !.solos = Memberships(u, r.p)]
<1>1. Goes(r, d, "join.count", Memberships(u, r.p))
    BY FieldType DEF Goes, Request
<1>2. QED
    BY <1>1, BecomeTurns DEF JoinLanded, Turns

LEMMA CodeSolosTurns ==
    ASSUME ReqOK, NEW u \in Users, CodeSolos(u)
    PROVE  LET s == req'[u]
               r == req[u] IN
           Turns(u, s) /\ Goes(r, s, "code.count", Memberships(u, r.p))
<1> DEFINE r == req[u]
           d == [r EXCEPT !.pc = "code.count", !.c = None, !.solos = Memberships(u, r.p)]
<1>1. Goes(r, d, "code.count", Memberships(u, r.p))
    BY FieldType DEF Goes, Request
<1>2. QED
    BY <1>1, BecomeTurns DEF CodeSolos, Turns

LEMMA GetCodeForwardTurns ==
    ASSUME ReqOK, NEW u \in Users, GetCodeForward(u)
    PROVE  LET s == req'[u]
               r == req[u] IN
           /\ Turns(u, s) /\ Goes(r, s, "getCode.reverse", r.solos)
           /\ s.c \in Codes /\ forward[s.c] = None
           /\ forward' = [forward EXCEPT ![s.c] = r.p]
<1> DEFINE r == req[u]
<1>1. PICK c \in Codes : /\ forward[c] = None /\ forward' = [forward EXCEPT ![c] = r.p]
                         /\ Become(u, [r EXCEPT !.pc = "getCode.reverse", !.c = c])
    BY DEF GetCodeForward
<1> DEFINE d == [r EXCEPT !.pc = "getCode.reverse", !.c = c]
<1>2. Goes(r, d, "getCode.reverse", r.solos) /\ d.c = c
    BY FieldType DEF Goes, Request
<1>3. QED
    BY <1>1, <1>2, BecomeTurns DEF Turns

LEMMA StartRosterTurns ==
    ASSUME ReqOK, NEW u \in Users, StartRoster(u)
    PROVE  LET s == req'[u]
               r == req[u] IN
           /\ Turns(u, s)
           /\ \/ s = Idle
              \/ u \in Active(r.p) /\ Goes(r, s, "start.ready", r.solos) /\ s.roster = Active(r.p)
<1> DEFINE r == req[u]
           d == [r EXCEPT !.pc = "start.ready", !.roster = Active(r.p)]
<1>1. Goes(r, d, "start.ready", r.solos) /\ d.roster = Active(r.p)
    BY FieldType DEF Goes, Request
<1>2. QED
    BY <1>1, BecomeTurns DEF StartRoster, Turns

-----------------------------------------------------------------------------
(* Every call belongs to its kind of request. *)

LEMMA KindsIdle == Kinds(Idle)
BY IdleFields DEF Kinds, Leading, Disbanding, Clearing, BeforeGuard

LEMMA KindsSolos ==
    ASSUME NEW r, NEW s, NEW x, Solos(r, s, x), r.op \in Moving \cup {"create", "disband"}
    PROVE  Kinds(s)
BY KindsIdle DEF Solos, Goes, Kinds, Leading, Disbanding, Clearing, BeforeGuard, Moving

(* A label every kind of request may have. *)
LEMMA KindsPlain ==
    ASSUME NEW r, NEW s, NEW pc, NEW x, Kinds(r), r.pc # "idle", Goes(r, s, pc, x),
           pc \in {"invite.target", "invite.add", "invite.rows", "add.commit", "code.stale",
                   "transfer.write", "transfer.promote", "getCode.forward",
                   "getCode.reverse"}
    PROVE  Kinds(s)
BY DEF Goes, Kinds, Leading, Disbanding, Clearing, BeforeGuard

(* A label of the kind the request already is. *)
LEMMA KindsLike ==
    ASSUME NEW r, NEW s, NEW pc, NEW x, Kinds(r), Goes(r, s, pc, x),
           \/ pc \in {"create.commit"} /\ r.op = "create"
           \/ pc \in {"join.landed", "join.count"} \cup Clearing /\ r.op = "join"
           \/ pc \in {"code.roster", "code.joiner", "code.add", "code.solos", "code.count"}
              /\ r.op = "joinByCode"
           \/ pc \in {"disband.list"} \cup Disbanding
              /\ r.op \in Moving \cup {"create", "disband"}
           \/ pc \in Clearing /\ r.op \in Moving \cup {"start"}
           \/ pc \in BeforeGuard /\ r.op = "start"
           \/ pc \in {"kick.commit", "kick.rows"} /\ r.op = "kick"
           \/ pc \in Leading /\ r.op \in {"leave", "kick"}
    PROVE  Kinds(s)
BY DEF Goes, Kinds, Leading, Disbanding, Clearing, BeforeGuard, Moving

LEMMA KindsStep ==
    ASSUME ReqOK, NEW u \in Users, Kinds(req[u]), Step(u)
    PROVE  Kinds(req'[u]) /\ Turns(u, req'[u])
<1> DEFINE r == req[u]
           s == req'[u]
<1>0. ASSUME Turns(u, Idle) PROVE Kinds(s) /\ Turns(u, s)
    BY <1>0, KindsIdle DEF Turns
<1>1. CASE \/ DisbandList(u) \/ DisbandDelete(u) \/ DisbandRows(u) \/ DisbandCode(u)
           \/ DisbandCodeRows(u)
    <2>1. r.op \in Moving \cup {"create", "disband"}
        BY <1>1 DEF DisbandList, DisbandDelete, DisbandRows, DisbandCode, DisbandCodeRows,
               At, Kinds, Disbanding
    <2>2. CASE DisbandList(u)
        <3>1. PICK q \in r.solos :
                  /\ Turns(u, s)
                  /\ \/ Goes(r, s, "disband.delete", r.solos)
                     \/ s = Idle
                     \/ Solos(r, s, r.solos \ {q})
            BY <2>2, DisbandListTurns
        <3>2. CASE Goes(r, s, "disband.delete", r.solos)
            BY <2>1, <3>1, <3>2, KindsLike DEF Disbanding
        <3>3. CASE Solos(r, s, r.solos \ {q})
            BY <2>1, <3>1, <3>3, KindsSolos
        <3>4. QED
            BY <3>1, <3>2, <3>3, KindsIdle
    <2>3. CASE DisbandDelete(u)
        <3>1. /\ Turns(u, s)
              /\ Same(r, s, "disband.rows") \/ s = Idle \/ Solos(r, s, r.solos \ {r.q})
            BY <2>3, DisbandDeleteTurns
        <3>2. CASE Same(r, s, "disband.rows")
            BY <2>1, <3>1, <3>2, KindsLike DEF Disbanding, Same
        <3>3. CASE Solos(r, s, r.solos \ {r.q})
            BY <2>1, <3>1, <3>3, KindsSolos
        <3>4. QED
            BY <3>1, <3>2, <3>3, KindsIdle
    <2>4. CASE DisbandRows(u)
        BY <2>1, <2>4, GotoTurns, KindsLike DEF Disbanding, Same, DisbandRows
    <2>5. CASE DisbandCode(u)
        <3>1. /\ Turns(u, s)
              /\ \/ Goes(r, s, "disband.codeRows", r.solos)
                 \/ Solos(r, s, r.solos \ {r.q})
            BY <2>5, DisbandCodeTurns
        <3>2. CASE Goes(r, s, "disband.codeRows", r.solos)
            BY <2>1, <3>1, <3>2, KindsLike DEF Disbanding
        <3>3. CASE Solos(r, s, r.solos \ {r.q})
            BY <2>1, <3>1, <3>3, KindsSolos
        <3>4. QED
            BY <3>1, <3>2, <3>3
    <2>6. CASE DisbandCodeRows(u)
        BY <2>1, <2>6, DisbandCodeRowsTurns, KindsSolos
    <2>7. QED
        BY <1>1, <2>2, <2>3, <2>4, <2>5, <2>6
<1>2. CASE ClearList(u) \/ ClearDelete(u)
    <2>1. r.op \in Moving \cup {"start"}
        BY <1>2 DEF ClearList, ClearDelete, At, Kinds, Clearing
    <2>2. CASE ClearList(u)
        BY <2>1, <2>2, ClearListTurns, KindsLike DEF Clearing
    <2>3. CASE ClearDelete(u)
        BY <2>1, <2>3, ClearDeleteTurns, KindsIdle, KindsLike
    <2>4. QED
        BY <1>2, <2>2, <2>3
<1>3. CASE LeadResolve(u) \/ LeadRoster(u) \/ LeadWrite(u) \/ LeadPromote(u)
    <2>1. r.op \in {"leave", "kick"}
        BY <1>3 DEF LeadResolve, LeadRoster, LeadWrite, LeadPromote, At, Kinds, Leading
    <2>2. CASE LeadResolve(u)
        BY <2>1, <2>2, LeadResolveTurns, KindsIdle, KindsLike DEF Leading, Same
    <2>3. CASE LeadRoster(u)
        BY <2>1, <2>3, LeadRosterTurns, KindsIdle, KindsLike DEF Leading
    <2>4. CASE LeadWrite(u)
        BY <2>1, <2>4, GotoTurns, KindsLike DEF Leading, Same, LeadWrite
    <2>5. CASE LeadPromote(u)
        BY <2>1, <2>5, LeadPromoteTurns, KindsIdle, KindsLike
    <2>6. QED
        BY <1>3, <2>2, <2>3, <2>4, <2>5
<1>4. CASE \/ CreateCommit(u) \/ InviteRows(u) \/ AddCommit(u) \/ CodeStale(u) \/ KickRows(u)
           \/ TransferPromote(u) \/ ReadyWrite(u) \/ SettingsWrite(u) \/ GetCodeExhausted(u)
           \/ GetCodeReverse(u) \/ AbortRoster(u)
    BY <1>0, <1>4, FinishTurns
       DEF CreateCommit, InviteRows, AddCommit, CodeStale, KickRows, TransferPromote,
           ReadyWrite, SettingsWrite, GetCodeExhausted, GetCodeReverse, AbortRoster
<1>5. CASE CreateCount(u) \/ JoinCount(u) \/ CodeCount(u)
    <2>1. r.op \in Moving \cup {"create"}
        BY <1>5 DEF CreateCount, JoinCount, CodeCount, At, Kinds, Moving
    <2>2. CASE CreateCount(u)
        BY <2>1, <2>2, CreateCountTurns, KindsIdle, KindsSolos
    <2>3. CASE JoinCount(u) \/ CodeCount(u)
        BY <2>1, <2>3, CountTurns, KindsSolos DEF JoinCount, CodeCount
    <2>4. QED
        BY <1>5, <2>2, <2>3
<1>6. CASE JoinCommit(u) \/ JoinLanded(u)
    <2>1. r.op = "join"
        BY <1>6 DEF JoinCommit, JoinLanded, At, Kinds
    <2>2. CASE JoinCommit(u)
        <3>1. CASE Goto(u, "clear.list")
            BY <2>1, <3>1, GotoTurns, KindsLike DEF Clearing, Same
        <3>2. QED
            BY <1>0, <2>2, <3>1, FinishTurns DEF JoinCommit
    <2>3. CASE JoinLanded(u)
        BY <2>1, <2>3, JoinLandedTurns, KindsIdle, KindsLike
    <2>4. QED
        BY <1>6, <2>2, <2>3
<1>7. CASE CodeGroup(u) \/ CodeRoster(u) \/ CodeJoiner(u) \/ CodeAdd(u) \/ CodeSolos(u)
    <2>1. r.op = "joinByCode" /\ r.pc # "idle"
        BY <1>7 DEF CodeGroup, CodeRoster, CodeJoiner, CodeAdd, CodeSolos, At, Kinds
    <2>2. CASE CodeGroup(u)
        <3>1. CASE Goto(u, "code.stale")
            BY <2>1, <3>1, GotoTurns, KindsPlain DEF Same
        <3>2. CASE Check(u, HasRoom(r.p), "code.roster")
            BY <1>0, <2>1, <3>2, CheckTurns, KindsLike DEF Same
        <3>3. QED
            BY <2>2, <3>1, <3>2 DEF CodeGroup
    <2>3. CASE CodeRoster(u)
        BY <1>0, <2>1, <2>3, CheckTurns, KindsLike DEF Same, CodeRoster
    <2>4. CASE CodeJoiner(u)
        BY <1>0, <2>1, <2>4, CheckTurns, KindsLike DEF Same, CodeJoiner
    <2>5. CASE CodeAdd(u)
        <3>1. CASE Goto(u, "code.solos")
            BY <2>1, <3>1, GotoTurns, KindsLike DEF Same
        <3>2. QED
            BY <1>0, <2>5, <3>1, FinishTurns DEF CodeAdd
    <2>6. CASE CodeSolos(u)
        BY <2>1, <2>6, CodeSolosTurns, KindsLike
    <2>7. QED
        BY <1>7, <2>2, <2>3, <2>4, <2>5, <2>6
<1>8. CASE LeaveRows(u) \/ KickRoster(u) \/ KickCommit(u)
    <2>1. CASE LeaveRows(u)
        BY <2>1, GotoTurns, KindsLike DEF Same, LeaveRows, Kinds, At, Leading
    <2>2. CASE KickRoster(u)
        <3>1. r.op = "kick"
            BY <2>2 DEF KickRoster, Kinds, At
        <3>2. QED
            BY <1>0, <2>2, <3>1, CheckTurns, KindsLike DEF Same, KickRoster
    <2>3. CASE KickCommit(u)
        <3>1. r.op = "kick"
            BY <2>3 DEF KickCommit, Kinds, At
        <3>2. CASE Goto(u, "lead.resolve")
            BY <3>1, <3>2, GotoTurns, KindsLike DEF Same, Leading
        <3>3. QED
            BY <1>0, <2>3, <3>2, FinishTurns DEF KickCommit
    <2>4. QED
        BY <1>8, <2>1, <2>2, <2>3
<1>9. CASE \/ InviteRoster(u) \/ InviteTarget(u) \/ InviteAdd(u) \/ AddTarget(u)
           \/ TransferRoster(u) \/ TransferWrite(u) \/ GetCodeRead(u) \/ GetCodeForward(u)
    <2>1. r.pc # "idle"
        BY <1>9 DEF InviteRoster, InviteTarget, InviteAdd, AddTarget, TransferRoster,
               TransferWrite, GetCodeRead, GetCodeForward, At
    <2>2. ASSUME NEW pc, Turns(u, s) /\ Same(r, s, pc),
                 pc \in {"invite.target", "invite.rows", "add.commit", "transfer.write",
                         "transfer.promote", "getCode.forward"}
          PROVE  Kinds(s) /\ Turns(u, s)
        BY <2>1, <2>2, KindsPlain DEF Same
    <2>3. CASE InviteTarget(u)
        BY <2>1, <2>3, InviteTargetTurns, KindsIdle, KindsPlain
    <2>4. CASE GetCodeForward(u)
        BY <2>1, <2>4, GetCodeForwardTurns, KindsPlain
    <2>5. CASE InviteRoster(u) \/ AddTarget(u) \/ TransferRoster(u) \/ GetCodeRead(u)
        BY <1>0, <2>2, <2>5, CheckTurns
           DEF InviteRoster, AddTarget, TransferRoster, GetCodeRead
    <2>6. CASE InviteAdd(u) \/ TransferWrite(u)
        BY <1>0, <2>2, <2>6, GotoTurns, FinishTurns DEF InviteAdd, TransferWrite
    <2>7. QED
        BY <1>9, <2>3, <2>4, <2>5, <2>6
<1>10. CASE StartRoster(u) \/ StartReady(u) \/ StartGuard(u)
    <2>1. r.op = "start"
        BY <1>10 DEF StartRoster, StartReady, StartGuard, At, Kinds, BeforeGuard
    <2>2. CASE StartRoster(u)
        BY <2>1, <2>2, StartRosterTurns, KindsIdle, KindsLike DEF BeforeGuard
    <2>3. CASE StartReady(u)
        BY <1>0, <2>1, <2>3, CheckTurns, KindsLike DEF BeforeGuard, Same, StartReady
    <2>4. CASE StartGuard(u)
        BY <1>0, <2>1, <2>4, CheckTurns, KindsLike DEF Clearing, Same, StartGuard
    <2>5. QED
        BY <1>10, <2>2, <2>3, <2>4
<1>11. QED
    BY <1>1, <1>2, <1>3, <1>4, <1>5, <1>6, <1>7, <1>8, <1>9, <1>10, <1>0 DEF Step

(* What a player sends, and what else changes with it. *)

Sent == {<<"create", "create.count">>, <<"joinByCode", "code.group">>, <<"join", "join.commit">>,
         <<"leave", "leave.rows">>, <<"disband", "disband.list">>, <<"ready", "ready.write">>,
         <<"unready", "ready.write">>, <<"settings", "settings.write">>,
         <<"getCode", "getCode.read">>, <<"start", "start.roster">>, <<"abort", "abort.roster">>,
         <<"invite", "invite.roster">>, <<"add", "add.target">>, <<"kick", "kick.roster">>,
         <<"transfer", "transfer.roster">>}

LEMMA DisbandFields ==
    ASSUME NEW p \in Parties
    PROVE  LET s == ThenSolos([New("disband", "idle", p, None) EXCEPT !.solos = {p}]) IN
           s.op = "disband" /\ s.pc = "disband.list" /\ s.p = p /\ s.solos = {p}
<1> DEFINE n == New("disband", "idle", p, None)
           m == [n EXCEPT !.solos = {p}]
<1>1. "disband" \in OpNames /\ "idle" \in Labels \ Disbanding /\ "idle" \notin Naming
    BY DEF OpNames, Labels, Disbanding, Naming
<1>2. n \in Request
    BY <1>1, NewType DEF Sound
<1>3. m \in Request /\ m.op = "disband" /\ m.p = p /\ m.solos = {p}
    BY <1>2, NewFields DEF Request
<1>4. QED
    BY <1>3, ThenSolosFields DEF Solos, Goes

LEMMA CreateFields ==
    ASSUME NEW x
    PROVE  LET s == [New("create", "create.count", None, None) EXCEPT !.solos = x] IN
           s.op = "create" /\ s.pc = "create.count" /\ s.p = None /\ s.solos = x
BY DEF New, Idle

LEMMA JoinByCodeFields ==
    ASSUME NEW p, NEW c
    PROVE  LET s == [New("joinByCode", "code.group", p, None) EXCEPT !.c = c] IN
           s.op = "joinByCode" /\ s.pc = "code.group" /\ s.p = p /\ s.c = c /\ s.solos = {}
BY DEF New, Idle

LEMMA SendTurns ==
    ASSUME ReqOK, NEW u \in Users, Send(u)
    PROVE  LET s == req'[u] IN
           /\ Turns(u, s) /\ s.op \in Ops /\ req[u].pc = "idle" /\ <<s.op, s.pc>> \in Sent
           /\ UNCHANGED <<groups, creator, rowVars, guard, faults>>
           /\ s.op # "leave" => edge' = edge
<1> DEFINE s == req'[u]
<1> DEFINE Sends == /\ Turns(u, s) /\ s.op \in Ops /\ req[u].pc = "idle"
                    /\ <<s.op, s.pc>> \in Sent
                    /\ UNCHANGED <<groups, creator, rowVars, guard, faults>> /\ edge' = edge
<1>1. CASE Create(u)
    <2> DEFINE d == [New("create", "create.count", None, None)
                       EXCEPT !.solos = Memberships(u, None)]
    <2>1. Begin(u, d) /\ UNCHANGED <<groupVars, rowVars, guard, faults>>
        BY <1>1 DEF Create
    <2>2. d.op = "create" /\ d.pc = "create.count"
        BY CreateFields
    <2> HIDE DEF d
    <2>3. Turns(u, d) /\ d.op \in Ops /\ req[u].pc = "idle"
        BY <2>1, BeginTurns
    <2>4. QED
        BY <2>1, <2>2, <2>3 DEF Turns, Sent, groupVars
<1>2. ASSUME NEW c \in Codes, JoinByCode(u, c) PROVE Sends
    <2> DEFINE d == [New("joinByCode", "code.group", forward[c], None) EXCEPT !.c = c]
    <2>1. Begin(u, d) /\ UNCHANGED <<groupVars, rowVars, guard, faults>>
        BY <1>2 DEF JoinByCode
    <2>2. d.op = "joinByCode" /\ d.pc = "code.group"
        BY JoinByCodeFields
    <2> HIDE DEF d
    <2>3. Turns(u, d) /\ d.op \in Ops /\ req[u].pc = "idle"
        BY <2>1, BeginTurns
    <2>4. QED
        BY <2>1, <2>2, <2>3 DEF Turns, Sent, groupVars
<1>3. ASSUME NEW p \in Parties, Disband(u, p) PROVE Sends
    BY <1>3, BeginTurns, DisbandFields DEF Disband, Turns, Sent, groupVars
<1>4. ASSUME NEW op, NEW pc, NEW p, NEW t, Begin(u, New(op, pc, p, t)), <<op, pc>> \in Sent
      PROVE  /\ Turns(u, s) /\ s.op \in Ops /\ req[u].pc = "idle" /\ <<s.op, s.pc>> \in Sent
             /\ s.op = op
    BY <1>4, BeginTurns, NewFields DEF Turns
<1>5. ASSUME NEW p \in Parties, Leave(u, p)
      PROVE  /\ Turns(u, s) /\ s.op \in Ops /\ req[u].pc = "idle" /\ <<s.op, s.pc>> \in Sent
             /\ UNCHANGED <<groups, creator, rowVars, guard, faults>> /\ s.op = "leave"
    BY <1>4, <1>5 DEF Leave, Sent
<1>6. ASSUME NEW p \in Parties,
             \/ Join(u, p) \/ SetReady(u, p, "ready") \/ SetReady(u, p, "unready")
             \/ SetSettings(u, p) \/ GetCode(u, p) \/ Start(u, p) \/ Abort(u, p)
      PROVE  Sends
    <2>1. CASE Join(u, p)
        BY <1>4, <2>1 DEF Join, Sent, groupVars
    <2>2. CASE SetReady(u, p, "ready") \/ SetReady(u, p, "unready")
        BY <1>4, <2>2 DEF SetReady, Sent, groupVars
    <2>3. CASE SetSettings(u, p) \/ GetCode(u, p)
        BY <1>4, <2>3 DEF SetSettings, GetCode, Sent, groupVars
    <2>4. CASE Start(u, p) \/ Abort(u, p)
        BY <1>4, <2>4 DEF Start, Abort, Sent, groupVars
    <2>5. QED
        BY <1>6, <2>1, <2>2, <2>3, <2>4
<1>7. ASSUME NEW p \in Parties, NEW t \in Users,
             Invite(u, p, t) \/ Add(u, p, t) \/ Kick(u, p, t) \/ Transfer(u, p, t)
      PROVE  Sends
    <2>1. CASE Invite(u, p, t) \/ Add(u, p, t)
        BY <1>4, <2>1 DEF Invite, Add, Sent, groupVars
    <2>2. CASE Kick(u, p, t) \/ Transfer(u, p, t)
        BY <1>4, <2>2 DEF Kick, Transfer, Sent, groupVars
    <2>3. QED
        BY <1>7, <2>1, <2>2
<1>8. QED
    BY <1>1, <1>2, <1>3, <1>5, <1>6, <1>7 DEF Send

LEMMA KindsSend ==
    ASSUME ReqOK, NEW u \in Users, Send(u)
    PROVE  Kinds(req'[u])
BY SendTurns DEF Sent, Kinds, Leading, Disbanding, Clearing, BeforeGuard, Moving

LEMMA KindsNext ==
    ASSUME ReqOK, MaxFaults = 0, StoreOK, \A u \in Users : Kinds(req[u]), [Next]_vars
    PROVE  \A u \in Users : Kinds(req'[u])
<1>1. faults = 0
    BY DEF StoreOK
<1>2. ASSUME NEW u \in Users, Send(u) \/ Step(u)
      PROVE  \A v \in Users : Kinds(req'[v])
    <2>1. Kinds(req'[u]) /\ Turns(u, req'[u])
        BY <1>2, KindsStep, KindsSend, SendTurns
    <2>2. QED
        BY <2>1 DEF Turns
<1>3. CASE \E p \in Parties : GuardExpire(p)
    BY <1>3 DEF GuardExpire
<1>4. CASE UNCHANGED vars
    BY <1>4 DEF vars
<1>5. ~RuntimeRestart /\ \A u \in Users : ~CallError(u)
    BY <1>1 DEF RuntimeRestart, CallError
<1>6. QED
    BY <1>2, <1>3, <1>4, <1>5 DEF Next

-----------------------------------------------------------------------------
(* Edges, one user of one party at a time. *)

Edge1(p, t, e) ==
    \A q \in Parties : \A v \in Users :
        edge'[q][v] = IF q = p /\ v = t THEN e ELSE edge[q][v]

LEMMA EdgeSet ==
    ASSUME StoreOK, NEW p, NEW t, NEW e, edge' = [edge EXCEPT ![p][t] = e]
    PROVE  Edge1(p, t, e)
BY DEF StoreOK, Edge1

LEMMA PromoteEdges ==
    ASSUME StoreOK, NEW p, NEW t, Promote(p, t)
    PROVE  /\ \A q \in Parties : \A v \in Users :
                 edge'[q][v] = IF q = p /\ v = t /\ edge[q][v] = "member"
                               THEN "admin" ELSE edge[q][v]
           /\ \A q \in Parties : Active(q)' = Active(q)
<1>1. \A q \in Parties : \A v \in Users :
          edge'[q][v] = IF q = p /\ v = t /\ edge[q][v] = "member"
                        THEN "admin" ELSE edge[q][v]
    BY DEF StoreOK, Promote
<1>2. QED
    BY <1>1 DEF Active

LEMMA AddAsEdges ==
    ASSUME StoreOK, NEW p, NEW t, AddAs(p, t)
    PROVE  /\ \A q \in Parties : \A v \in Users :
                 edge'[q][v] = IF q = p /\ v = t /\ edge[q][v] \in {"none", "requested"}
                               THEN "invited" ELSE edge[q][v]
           /\ \A q \in Parties : Active(q)' = Active(q)
<1>1. \A q \in Parties : \A v \in Users :
          edge'[q][v] = IF q = p /\ v = t /\ edge[q][v] \in {"none", "requested"}
                        THEN "invited" ELSE edge[q][v]
    BY DEF StoreOK, AddAs
<1>2. QED
    BY <1>1 DEF Active

LEMMA DeleteEdges ==
    ASSUME StoreOK, NEW p, edge' = [edge EXCEPT ![p] = [v \in Users |-> "none"]]
    PROVE  \A q \in Parties :
              /\ \A v \in Users : edge'[q][v] = IF q = p THEN "none" ELSE edge[q][v]
              /\ Active(q)' = IF q = p THEN {} ELSE Active(q)
<1>1. \A q \in Parties : \A v \in Users :
          edge'[q][v] = IF q = p THEN "none" ELSE edge[q][v]
    BY DEF StoreOK
<1>2. QED
    BY <1>1 DEF Active

LEMMA EdgesKept ==
    ASSUME edge' = edge
    PROVE  \A p \in Parties : Active(p)' = Active(p)
BY DEF Active

LEMMA MemberEdge ==
    ASSUME StoreOK, NEW p \in Parties, NEW t \in Users, Edge1(p, t, "member") \/ Edge1(p, t, "admin")
    PROVE  \A q \in Parties : Active(q)' = IF q = p THEN Active(q) \cup {t} ELSE Active(q)
BY DEF Edge1, Active

LEMMA OutsiderEdge ==
    ASSUME StoreOK, NEW p \in Parties, NEW t \in Users, NEW e \in {"none", "invited", "requested"},
           Edge1(p, t, e)
    PROVE  \A q \in Parties : Active(q)' = IF q = p THEN Active(q) \ {t} ELSE Active(q)
BY DEF Edge1, Active

-----------------------------------------------------------------------------
(* Readiness.  Members who never leave, and calls that never fail: what a    *)
(* step may do to members and ready rows.                                    *)

(* Nobody joins or goes, and nobody becomes ready. *)
Mild ==
    /\ groups' = groups /\ creator' = creator
    /\ \A p \in Parties : ready'[p] \subseteq ready[p] /\ Active(p)' = Active(p)
    /\ \A p \in Parties \ groups : \A v \in Users : edge[p][v] = "none" => edge'[p][v] = "none"

(* The request r of u goes on as s without a word to a ready row. *)
Idly(r, s) ==
    /\ s.pc \notin Departing \cup {"ready.write", "clear.delete", "start.ready", "start.guard"}
    /\ r.pc \notin Clearing \cup {"start.ready", "start.guard"}
    /\ Resets(s) \/ Resets(r) => Resets(s) /\ Resets(r) /\ s.p = r.p

QuietStep(u) ==
    \/ DisbandList(u) \/ DisbandRows(u) \/ DisbandCode(u) \/ DisbandCodeRows(u)
    \/ CreateCount(u) \/ InviteRoster(u) \/ InviteTarget(u) \/ InviteAdd(u) \/ InviteRows(u)
    \/ AddTarget(u) \/ AddCommit(u) \/ JoinLanded(u) \/ JoinCount(u)
    \/ CodeGroup(u) \/ CodeStale(u) \/ CodeRoster(u) \/ CodeJoiner(u)
    \/ CodeSolos(u) \/ CodeCount(u)
    \/ TransferRoster(u) \/ TransferWrite(u) \/ TransferPromote(u) \/ SettingsWrite(u)
    \/ GetCodeRead(u) \/ GetCodeForward(u) \/ GetCodeExhausted(u) \/ GetCodeReverse(u)
    \/ AbortRoster(u)

LEMMA MildFrame ==
    ASSUME UNCHANGED groupVars, \A p \in Parties : ready'[p] \subseteq ready[p]
    PROVE  Mild
BY EdgesKept DEF Mild, groupVars

LEMMA QuietMild ==
    ASSUME StoreOK, NEW u \in Users, QuietStep(u)
    PROVE  Mild
<1>1. ASSUME UNCHANGED <<groupVars, rowVars>> PROVE Mild
    BY <1>1, MildFrame DEF rowVars
<1>2. ASSUME UNCHANGED groupVars, NEW p, NEW x, ready' = [ready EXCEPT ![p] = @ \ x]
      PROVE  Mild
    <2>1. \A q \in Parties : ready'[q] \subseteq ready[q]
        BY <1>2 DEF StoreOK
    <2>2. QED
        BY <1>2, <2>1, MildFrame
<1>3. CASE \/ DisbandList(u) \/ DisbandCode(u) \/ CreateCount(u) \/ InviteRoster(u)
           \/ InviteTarget(u) \/ AddTarget(u) \/ JoinLanded(u) \/ JoinCount(u)
           \/ CodeGroup(u) \/ CodeRoster(u) \/ CodeJoiner(u) \/ CodeSolos(u) \/ CodeCount(u)
           \/ TransferRoster(u) \/ GetCodeRead(u) \/ GetCodeExhausted(u) \/ AbortRoster(u)
    BY <1>1, <1>3
       DEF DisbandList, DisbandCode, CreateCount, InviteRoster, InviteTarget, AddTarget,
           JoinLanded, JoinCount, CodeGroup, CodeRoster, CodeJoiner, CodeSolos, CodeCount,
           TransferRoster, GetCodeRead, GetCodeExhausted, AbortRoster
<1>4. CASE DisbandRows(u) \/ InviteRows(u)
    BY <1>2, <1>4 DEF DisbandRows, InviteRows
<1>5. CASE DisbandCodeRows(u) \/ CodeStale(u) \/ TransferWrite(u) \/ SettingsWrite(u)
           \/ GetCodeForward(u) \/ GetCodeReverse(u)
    <2>1. ready' = ready /\ UNCHANGED groupVars
        BY <1>5 DEF DisbandCodeRows, CodeStale, TransferWrite, SettingsWrite, GetCodeForward,
               GetCodeReverse
    <2>2. QED
        BY <2>1, MildFrame
<1>6. ASSUME UNCHANGED <<groups, creator, rowVars>>,
             \A q \in Parties : Active(q)' = Active(q),
             \A q \in Parties \ groups : \A v \in Users :
                 edge[q][v] = "none" => edge'[q][v] = "none"
      PROVE  Mild
    BY <1>6 DEF Mild, rowVars
<1>7. CASE InviteAdd(u)
    <2>1. CASE req[u].p \in groups /\ AddAs(req[u].p, req[u].t)
        BY <1>6, <1>7, <2>1, AddAsEdges DEF InviteAdd
    <2>2. CASE UNCHANGED edge
        BY <1>1, <1>7, <2>2 DEF InviteAdd, groupVars
    <2>3. QED
        BY <1>7, <2>1, <2>2 DEF InviteAdd
<1>8. CASE AddCommit(u)
    <2>1. CASE req[u].p \in groups /\ AddAs(req[u].p, req[u].t)
        BY <1>6, <1>8, <2>1, AddAsEdges DEF AddCommit
    <2>2. CASE UNCHANGED edge
        BY <1>1, <1>8, <2>2 DEF AddCommit, groupVars
    <2>3. QED
        BY <1>8, <2>1, <2>2 DEF AddCommit
<1>9. CASE TransferPromote(u)
    BY <1>6, <1>9, PromoteEdges DEF TransferPromote
<1>10. QED
    BY <1>3, <1>4, <1>5, <1>7, <1>8, <1>9 DEF QuietStep

(* Labels at which no ready row is at stake. *)
Plain == {"idle", "create.count", "create.commit", "invite.roster", "invite.target", "invite.add",
          "invite.rows", "add.target", "add.commit", "join.landed", "join.count",
          "code.group", "code.stale", "code.roster", "code.joiner", "code.add",
          "transfer.roster", "transfer.write", "transfer.promote", "settings.write",
          "getCode.read", "getCode.forward", "getCode.reverse", "start.roster",
          "abort.roster", "join.commit"}

LEMMA PlainIdly ==
    ASSUME NEW r, NEW s, r.pc \in Plain, s.pc \in Plain
    PROVE  Idly(r, s)
BY DEF Plain, Idly, Departing, Leading, Clearing, Resets, Moving, Disbanding

LEMMA SolosIdly ==
    ASSUME NEW r, NEW s, NEW x, Solos(r, s, x), r.pc \notin Clearing,
           \/ r.pc \in {"disband.list"} \cup Disbanding
           \/ r.pc = "code.count" /\ r.op = "joinByCode"
           \/ r.pc \in {"join.count", "create.count"} /\ r.op # "joinByCode"
    PROVE  Idly(r, s)
BY IdleFields
   DEF Solos, Goes, Idly, Departing, Leading, Clearing, Resets, Moving, Disbanding

LEMMA DisbandIdly ==
    ASSUME NEW r, NEW s, NEW pc, NEW x, Goes(r, s, pc, x),
           r.pc \in {"disband.list"} \cup Disbanding, pc \in {"disband.list"} \cup Disbanding
    PROVE  Idly(r, s)
BY DEF Goes, Idly, Departing, Leading, Clearing, Resets, Moving, Disbanding

LEMMA QuietIdly ==
    ASSUME ReqOK, NEW u \in Users, Kinds(req[u]), QuietStep(u)
    PROVE  Turns(u, req'[u]) /\ Idly(req[u], req'[u])
<1> DEFINE r == req[u]
           s == req'[u]
<1>1. Idle.pc \in Plain
    BY IdleFields DEF Plain
<1>2. ASSUME Turns(u, Idle), r.pc \in Plain PROVE Turns(u, s) /\ Idly(r, s)
    BY <1>1, <1>2, PlainIdly DEF Turns
<1>3. ASSUME NEW pc \in Plain, Turns(u, s), Same(r, s, pc), r.pc \in Plain
      PROVE  Turns(u, s) /\ Idly(r, s)
    BY <1>3, PlainIdly DEF Same, Goes
<1>4. CASE DisbandList(u)
    <2>1. PICK q \in r.solos :
              /\ Turns(u, s)
              /\ \/ Goes(r, s, "disband.delete", r.solos)
                 \/ r.op = "create" /\ s = Idle
                 \/ Solos(r, s, r.solos \ {q})
        BY <1>4, DisbandListTurns
    <2>2. r.pc = "disband.list" /\ r.pc \notin Clearing
        BY <1>4 DEF DisbandList, At, Clearing
    <2>3. CASE Goes(r, s, "disband.delete", r.solos)
        BY <2>1, <2>2, <2>3, DisbandIdly DEF Disbanding
    <2>4. CASE r.op = "create" /\ s = Idle
        BY <2>1, <2>2, <2>4, IdleFields
           DEF Idly, Departing, Leading, Clearing, Resets, Moving, Disbanding
    <2>5. CASE Solos(r, s, r.solos \ {q})
        BY <2>1, <2>2, <2>5, SolosIdly
    <2>6. QED
        BY <2>1, <2>3, <2>4, <2>5
<1>5. CASE DisbandRows(u)
    <2>1. r.pc = "disband.rows" /\ Goto(u, "disband.code")
        BY <1>5 DEF DisbandRows, At
    <2>2. QED
        BY <2>1, GotoTurns, DisbandIdly DEF Same, Disbanding
<1>6. CASE DisbandCode(u)
    <2>1. r.pc = "disband.code" /\ r.pc \notin Clearing
        BY <1>6 DEF DisbandCode, At, Clearing
    <2>2. /\ Turns(u, s)
          /\ Goes(r, s, "disband.codeRows", r.solos) \/ Solos(r, s, r.solos \ {r.q})
        BY <1>6, DisbandCodeTurns
    <2>3. CASE Goes(r, s, "disband.codeRows", r.solos)
        BY <2>1, <2>2, <2>3, DisbandIdly DEF Disbanding
    <2>4. CASE Solos(r, s, r.solos \ {r.q})
        BY <2>1, <2>2, <2>4, SolosIdly DEF Disbanding
    <2>5. QED
        BY <2>2, <2>3, <2>4
<1>7. CASE DisbandCodeRows(u)
    <2>1. r.pc = "disband.codeRows" /\ r.pc \notin Clearing
        BY <1>7 DEF DisbandCodeRows, At, Clearing
    <2>2. QED
        BY <1>7, <2>1, DisbandCodeRowsTurns, SolosIdly DEF Disbanding
<1>8. CASE CreateCount(u)
    <2>1. r.pc = "create.count" /\ r.op = "create" /\ r.pc \notin Clearing /\ r.pc \in Plain
        BY <1>8 DEF CreateCount, At, Clearing, Kinds, Plain
    <2>2. Turns(u, s) /\ (s = Idle \/ Solos(r, s, SoloParties(r.solos)))
        BY <1>8, CreateCountTurns
    <2>3. QED
        BY <1>2, <2>1, <2>2, SolosIdly DEF Turns
<1>9. CASE JoinCount(u) \/ CodeCount(u)
    <2>1. /\ r.pc \notin Clearing
          /\ \/ r.pc = "join.count" /\ r.op = "join"
             \/ r.pc = "code.count" /\ r.op = "joinByCode"
        BY <1>9 DEF JoinCount, CodeCount, At, Clearing, Kinds
    <2>2. QED
        BY <1>9, <2>1, CountTurns, SolosIdly DEF JoinCount, CodeCount
<1>10. CASE \/ InviteRows(u) \/ AddCommit(u) \/ CodeStale(u) \/ TransferPromote(u)
            \/ SettingsWrite(u) \/ GetCodeExhausted(u) \/ GetCodeReverse(u) \/ AbortRoster(u)
    <2>1. r.pc \in Plain /\ Finish(u)
        BY <1>10 DEF InviteRows, AddCommit, CodeStale, TransferPromote, SettingsWrite,
               GetCodeExhausted, GetCodeReverse, AbortRoster, At, Plain
    <2>2. QED
        BY <1>2, <2>1, FinishTurns
<1>11. CASE \/ InviteRoster(u) \/ AddTarget(u) \/ TransferRoster(u) \/ GetCodeRead(u)
            \/ CodeRoster(u) \/ CodeJoiner(u)
    <2>1. r.pc \in Plain
        BY <1>11 DEF InviteRoster, AddTarget, TransferRoster, GetCodeRead, CodeRoster,
               CodeJoiner, At, Plain
    <2>2. {"invite.target", "add.commit", "transfer.write", "getCode.forward", "code.joiner",
           "code.add"} \subseteq Plain
        BY DEF Plain
    <2>3. ASSUME NEW ok, NEW pc \in Plain, Check(u, ok, pc)
          PROVE  Turns(u, s) /\ Idly(r, s)
        BY <1>2, <1>3, <2>1, <2>3, CheckTurns
    <2>4. QED
        BY <1>11, <2>2, <2>3 DEF InviteRoster, AddTarget, TransferRoster, GetCodeRead,
           CodeRoster, CodeJoiner
<1>12. CASE CodeGroup(u)
    <2>1. r.pc \in Plain /\ {"code.stale", "code.roster"} \subseteq Plain
        BY <1>12 DEF CodeGroup, At, Plain
    <2>2. Goto(u, "code.stale") \/ Check(u, HasRoom(r.p), "code.roster")
        BY <1>12 DEF CodeGroup
    <2>3. QED
        BY <1>2, <1>3, <2>1, <2>2, GotoTurns, CheckTurns
<1>13. CASE InviteAdd(u) \/ TransferWrite(u)
    <2>1. r.pc \in Plain /\ {"invite.rows", "transfer.promote"} \subseteq Plain
        BY <1>13 DEF InviteAdd, TransferWrite, At, Plain
    <2>2. Goto(u, "invite.rows") \/ Goto(u, "transfer.promote") \/ Finish(u)
        BY <1>13 DEF InviteAdd, TransferWrite
    <2>3. QED
        BY <1>2, <1>3, <2>1, <2>2, GotoTurns, FinishTurns
<1>14. CASE InviteTarget(u) \/ JoinLanded(u) \/ GetCodeForward(u)
    <2>1. r.pc \in Plain
        BY <1>14 DEF InviteTarget, JoinLanded, GetCodeForward, At, Plain
    <2>2. {"invite.add", "join.count", "getCode.reverse"} \subseteq Plain
        BY DEF Plain
    <2>3. CASE InviteTarget(u)
        BY <1>1, <2>1, <2>2, <2>3, InviteTargetTurns, PlainIdly DEF Goes
    <2>4. CASE JoinLanded(u)
        BY <1>1, <2>1, <2>2, <2>4, JoinLandedTurns, PlainIdly DEF Goes
    <2>5. CASE GetCodeForward(u)
        BY <2>1, <2>2, <2>5, GetCodeForwardTurns, PlainIdly DEF Goes
    <2>6. QED
        BY <1>14, <2>3, <2>4, <2>5
<1>15. CASE CodeSolos(u)
    <2>1. r.pc = "code.solos"
        BY <1>15 DEF CodeSolos, At
    <2>2. Turns(u, s) /\ s.pc = "code.count" /\ s.p = r.p
        BY <1>15, CodeSolosTurns DEF Goes
    <2>3. QED
        BY <2>1, <2>2 DEF Idly, Departing, Leading, Clearing, Resets
<1>16. QED
    BY <1>4, <1>5, <1>6, <1>7, <1>8, <1>9, <1>10, <1>11, <1>12, <1>13, <1>14, <1>15
       DEF QuietStep

(* What the two history variables remember of a step. *)

LEMMA StaleNext ==
    ASSUME Remember, NEW p \in Parties, NEW m \in Users, NEW j \in Users,
           <<m, j>> \in stale'[p]
    PROVE  /\ m \in ready[p] /\ m \in ready'[p] /\ j \in Active(p)'
           /\ j \in Active(p) => <<m, j>> \in stale[p]
<1>1. stale' = [q \in Parties |->
         {mj \in Users \X Users :
            /\ mj[1] \in ready[q] /\ mj[1] \in ready'[q] /\ mj[2] \in Active(q)'
            /\ mj[2] \in Active(q) => mj \in stale[q]}]
    BY DEF Remember
<1> DEFINE k == <<m, j>>
<1>2. k[1] = m /\ k[2] = j
    OBVIOUS
<1>3. k \in {mj \in Users \X Users :
            /\ mj[1] \in ready[p] /\ mj[1] \in ready'[p] /\ mj[2] \in Active(p)'
            /\ mj[2] \in Active(p) => mj \in stale[p]}
    BY <1>1
<1> HIDE DEF k
<1>4. /\ k[1] \in ready[p] /\ k[1] \in ready'[p] /\ k[2] \in Active(p)'
      /\ k[2] \in Active(p) => k \in stale[p]
    BY <1>3
<1>5. QED
    BY <1>2, <1>4 DEF k

LEMMA SpentNext ==
    ASSUME Remember, NEW p \in Parties, \A u \in Users : ~Started(u, p)
    PROVE  spent'[p] = {m \in spent[p] : m \in ready'[p] => m \in ready[p]}
BY DEF Remember

LEMMA NotStarted ==
    ASSUME NEW u \in Users, NEW s, Turns(u, s), req[u].pc # "start.guard" \/ s.pc # "clear.list"
    PROVE  \A v \in Users : \A p \in Parties : ~Started(v, p)
<1>1. ASSUME NEW v \in Users, NEW p \in Parties, Started(v, p)
      PROVE  req[v].pc = "start.guard" /\ req'[v].pc = "clear.list"
    BY <1>1 DEF Started, At
<1>2. ASSUME NEW v \in Users \ {u}
      PROVE  req'[v] = req[v]
    BY DEF Turns
<1>3. req'[u] = s
    BY DEF Turns
<1>4. QED
    BY <1>1, <1>2, <1>3

-----------------------------------------------------------------------------
(* A step that is mild, and what its request must keep. *)

LEMMA MildKept ==
    ASSUME StoreOK, Kept, Mild, NEW u \in Users, NEW s, Turns(u, s), Kinds(s),
           s.pc \notin Departing,
           s.pc = "ready.write" =>
              /\ s.p \in Parties /\ creator[s.p] # None
              /\ s.p \in groups => u \in Active(s.p)
    PROVE  Kept'
<1> DEFINE Fresh(v) ==
        At(v, "ready.write") =>
          /\ req[v].p \in Parties /\ creator[req[v].p] # None
          /\ req[v].p \in groups => v \in Active(req[v].p)
<1>1. ASSUME NEW v \in Users
      PROVE  Kinds(req'[v]) /\ req'[v].pc \notin Departing /\ Fresh(v)'
    <2>1. CASE v = u
        <3>1. req'[v] = s
            BY <2>1 DEF Turns
        <3>2. s.p \in Parties => (v \in Active(s.p) => v \in Active(req[v].p)')
            BY <3>1 DEF Mild, Active
        <3>3. QED
            BY <2>1, <3>1, <3>2 DEF Mild, At
    <2>2. CASE v # u
        <3>1. req'[v] = req[v]
            BY <2>2 DEF Turns
        <3>2. Fresh(v) /\ Kinds(req[v]) /\ req[v].pc \notin Departing
            BY DEF Kept
        <3>3. req[v].p \in Parties => (v \in Active(req[v].p) => v \in Active(req[v].p)')
            BY <3>1 DEF Mild, Active
        <3>4. QED
            BY <3>1, <3>2, <3>3 DEF Mild, At
    <2>3. QED
        BY <2>1, <2>2
<1>2. groups' = groups /\ groups \subseteq Parties
    BY DEF Mild, StoreOK
<1>3. (\A p \in groups : creator[p] # None /\ ready[p] \subseteq Active(p))'
    BY <1>2 DEF Kept, Mild
<1>4. (\A p \in Parties : creator[p] = None => ready[p] = {})'
    BY DEF Kept, Mild
<1>5. (\A p \in Parties \ groups : \A v \in Users : edge[p][v] = "none")'
    BY DEF Kept, Mild
<1>6. QED
    BY <1>1, <1>3, <1>4, <1>5 DEF Kept

(* No ready row appears, and no party with ready rows. *)
LEMMA UnreadyStep ==
    ASSUME Unready, NEW u \in Users, NEW s, Turns(u, s),
           \A p \in groups' : /\ ready'[p] \subseteq ready[p]
                              /\ p \in groups \/ ready[p] = {},
           Resets(s) /\ s.p \in groups' => u \notin ready[s.p]
    PROVE  Unready'
<1>1. ASSUME NEW v \in Users, Resets(req'[v]), req'[v].p \in groups'
      PROVE  v \notin ready'[req'[v].p]
    <2>1. ready'[req'[v].p] \subseteq ready[req'[v].p]
        BY <1>1
    <2>2. CASE v = u
        BY <1>1, <2>1, <2>2 DEF Turns
    <2>3. CASE v # u
        <3>1. req'[v] = req[v]
            BY <2>3 DEF Turns
        <3>2. req[v].p \in groups \/ ready[req[v].p] = {}
            BY <1>1, <3>1
        <3>3. QED
            BY <1>1, <2>1, <3>1, <3>2 DEF Unready
    <2>4. QED
        BY <2>2, <2>3
<1>2. ASSUME NEW v \in Users
      PROVE  (Resets(req[v]) /\ req[v].p \in groups => v \notin ready[req[v].p])'
    BY <1>1 DEF Resets
<1>3. QED
    BY <1>2 DEF Unready

(* Nobody joins a party with ready rows but u, who has still to clear them. *)
LEMMA StaledStep ==
    ASSUME StoreOK, Kept, Staled, Remember, NEW u \in Users, NEW s, Turns(u, s),
           \A p \in Parties : \A j \in Users :
              j \in Active(p)' =>
                 \/ j \in Active(p)
                 \/ ready[p] = {}
                 \/ j = u /\ s.p = p /\ Resets(s) /\ s.pc # "clear.delete",
           \A m \in Users :
              Owing(req[u], m) /\ req[u].p \in groups /\ m \in ready[req[u].p]
              /\ m \in ready'[req[u].p]
                 => Owing(s, m) /\ s.p = req[u].p
    PROVE  Staled'
<1>1. ASSUME NEW p \in Parties, NEW m \in Users, NEW j \in Users, <<m, j>> \in stale'[p]
      PROVE  m \in ready'[p] /\ j \in Active(p)' /\ req'[j].p = p /\ Owing(req'[j], m)
    <2>1. /\ m \in ready[p] /\ m \in ready'[p] /\ j \in Active(p)'
          /\ j \in Active(p) => <<m, j>> \in stale[p]
        BY <1>1, StaleNext
    <2>2. CASE j \in Active(p)
        <3>1. req[j].p = p /\ Owing(req[j], m)
            BY <2>1, <2>2 DEF Staled
        <3>2. p \in groups
            BY <2>2 DEF Kept, Active
        <3>3. req'[j].p = p /\ Owing(req'[j], m)
            BY <2>1, <3>1, <3>2 DEF Turns
        <3>4. QED
            BY <2>1, <3>3
    <2>3. CASE j \notin Active(p)
        <3>1. j = u /\ s.p = p /\ Resets(s) /\ s.pc # "clear.delete"
            BY <2>1, <2>3
        <3>2. QED
            BY <2>1, <3>1 DEF Turns, Owing
    <2>4. QED
        BY <2>2, <2>3
<1>2. QED
    BY <1>1 DEF Staled, Owing, Resets

(* The flags counted, in a step that starts nothing. *)
LEMMA SpentStep ==
    ASSUME ReqOK, StoreOK, Spent, Remember, NEW u \in Users, NEW s, Turns(u, s), guard' = guard,
           \A v \in Users : \A p \in Parties : ~Started(v, p),
           \A p \in groups' \ groups : p \in Parties /\ ready[p] = {},
           s.pc = "start.ready" /\ s.p \in Parties \ guard => spent[s.p] \cap ready[s.p] = {},
           s.pc = "start.guard" /\ s.p \notin guard =>
              s.p \in Parties /\ s.roster \cap spent[s.p] = {},
           \A p \in Parties : \A m \in Users :
              Clears(req[u], p, m) /\ p \in groups /\ m \in ready[p] /\ m \in ready'[p]
                 => Clears(s, p, m)
    PROVE  Spent'
<1>1. ASSUME NEW p \in Parties
      PROVE  spent'[p] \subseteq spent[p] /\ spent'[p] \cap ready'[p] \subseteq spent[p] \cap ready[p]
    BY SpentNext
<1>2. \A v \in Users : req'[v] = req[v] \/ (v = u /\ req'[v] = s)
    BY DEF Turns
<1>3. ASSUME NEW p \in Parties \ guard
      PROVE  (\/ spent[p] \cap ready[p] = {}
              \/ p \notin groups /\ \A v \in Users : ~(At(v, "start.ready") /\ req[v].p = p))'
    <2>1. CASE spent[p] \cap ready[p] = {}
        BY <1>1, <2>1
    <2>2. CASE /\ spent[p] \cap ready[p] # {} /\ p \notin groups /\ p \notin groups'
               /\ \A v \in Users : ~(At(v, "start.ready") /\ req[v].p = p)
        BY <1>2, <1>3, <2>2 DEF At
    <2>3. CASE p \in groups' \ groups
        BY <1>1, <2>3
    <2>4. QED
        BY <1>3, <2>1, <2>2, <2>3 DEF Spent
<1>4. ASSUME NEW v \in Users, req'[v].pc = "start.guard", req'[v].p \notin guard'
      PROVE  req'[v].roster \cap spent'[req'[v].p] = {}
    <2>1. req'[v].p \in Parties /\ req'[v].roster \cap spent[req'[v].p] = {}
        <3>1. CASE req'[v] = req[v]
            BY <1>4, <3>1, FieldType DEF Naming, Spent, At
        <3>2. CASE v = u /\ req'[v] = s
            BY <1>4, <3>2
        <3>3. QED
            BY <1>2, <3>1, <3>2
    <2>2. QED
        BY <1>1, <2>1
<1>5. ASSUME NEW p \in guard \cap groups', NEW m \in spent'[p] \cap ready'[p]
      PROVE  \E v \in Users : Clears(req'[v], p, m)
    <2>1. p \in Parties /\ m \in spent[p] \cap ready[p] /\ m \in Users
        BY <1>1 DEF StoreOK
    <2>2. p \in groups
        BY <2>1
    <2>3. PICK v \in Users : Clears(req[v], p, m)
        BY <2>1, <2>2 DEF Spent
    <2>4. Clears(req'[v], p, m)
        BY <1>2, <2>1, <2>2, <2>3
    <2>5. QED
        BY <2>4
<1>6. (\A v \in Users : At(v, "start.guard") /\ req[v].p \notin guard =>
          req[v].roster \cap spent[req[v].p] = {})'
    BY <1>4 DEF At
<1>7. (\A p \in guard \cap groups : \A m \in spent[p] \cap ready[p] :
          \E v \in Users : Clears(req[v], p, m))'
    BY <1>5 DEF Clears
<1>8. QED
    BY <1>3, <1>6, <1>7 DEF Spent

-----------------------------------------------------------------------------
(* Ready rows and the joins that clear them, call by call. *)

Fresh == Kept /\ Unready /\ Staled

LEMMA FreshMild ==
    ASSUME StoreOK, Fresh, Mild, Remember, NEW u \in Users, NEW s, Turns(u, s), Kinds(s),
           s.pc \notin Departing,
           s.pc = "ready.write" =>
              /\ s.p \in Parties /\ creator[s.p] # None
              /\ s.p \in groups => u \in Active(s.p),
           Resets(s) /\ s.p \in groups => u \notin ready[s.p],
           \A m \in Users :
              Owing(req[u], m) /\ req[u].p \in groups /\ m \in ready[req[u].p]
              /\ m \in ready'[req[u].p]
                 => Owing(s, m) /\ s.p = req[u].p
    PROVE  Fresh'
<1>1. Kept'
    BY MildKept DEF Fresh
<1>2. \A p \in groups' : ready'[p] \subseteq ready[p] /\ (p \in groups \/ ready[p] = {})
    BY DEF Mild, StoreOK
<1>3. Unready'
    BY <1>2, UnreadyStep DEF Fresh, Mild
<1>4. \A p \in Parties : \A j \in Users : j \in Active(p)' => j \in Active(p)
    BY DEF Mild
<1>5. Staled'
    BY <1>4, StaledStep DEF Fresh
<1>6. QED
    BY <1>1, <1>3, <1>5 DEF Fresh

LEMMA FreshIdly ==
    ASSUME StoreOK, Fresh, Mild, Remember, NEW u \in Users, NEW s, Turns(u, s), Kinds(s),
           Idly(req[u], s)
    PROVE  Fresh'
<1>1. Resets(s) /\ s.p \in groups => u \notin ready[s.p]
    BY DEF Idly, Fresh, Unready
<1>2. \A m \in Users : Owing(req[u], m) => Owing(s, m) /\ s.p = req[u].p
    BY DEF Owing, Idly
<1>3. s.pc \notin Departing /\ s.pc # "ready.write"
    BY DEF Idly
<1>4. QED
    BY <1>1, <1>2, <1>3, FreshMild

(* A step that touches neither the groups nor their rows. *)
LEMMA StillMild ==
    ASSUME UNCHANGED <<groupVars, rowVars>>
    PROVE  Mild
BY MildFrame DEF rowVars

LEMMA ClearListFresh ==
    ASSUME ReqOK, StoreOK, Fresh, Remember, NEW u \in Users, ClearList(u)
    PROVE  Fresh'
<1> DEFINE r == req[u]
           s == req'[u]
<1>1. Turns(u, s) /\ Goes(r, s, "clear.delete", r.solos) /\ s.roster = Listed(r.p)
    BY ClearListTurns
<1>2. Mild
    BY StillMild DEF ClearList
<1>3. Kinds(s)
    BY KindsStep DEF Step, Fresh, Kept
<1>4. s.pc = "clear.delete" /\ s.p = r.p /\ s.op = r.op /\ r.pc = "clear.list"
    BY <1>1 DEF Goes, ClearList, At
<1>5. Resets(s) => Resets(r)
    BY <1>4 DEF Resets, Clearing, Disbanding
<1>6. Resets(r) => Resets(s)
    BY <1>4 DEF Resets, Clearing, Disbanding
<1>7. \A m \in Users : r.p \in groups /\ m \in ready[r.p] => m \in s.roster
    BY <1>1 DEF Fresh, Kept, Active, Listed
<1>8. \A m \in Users : Owing(r, m) /\ r.p \in groups /\ m \in ready[r.p]
                          => Owing(s, m) /\ s.p = r.p
    BY <1>4, <1>6, <1>7 DEF Owing
<1>9. Resets(s) /\ s.p \in groups => u \notin ready[s.p]
    BY <1>4, <1>5 DEF Fresh, Unready
<1>10. s.pc \notin Departing /\ s.pc # "ready.write"
    BY <1>4 DEF Departing, Leading
<1>11. QED
    BY <1>1, <1>2, <1>3, <1>8, <1>9, <1>10, FreshMild

LEMMA ClearDeleteFresh ==
    ASSUME ReqOK, StoreOK, Fresh, Remember, NEW u \in Users, ClearDelete(u)
    PROVE  Fresh'
<1> DEFINE r == req[u]
           s == req'[u]
<1>1. Turns(u, s) /\ (Goes(r, s, "join.landed", r.solos) \/ s = Idle)
    BY ClearDeleteTurns
<1>2. r.pc = "clear.delete" /\ ready' = [ready EXCEPT ![r.p] = @ \ r.roster]
    BY DEF ClearDelete, At
<1>3. \A p \in Parties : ready'[p] \subseteq ready[p]
    BY <1>2 DEF StoreOK
<1>4. Mild
    BY <1>3, MildFrame DEF ClearDelete
<1>5. Kinds(s)
    BY KindsStep DEF Step, Fresh, Kept
<1>6. s.pc \in {"join.landed", "idle"}
    BY <1>1, IdleFields DEF Goes
<1>7. ~Resets(s) /\ s.pc \notin Departing /\ s.pc # "ready.write"
    BY <1>6 DEF Resets, Clearing, Disbanding, Departing, Leading
<1>8. r.p \in groups => r.p \in Parties
    BY DEF StoreOK
<1>9. \A m \in Users : Owing(r, m) /\ r.p \in groups => m \notin ready'[r.p]
    BY <1>2, <1>8 DEF StoreOK, Owing
<1>10. QED
    BY <1>1, <1>4, <1>5, <1>7, <1>9, FreshMild

LEMMA StartFresh ==
    ASSUME ReqOK, StoreOK, Fresh, Remember, NEW u \in Users,
           StartRoster(u) \/ StartReady(u) \/ StartGuard(u)
    PROVE  Fresh'
<1> DEFINE r == req[u]
           s == req'[u]
<1>1. Kinds(s) /\ Turns(u, s)
    BY KindsStep DEF Step, Fresh, Kept
<1>2. Mild
    BY StillMild DEF StartRoster, StartReady, StartGuard
<1>3. r.pc \in BeforeGuard /\ r.op = "start"
    BY DEF StartRoster, StartReady, StartGuard, At, BeforeGuard, Fresh, Kept, Kinds
<1>4. s = Idle \/ (s.op = r.op /\ s.pc \in {"start.ready", "start.guard", "clear.list"})
    BY StartRosterTurns, CheckTurns DEF StartRoster, StartReady, StartGuard, Same, Goes, Turns
<1>5. s.pc \in {"idle", "start.ready", "start.guard", "clear.list"} /\ s.op \in {"idle", "start"}
    BY <1>3, <1>4, IdleFields
<1>6. ~Resets(s) /\ s.pc \notin Departing /\ s.pc # "ready.write"
    BY <1>5 DEF Resets, Clearing, Disbanding, Departing, Leading, Moving
<1>7. ~Resets(r)
    BY <1>3 DEF Resets, Clearing, Disbanding, BeforeGuard
<1>8. QED
    BY <1>1, <1>2, <1>6, <1>7, FreshMild DEF Owing

LEMMA SetReadyFields ==
    ASSUME ReqOK, StoreOK, NEW u \in Users, Send(u), req'[u].pc = "ready.write"
    PROVE  req'[u].p \in groups /\ u \in Active(req'[u].p)
<1> DEFINE s == req'[u]
<1>1. ASSUME NEW op, NEW pc, NEW p, NEW t, Begin(u, New(op, pc, p, t))
      PROVE  s.pc = pc /\ s.p = p
    BY <1>1, BeginTurns, NewFields DEF Turns
<1>2. CASE Create(u)
    <2> DEFINE d == [New("create", "create.count", None, None)
                       EXCEPT !.solos = Memberships(u, None)]
    <2>1. Begin(u, d) /\ d.pc = "create.count"
        BY <1>2, CreateFields DEF Create
    <2>2. QED
        BY <2>1, BeginTurns DEF Turns
<1>3. ASSUME NEW c \in Codes PROVE ~JoinByCode(u, c)
    <2> DEFINE d == [New("joinByCode", "code.group", forward[c], None) EXCEPT !.c = c]
    <2>1. d.pc = "code.group"
        BY JoinByCodeFields
    <2>2. JoinByCode(u, c) => Begin(u, d)
        BY DEF JoinByCode
    <2> HIDE DEF d
    <2>3. QED
        BY <2>1, <2>2, BeginTurns DEF Turns
<1>4. ASSUME NEW p \in Parties PROVE ~Disband(u, p)
    BY <1>4, BeginTurns, DisbandFields DEF Disband, Turns
<1>5. ASSUME NEW p \in Parties, SetReady(u, p, "ready") \/ SetReady(u, p, "unready")
      PROVE  s.p \in groups /\ u \in Active(s.p)
    BY <1>1, <1>5 DEF SetReady
<1>6. ASSUME NEW p \in Parties
      PROVE  ~(\/ Join(u, p) \/ Leave(u, p) \/ SetSettings(u, p) \/ GetCode(u, p)
               \/ Start(u, p) \/ Abort(u, p))
    BY <1>1 DEF Join, Leave, SetSettings, GetCode, Start, Abort
<1>7. ASSUME NEW p \in Parties, NEW t \in Users
      PROVE  ~(Invite(u, p, t) \/ Add(u, p, t) \/ Kick(u, p, t) \/ Transfer(u, p, t))
    BY <1>1 DEF Invite, Add, Kick, Transfer
<1>8. QED
    BY <1>2, <1>3, <1>4, <1>5, <1>6, <1>7 DEF Send

LEMMA SendFresh ==
    ASSUME {"leave", "kick"} \cap Ops = {}, ReqOK, StoreOK, Fresh, Remember, NEW u \in Users,
           Send(u)
    PROVE  Fresh'
<1> DEFINE r == req[u]
           s == req'[u]
<1>1. /\ Turns(u, s) /\ s.op \in Ops /\ r.pc = "idle" /\ <<s.op, s.pc>> \in Sent
      /\ UNCHANGED <<groups, creator, rowVars, guard, faults>>
      /\ s.op # "leave" => edge' = edge
    BY SendTurns
<1>2. s.op \notin {"leave", "kick"}
    BY <1>1
<1>3. Mild
    BY <1>1, <1>2, StillMild DEF groupVars
<1>4. s.pc \notin Departing /\ ~Resets(s)
    BY <1>1, <1>2 DEF Sent, Departing, Leading, Resets, Clearing, Disbanding, Moving
<1>5. ~Resets(r)
    BY <1>1 DEF Resets, Clearing, Disbanding
<1>6. s.pc = "ready.write" =>
         /\ s.p \in Parties /\ creator[s.p] # None
         /\ s.p \in groups => u \in Active(s.p)
    BY SetReadyFields DEF Fresh, Kept, StoreOK
<1>7. QED
    BY <1>1, <1>3, <1>4, <1>5, <1>6, KindsSend, FreshMild DEF Owing

(* u becomes an active member of p, whose rows the request will clear. *)
LEMMA EnterFresh ==
    ASSUME StoreOK, Fresh, Remember, NEW u \in Users, NEW s, NEW p \in groups, Turns(u, s),
           Kinds(s), ~Resets(req[u]), Resets(s), s.p = p, s.pc # "clear.delete",
           s.pc \notin Departing, s.pc # "ready.write", u \notin Active(p),
           Edge1(p, u, "member"), UNCHANGED <<groups, creator, rowVars>>
    PROVE  Fresh'
<1>1. p \in Parties
    BY DEF StoreOK
<1>2. \A q \in Parties : Active(q)' = IF q = p THEN Active(q) \cup {u} ELSE Active(q)
    BY <1>1, MemberEdge
<1>3. ready' = ready
    BY DEF rowVars
<1>4. ASSUME NEW v \in Users
      PROVE  /\ Kinds(req'[v]) /\ req'[v].pc \notin Departing
             /\ req'[v].pc = "ready.write" => req'[v] = req[v]
    BY DEF Turns, Fresh, Kept
<1>5. (\A v \in Users : Kinds(req[v]) /\ req[v].pc \notin Departing)'
    BY <1>4 DEF Kinds
<1>6. (\A q \in groups : creator[q] # None /\ ready[q] \subseteq Active(q))'
    BY <1>2, <1>3 DEF Fresh, Kept, StoreOK
<1>7. (\A q \in Parties : creator[q] = None => ready[q] = {})'
    BY <1>3 DEF Fresh, Kept
<1>8. (\A q \in Parties \ groups : \A v \in Users : edge[q][v] = "none")'
    BY DEF Fresh, Kept, Edge1
<1>9. (\A v \in Users : At(v, "ready.write") =>
          /\ req[v].p \in Parties /\ creator[req[v].p] # None
          /\ req[v].p \in groups => v \in Active(req[v].p))'
    <2> DEFINE Fits1(v) == At(v, "ready.write") =>
                   /\ req[v].p \in Parties /\ creator[req[v].p] # None
                   /\ req[v].p \in groups => v \in Active(req[v].p)
    <2>1. ASSUME NEW v \in Users, req'[v].pc = "ready.write"
          PROVE  /\ req'[v].p \in Parties /\ creator[req'[v].p] # None
                 /\ req'[v].p \in groups => v \in Active(req'[v].p)
        <3>1. req'[v] = req[v]
            BY <1>4, <2>1
        <3>2. Fits1(v)
            BY DEF Fresh, Kept
        <3>3. QED
            BY <2>1, <3>1, <3>2 DEF At
    <2>2. ASSUME NEW v \in Users PROVE Fits1(v)'
        <3>1. CASE req'[v].pc # "ready.write"
            BY <3>1 DEF At
        <3>2. CASE req'[v].pc = "ready.write"
            <4>1. req'[v].p \in groups' => v \in Active(req[v].p)'
                BY <1>2, <2>1, <3>2 DEF Active
            <4>2. QED
                BY <2>1, <3>2, <4>1 DEF At
        <3>3. QED
            BY <3>1, <3>2
    <2>3. QED
        BY <2>2
<1>10. Kept'
    BY <1>5, <1>6, <1>7, <1>8, <1>9 DEF Kept
<1>11. u \notin ready[p]
    BY DEF Fresh, Kept
<1>12. Unready'
    BY <1>3, <1>11, UnreadyStep DEF Fresh
<1>13. \A q \in Parties : \A j \in Users :
          j \in Active(q)' => j \in Active(q) \/ (j = u /\ s.p = q)
    BY <1>2
<1>14. Staled'
    BY <1>13, StaledStep DEF Fresh, Owing
<1>15. QED
    BY <1>10, <1>12, <1>14 DEF Fresh

LEMMA JoinCommitFresh ==
    ASSUME ReqOK, StoreOK, Fresh, Remember, NEW u \in Users, JoinCommit(u)
    PROVE  Fresh'
<1> DEFINE r == req[u]
           s == req'[u]
           p == req[u].p
<1>1. r.pc = "join.commit" /\ r.op = "join"
    BY DEF JoinCommit, At, Fresh, Kept, Kinds
<1>2. ~Resets(r) /\ r.pc \in Plain
    BY <1>1 DEF Resets, Clearing, Disbanding, Plain
<1>3. Kinds(s) /\ Turns(u, s)
    BY KindsStep DEF Step, Fresh, Kept
<1>4. UNCHANGED <<groups, creator, rowVars>>
    BY DEF JoinCommit
<1>5. CASE Finish(u) /\ UNCHANGED edge
    <2>1. Turns(u, Idle) /\ Idle.pc \in Plain
        BY <1>5, FinishTurns, IdleFields DEF Plain
    <2>2. Mild
        BY <1>4, <1>5, StillMild DEF groupVars
    <2>3. QED
        BY <1>2, <2>1, <2>2, PlainIdly, KindsIdle, FreshIdly
<1>6. CASE p \in groups /\ Goto(u, "clear.list")
    <2>1. s.pc = "clear.list" /\ s.p = p /\ s.op = "join"
        BY <1>1, <1>6, GotoTurns DEF Same, Goes
    <2>2. Resets(s) /\ s.pc \notin Departing /\ s.pc # "ready.write" /\ s.pc # "clear.delete"
        BY <2>1 DEF Resets, Clearing, Moving, Departing, Leading
    <2>3. CASE edge[p][u] = "invited" /\ edge' = [edge EXCEPT ![p][u] = "member"]
        <3>1. Edge1(p, u, "member") /\ u \notin Active(p)
            BY <2>3, EdgeSet DEF Active
        <3>2. QED
            BY <1>2, <1>3, <1>4, <1>6, <2>1, <2>2, <3>1, EnterFresh
    <2>4. CASE edge[p][u] \in {"none", "requested"}
               /\ edge' = [edge EXCEPT ![p][u] = "requested"]
        <3>1. Edge1(p, u, "requested") /\ u \notin Active(p)
            BY <2>4, EdgeSet DEF Active
        <3>2. p \in Parties
            BY <1>6 DEF StoreOK
        <3>3. \A q \in Parties : Active(q)' = Active(q)
            BY <3>1, <3>2, OutsiderEdge
        <3>4. Mild
            BY <1>4, <1>6, <3>1, <3>3 DEF Mild, Edge1, rowVars
        <3>5. u \notin ready[p]
            BY <1>6, <3>1 DEF Fresh, Kept
        <3>6. QED
            BY <1>2, <1>3, <2>1, <2>2, <3>4, <3>5, FreshMild DEF Owing
    <2>5. QED
        BY <1>1, <1>6, <2>1, <2>3, <2>4, FinishTurns, IdleFields DEF JoinCommit, Turns
<1>7. QED
    BY <1>5, <1>6 DEF JoinCommit

LEMMA CodeAddFresh ==
    ASSUME ReqOK, StoreOK, Fresh, Remember, NEW u \in Users, CodeAdd(u)
    PROVE  Fresh'
<1> DEFINE r == req[u]
           s == req'[u]
           p == req[u].p
<1>1. r.pc = "code.add" /\ r.op = "joinByCode"
    BY DEF CodeAdd, At, Fresh, Kept, Kinds
<1>2. ~Resets(r) /\ r.pc \in Plain
    BY <1>1 DEF Resets, Clearing, Disbanding, Plain
<1>3. Kinds(s) /\ Turns(u, s)
    BY KindsStep DEF Step, Fresh, Kept
<1>4. UNCHANGED <<groups, creator, rowVars>>
    BY DEF CodeAdd
<1>5. CASE Finish(u) /\ UNCHANGED edge
    <2>1. Turns(u, Idle) /\ Idle.pc \in Plain
        BY <1>5, FinishTurns, IdleFields DEF Plain
    <2>2. Mild
        BY <1>4, <1>5, StillMild DEF groupVars
    <2>3. QED
        BY <1>2, <2>1, <2>2, PlainIdly, KindsIdle, FreshIdly
<1>6. CASE /\ p \in groups /\ u \notin Active(p)
           /\ edge' = [edge EXCEPT ![p][u] = "member"] /\ Goto(u, "code.solos")
    <2>1. s.pc = "code.solos" /\ s.p = p
        BY <1>6, GotoTurns DEF Same, Goes
    <2>2. Resets(s) /\ s.pc \notin Departing /\ s.pc # "ready.write" /\ s.pc # "clear.delete"
        BY <2>1 DEF Resets, Departing, Leading
    <2>3. Edge1(p, u, "member")
        BY <1>6, EdgeSet
    <2>4. QED
        BY <1>2, <1>3, <1>4, <1>6, <2>1, <2>2, <2>3, EnterFresh
<1>7. QED
    BY <1>5, <1>6 DEF CodeAdd

LEMMA CreateCommitFresh ==
    ASSUME ReqOK, StoreOK, Fresh, Remember, NEW u \in Users, CreateCommit(u)
    PROVE  Fresh'
<1>1. PICK p \in Parties : /\ creator[p] = None
                           /\ creator' = [creator EXCEPT ![p] = u]
                           /\ groups' = groups \cup {p}
                           /\ edge' = [edge EXCEPT ![p][u] = "admin"]
    BY DEF CreateCommit
<1>2. Turns(u, Idle)
    BY FinishTurns DEF CreateCommit
<1>3. ready' = ready /\ ready[p] = {} /\ p \notin groups
    BY <1>1 DEF CreateCommit, rowVars, Fresh, Kept
<1>4. Edge1(p, u, "admin")
    BY <1>1, EdgeSet
<1>5. \A q \in Parties : Active(q)' = IF q = p THEN Active(q) \cup {u} ELSE Active(q)
    BY <1>4, MemberEdge
<1>6. req[u].pc = "create.commit" /\ ~Resets(req[u]) /\ ~Resets(Idle)
    BY IdleFields DEF CreateCommit, At, Resets, Clearing, Disbanding
<1>7. (\A v \in Users : Kinds(req[v]) /\ req[v].pc \notin Departing)'
    <2>1. Idle.pc \notin Departing
        BY IdleFields DEF Departing, Leading
    <2>2. ASSUME NEW v \in Users PROVE Kinds(req'[v]) /\ req'[v].pc \notin Departing
        BY <1>2, <2>1, KindsIdle DEF Turns, Fresh, Kept
    <2>3. QED
        BY <2>2 DEF Kinds
<1>8. (\A q \in groups : creator[q] # None /\ ready[q] \subseteq Active(q))'
    <2>1. ASSUME NEW q \in groups' PROVE creator'[q] # None /\ ready'[q] \subseteq Active(q)'
        <3>1. CASE q = p
            BY <1>1, <1>3, <3>1, NoneIsNobody DEF StoreOK
        <3>2. CASE q # p
            BY <1>1, <1>3, <1>5, <3>2 DEF StoreOK, Fresh, Kept
        <3>3. QED
            BY <3>1, <3>2
    <2>2. QED
        BY <2>1
<1>9. (\A q \in Parties : creator[q] = None => ready[q] = {})'
    BY <1>1, <1>3, NoneIsNobody DEF StoreOK, Fresh, Kept
<1>10. (\A q \in Parties \ groups : \A v \in Users : edge[q][v] = "none")'
    BY <1>1, <1>4 DEF Fresh, Kept, Edge1
<1>11. (\A v \in Users : At(v, "ready.write") =>
          /\ req[v].p \in Parties /\ creator[req[v].p] # None
          /\ req[v].p \in groups => v \in Active(req[v].p))'
    <2> DEFINE Member(v) == At(v, "ready.write") =>
                   /\ req[v].p \in Parties /\ creator[req[v].p] # None
                   /\ req[v].p \in groups => v \in Active(req[v].p)
    <2>1. ASSUME NEW v \in Users PROVE Member(v)'
        <3>1. CASE req'[v].pc # "ready.write"
            BY <3>1 DEF At
        <3>2. CASE req'[v].pc = "ready.write"
            <4>1. req'[v] = req[v]
                BY <1>2, <3>2, IdleFields DEF Turns
            <4>2. Member(v)
                BY DEF Fresh, Kept
            <4>3. /\ req[v].p \in Parties /\ req[v].p # p /\ creator[req[v].p] # None
                  /\ req[v].p \in groups => v \in Active(req[v].p)
                BY <1>1, <3>2, <4>1, <4>2 DEF At
            <4>4. creator'[req[v].p] # None /\ (req[v].p \in groups' => req[v].p \in groups)
                BY <1>1, <4>3 DEF StoreOK
            <4>5. edge'[req[v].p][v] = edge[req[v].p][v]
                BY <1>4, <4>3 DEF Edge1
            <4>6. QED
                BY <4>1, <4>3, <4>4, <4>5 DEF Active
        <3>3. QED
            BY <3>1, <3>2
    <2>2. QED
        BY <2>1
<1>12. Kept'
    BY <1>7, <1>8, <1>9, <1>10, <1>11 DEF Kept
<1>13. Unready'
    BY <1>1, <1>2, <1>3, <1>6, UnreadyStep DEF Fresh
<1>14. \A q \in Parties : \A j \in Users :
          j \in Active(q)' => j \in Active(q) \/ ready[q] = {}
    BY <1>3, <1>5
<1>15. Staled'
    BY <1>2, <1>6, <1>14, StaledStep DEF Fresh, Owing
<1>16. QED
    BY <1>12, <1>13, <1>15 DEF Fresh

LEMMA DisbandDeleteFresh ==
    ASSUME ReqOK, StoreOK, Fresh, Remember, NEW u \in Users, DisbandDelete(u)
    PROVE  Fresh'
<1> DEFINE r == req[u]
           s == req'[u]
           q == req[u].q
<1>1. r.pc = "disband.delete" /\ r.pc \notin Clearing
    BY DEF DisbandDelete, At, Clearing
<1>2. Kinds(s) /\ Turns(u, s)
    BY KindsStep DEF Step, Fresh, Kept
<1>3. CASE q \notin groups
    <2>1. Mild
        BY <1>3, StillMild DEF DisbandDelete, groupVars
    <2>2. (s = Idle /\ r.op = "create") \/ Solos(r, s, r.solos \ {q})
        BY <1>3, DisbandDeleteTurns
    <2>3. s = Idle /\ r.op = "create" => Idly(r, s)
        BY <1>1, IdleFields
           DEF Idly, Departing, Leading, Clearing, Resets, Moving, Disbanding
    <2>4. Solos(r, s, r.solos \ {q}) => Idly(r, s)
        BY <1>1, SolosIdly DEF Disbanding
    <2>5. QED
        BY <1>2, <2>1, <2>2, <2>3, <2>4, FreshIdly
<1>4. CASE q \in groups
    <2>1. s.pc = "disband.rows" /\ s.p = r.p /\ s.op = r.op
        BY <1>4, DisbandDeleteTurns DEF Same, Goes
    <2>2. /\ groups' = groups \ {q} /\ creator' = creator /\ ready' = ready
          /\ edge' = [edge EXCEPT ![q] = [v \in Users |-> "none"]]
        BY <1>4 DEF DisbandDelete, rowVars
    <2>3. \A p \in Parties :
             /\ \A v \in Users : edge'[p][v] = IF p = q THEN "none" ELSE edge[p][v]
             /\ Active(p)' = IF p = q THEN {} ELSE Active(p)
        BY <2>2, DeleteEdges
    <2>4. (\A v \in Users : Kinds(req[v]) /\ req[v].pc \notin Departing)'
        <3>1. ASSUME NEW v \in Users PROVE Kinds(req'[v]) /\ req'[v].pc \notin Departing
            BY <1>2, <2>1 DEF Turns, Fresh, Kept, Departing, Leading
        <3>2. QED
            BY <3>1 DEF Kinds
    <2>5. (\A p \in groups : creator[p] # None /\ ready[p] \subseteq Active(p))'
        BY <2>2, <2>3 DEF Fresh, Kept, StoreOK
    <2>6. (\A p \in Parties : creator[p] = None => ready[p] = {})'
        BY <2>2 DEF Fresh, Kept
    <2>7. (\A p \in Parties \ groups : \A v \in Users : edge[p][v] = "none")'
        BY <2>2, <2>3 DEF Fresh, Kept
    <2>8. (\A v \in Users : At(v, "ready.write") =>
              /\ req[v].p \in Parties /\ creator[req[v].p] # None
              /\ req[v].p \in groups => v \in Active(req[v].p))'
        <3> DEFINE Member(v) == At(v, "ready.write") =>
                       /\ req[v].p \in Parties /\ creator[req[v].p] # None
                       /\ req[v].p \in groups => v \in Active(req[v].p)
        <3>1. ASSUME NEW v \in Users PROVE Member(v)'
            <4>1. CASE req'[v].pc # "ready.write"
                BY <4>1 DEF At
            <4>2. CASE req'[v].pc = "ready.write"
                <5>1. req'[v] = req[v]
                    BY <1>2, <2>1, <4>2 DEF Turns
                <5>2. Member(v)
                    BY DEF Fresh, Kept
                <5>3. /\ req[v].p \in Parties /\ creator[req[v].p] # None
                      /\ req[v].p \in groups => v \in Active(req[v].p)
                    BY <4>2, <5>1, <5>2 DEF At
                <5>4. req[v].p \in groups' => edge'[req[v].p][v] = edge[req[v].p][v]
                    BY <2>2, <2>3, <5>3
                <5>5. QED
                    BY <2>2, <5>1, <5>3, <5>4 DEF Active
            <4>3. QED
                BY <4>1, <4>2
        <3>2. QED
            BY <3>1
    <2>9. Kept'
        BY <2>4, <2>5, <2>6, <2>7, <2>8 DEF Kept
    <2>10. Resets(s) => Resets(r)
        BY <1>1, <2>1 DEF Resets, Clearing, Disbanding
    <2>11. Resets(r) => Resets(s)
        BY <1>1, <2>1 DEF Resets, Clearing, Disbanding
    <2>12. Resets(s) /\ s.p \in groups' => u \notin ready[s.p]
        BY <2>1, <2>2, <2>10 DEF Fresh, Unready
    <2>13. Unready'
        BY <1>2, <2>2, <2>12, UnreadyStep DEF Fresh
    <2>14. \A p \in Parties : \A j \in Users : j \in Active(p)' => j \in Active(p)
        BY <2>3
    <2>15. \A m \in Users : Owing(r, m) => Owing(s, m) /\ s.p = r.p
        BY <2>1, <2>11 DEF Owing
    <2>16. Staled'
        BY <1>2, <2>14, <2>15, StaledStep DEF Fresh
    <2>17. QED
        BY <2>9, <2>13, <2>16 DEF Fresh
<1>5. QED
    BY <1>3, <1>4

LEMMA ReadyWriteFresh ==
    ASSUME ReqOK, StoreOK, Fresh, Remember, NEW u \in Users, ReadyWrite(u)
    PROVE  Fresh'
<1> DEFINE p == req[u].p
<1>1. /\ req[u].pc = "ready.write"
      /\ ready' = [ready EXCEPT ![p] = IF req[u].op = "ready" THEN @ \cup {u} ELSE @ \ {u}]
      /\ UNCHANGED groupVars
    BY DEF ReadyWrite, At
<1>2. Turns(u, Idle)
    BY FinishTurns DEF ReadyWrite
<1>3. p \in Parties /\ creator[p] # None /\ (p \in groups => u \in Active(p))
    BY <1>1 DEF Fresh, Kept, At
<1>4. \A q \in Parties : ready'[q] \subseteq IF q = p THEN ready[q] \cup {u} ELSE ready[q]
    BY <1>1 DEF StoreOK
<1>5. groups' = groups /\ creator' = creator /\ edge' = edge
      /\ \A q \in Parties : Active(q)' = Active(q)
    BY <1>1, EdgesKept DEF groupVars
<1>6. Idle.pc \notin Departing /\ Idle.pc # "ready.write" /\ ~Resets(Idle) /\ ~Resets(req[u])
    BY <1>1, IdleFields DEF Departing, Leading, Resets, Clearing, Disbanding
<1>7. Kept'
    <2> DEFINE Member(v) == At(v, "ready.write") =>
                   /\ req[v].p \in Parties /\ creator[req[v].p] # None
                   /\ req[v].p \in groups => v \in Active(req[v].p)
    <2>1. ASSUME NEW v \in Users
          PROVE  Kinds(req'[v]) /\ req'[v].pc \notin Departing /\ Member(v)'
        <3>1. CASE v = u
            BY <1>2, <1>6, <3>1, KindsIdle DEF Turns, At
        <3>2. CASE v # u
            <4>1. req'[v] = req[v] /\ Kinds(req[v]) /\ req[v].pc \notin Departing /\ Member(v)
                BY <1>2, <3>2 DEF Turns, Fresh, Kept
            <4>2. edge' = edge /\ groups' = groups /\ creator' = creator
                BY <1>5
            <4>3. QED
                BY <4>1, <4>2 DEF At, Active
        <3>3. QED
            BY <3>1, <3>2
    <2>2. (\A v \in Users : Kinds(req[v]) /\ req[v].pc \notin Departing)'
        BY <2>1 DEF Kinds
    <2>3. (\A q \in groups : creator[q] # None /\ ready[q] \subseteq Active(q))'
        BY <1>3, <1>4, <1>5 DEF Fresh, Kept, StoreOK
    <2>4. (\A q \in Parties : creator[q] = None => ready[q] = {})'
        BY <1>3, <1>4, <1>5 DEF Fresh, Kept
    <2>5. (\A q \in Parties \ groups : \A v \in Users : edge[q][v] = "none")'
        BY <1>5 DEF Fresh, Kept
    <2>6. QED
        BY <2>1, <2>2, <2>3, <2>4, <2>5 DEF Kept
<1>8. Unready'
    <2>1. ASSUME NEW v \in Users, Resets(req'[v]), req'[v].p \in groups'
          PROVE  v \notin ready'[req'[v].p]
        <3>1. v # u /\ req'[v] = req[v]
            BY <1>2, <1>6, <2>1 DEF Turns
        <3>2. req[v].p \in Parties /\ v \notin ready[req[v].p]
            BY <1>5, <2>1, <3>1 DEF Fresh, Unready, StoreOK
        <3>3. QED
            BY <1>4, <3>1, <3>2
    <2>2. ASSUME NEW v \in Users
          PROVE  (Resets(req[v]) /\ req[v].p \in groups => v \notin ready[req[v].p])'
        BY <2>1 DEF Resets
    <2>3. QED
        BY <2>2 DEF Unready
<1>9. Staled'
    BY <1>2, <1>5, <1>6, StaledStep DEF Fresh, Owing
<1>10. QED
    BY <1>7, <1>8, <1>9 DEF Fresh

LEMMA FreshUnmoved ==
    ASSUME UNCHANGED <<groupVars, rowVars, req>>, Fresh,
           \A p \in Parties : stale'[p] \subseteq stale[p]
    PROVE  Fresh'
<1>1. /\ groups' = groups /\ creator' = creator /\ edge' = edge /\ ready' = ready /\ req' = req
    BY DEF groupVars, rowVars
<1>2. Kept'
    BY <1>1 DEF Fresh, Kept, Active, At, Kinds
<1>3. Unready'
    BY <1>1 DEF Fresh, Unready, Resets
<1>4. Staled'
    BY <1>1 DEF Fresh, Staled, Active, Owing, Resets
<1>5. QED
    BY <1>2, <1>3, <1>4 DEF Fresh

(* The call is none of a leave or a kick, and fails in no way. *)
LEMMA KeptCalls ==
    ASSUME Kept, NEW u \in Users, Step(u)
    PROVE  \/ QuietStep(u) \/ DisbandDelete(u) \/ ClearList(u) \/ ClearDelete(u)
           \/ CreateCommit(u) \/ JoinCommit(u) \/ CodeAdd(u) \/ ReadyWrite(u)
           \/ StartRoster(u) \/ StartReady(u) \/ StartGuard(u)
<1>1. /\ ~LeadResolve(u) /\ ~LeadRoster(u) /\ ~LeadWrite(u) /\ ~LeadPromote(u)
      /\ ~LeaveRows(u) /\ ~KickRoster(u) /\ ~KickCommit(u) /\ ~KickRows(u)
    BY DEF Kept, Departing, Leading, At, LeadResolve, LeadRoster, LeadWrite, LeadPromote,
           LeaveRows, KickRoster, KickCommit, KickRows
<1>2. QED
    BY <1>1 DEF Step, QuietStep

LEMMA FaultFree ==
    ASSUME StoreOK, MaxFaults = 0
    PROVE  ~RuntimeRestart /\ \A u \in Users : ~CallError(u)
BY DEF StoreOK, RuntimeRestart, CallError

LEMMA FreshNext ==
    ASSUME {"leave", "kick"} \cap Ops = {}, MaxFaults = 0, ReqOK, StoreOK, Fresh,
           [NextReady]_readyVars
    PROVE  Fresh'
<1>1. ASSUME NEW u \in Users, Step(u), Remember
      PROVE  Fresh'
    <2>1. CASE QuietStep(u)
        <3>1. Kinds(req'[u]) /\ Turns(u, req'[u])
            BY <1>1, KindsStep DEF Fresh, Kept
        <3>2. Idly(req[u], req'[u])
            BY <2>1, QuietIdly DEF Fresh, Kept
        <3>3. QED
            BY <1>1, <2>1, <3>1, <3>2, QuietMild, FreshIdly
    <2>2. QED
        BY <1>1, <2>1, KeptCalls, DisbandDeleteFresh, ClearListFresh, ClearDeleteFresh,
           CreateCommitFresh, JoinCommitFresh, CodeAddFresh, ReadyWriteFresh, StartFresh
           DEF Fresh
<1>2. ASSUME NEW u \in Users, Send(u), Remember
      PROVE  Fresh'
    BY <1>2, SendFresh
<1>3. ASSUME NEW p \in Parties, GuardExpire(p), Remember
      PROVE  Fresh'
    <2>1. UNCHANGED <<groupVars, rowVars, req>> /\ \A q \in Parties : Active(q)' = Active(q)
        BY <1>3, EdgesKept DEF GuardExpire, groupVars
    <2>2. \A q \in Parties : stale'[q] \subseteq stale[q]
        <3>1. stale' = [q \in Parties |->
                 {mj \in Users \X Users :
                    /\ mj[1] \in ready[q] /\ mj[1] \in ready'[q] /\ mj[2] \in Active(q)'
                    /\ mj[2] \in Active(q) => mj \in stale[q]}]
            BY <1>3 DEF Remember
        <3>2. QED
            BY <2>1, <3>1
    <2>3. QED
        BY <2>1, <2>2, FreshUnmoved
<1>4. CASE UNCHANGED readyVars
    BY <1>4, FreshUnmoved DEF readyVars, vars, groupVars, rowVars
<1>5. QED
    BY <1>1, <1>2, <1>3, <1>4, FaultFree DEF NextReady, Next

LEMMA FreshInit ==
    ASSUME InitReady
    PROVE  Fresh
<1>1. \A u \in Users : req[u] = Idle
    BY DEF InitReady, Init
<1>2. \A u \in Users : Kinds(req[u]) /\ req[u].pc = "idle"
    BY <1>1, KindsIdle, IdleFields
<1>3. Kept
    BY <1>2 DEF Kept, InitReady, Init, Departing, Leading, At
<1>4. Unready
    BY <1>2 DEF Unready, Resets, Clearing, Disbanding
<1>5. Staled
    BY DEF Staled, InitReady
<1>6. QED
    BY <1>3, <1>4, <1>5 DEF Fresh

LEMMA TypedReady == SpecReady => [](ReqOK /\ StoreOK)
<1>1. InitReady => Init
    BY DEF InitReady
<1>2. [NextReady]_readyVars => [Next]_vars
    BY DEF NextReady, readyVars
<1>3. SpecReady => Spec
    BY <1>1, <1>2, PTL DEF SpecReady, Spec
<1>4. QED
    BY <1>3, Typed, PTL

(* A start that has read its roster goes on to read its flags, or to the guard. *)
LEMMA StartCall ==
    ASSUME MaxFaults = 0, ReqOK, StoreOK, Kept, Next, NEW u \in Users,
           req[u].pc \in {"start.ready", "start.guard"}, req'[u] # req[u]
    PROVE  StartReady(u) \/ StartGuard(u)
<1>1. ASSUME NEW v \in Users, Send(v) PROVE FALSE
    BY <1>1, SendTurns DEF Turns
<1>2. ASSUME NEW v \in Users, Step(v) PROVE v = u
    BY <1>2, KindsStep DEF Kept, Turns
<1>3. ~\E p \in Parties : GuardExpire(p)
    BY DEF GuardExpire
<1>4. Step(u)
    BY <1>1, <1>2, <1>3, FaultFree DEF Next
<1>5. ~QuietStep(u)
    BY QuietIdly DEF Kept, Idly
<1>6. ~(\/ DisbandDelete(u) \/ ClearList(u) \/ ClearDelete(u) \/ CreateCommit(u)
        \/ JoinCommit(u) \/ CodeAdd(u) \/ ReadyWrite(u) \/ StartRoster(u))
    BY DEF At, DisbandDelete, ClearList, ClearDelete, CreateCommit, JoinCommit, CodeAdd,
           ReadyWrite, StartRoster
<1>7. QED
    BY <1>4, <1>5, <1>6, KeptCalls

(* What tryStart is about to hear: the roster was ready, and had been since  *)
(* its last member came.                                                     *)
LEMMA CountsFresh ==
    ASSUME MaxFaults = 0, ReqOK, StoreOK, Fresh, [NextReady]_readyVars, NEW u \in Users,
           At(u, "start.ready"), req'[u].pc = "start.guard",
           NEW m \in req[u].roster, NEW j \in req[u].roster
    PROVE  <<m, j>> \notin stale[req[u].p]
<1> DEFINE p == req[u].p
<1>1. req[u].roster \subseteq Users /\ p \in Parties
    BY FieldType DEF At, Naming
<1>2. req[u].roster \subseteq ready[p]
    <2>1. req'[u] # req[u]
        BY DEF At
    <2>2. Next
        BY <2>1 DEF NextReady, readyVars, vars
    <2>3. StartReady(u)
        BY <2>1, <2>2, StartCall DEF Fresh, At, StartGuard
    <2>4. QED
        BY <2>3, CheckTurns, IdleFields DEF StartReady, Turns
<1>3. SUFFICES ASSUME <<m, j>> \in stale[p] PROVE FALSE
    OBVIOUS
<1>4. j \in Active(p) /\ req[j].p = p /\ Resets(req[j])
    BY <1>1, <1>3 DEF Fresh, Staled, Owing
<1>5. p \in groups
    BY <1>1, <1>4 DEF Fresh, Kept, Active
<1>6. QED
    BY <1>1, <1>2, <1>4, <1>5 DEF Fresh, Unready

(* A start lets its roster through on ready rows that are all from after the *)
(* last of them joined: whatever requests overlap, for any number of players *)
(* and parties, when nobody leaves or is kicked and no call fails.  A join   *)
(* keeps its debt to its last call, and its joiner has no row until then.    *)
THEOREM CountsFreshRows ==
    {"leave", "kick"} \cap Ops = {} /\ MaxFaults = 0 => (SpecReady => StartCountsFreshRows)
<1> SUFFICES ASSUME {"leave", "kick"} \cap Ops = {}, MaxFaults = 0
             PROVE  SpecReady => StartCountsFreshRows
    OBVIOUS
<1>1. InitReady => Fresh
    BY FreshInit
<1>2. ReqOK /\ StoreOK /\ Fresh /\ [NextReady]_readyVars => Fresh'
    BY FreshNext
<1>3. ReqOK /\ StoreOK /\ Fresh /\ [NextReady]_readyVars =>
        [\A u \in Users :
           (At(u, "start.ready") /\ req'[u].pc = "start.guard") =>
               \A m, j \in req[u].roster : <<m, j>> \notin stale[req[u].p]]_readyVars
    BY CountsFresh
<1>4. QED
    BY <1>1, <1>2, <1>3, TypedReady, PTL DEF SpecReady, StartCountsFreshRows

-----------------------------------------------------------------------------
(* Ready rows and the starts that spend them, call by call. *)

Lasting == Kept /\ StartInv /\ Spent

(* The request r of u goes on as s, neither to read flags nor to the guard, *)
(* and with no rows to clear.                                               *)
LEMMA SpentIdly ==
    ASSUME ReqOK, StoreOK, Spent, Remember, NEW u \in Users, NEW s, Turns(u, s),
           guard' = guard, groups' = groups, Idly(req[u], s)
    PROVE  Spent'
<1>1. s.pc \notin {"start.ready", "start.guard"} /\ req[u].pc \notin Clearing \cup {"start.guard"}
    BY DEF Idly
<1>2. \A p \in Parties : \A m \in Users : ~Clears(req[u], p, m)
    BY <1>1 DEF Clears
<1>3. \A v \in Users : \A p \in Parties : ~Started(v, p)
    BY <1>1, NotStarted
<1>4. QED
    BY <1>1, <1>2, <1>3, SpentStep

LEMMA QuietSpent ==
    ASSUME ReqOK, StoreOK, Lasting, Remember, NEW u \in Users, QuietStep(u)
    PROVE  Spent'
<1>1. Turns(u, req'[u]) /\ Idly(req[u], req'[u]) /\ Mild
    BY QuietIdly, QuietMild DEF Lasting, Kept
<1>2. ~AbortRoster(u)
    BY DEF Lasting, StartInv, AbortRoster, At
<1>3. guard' = guard
    BY <1>2
       DEF QuietStep, DisbandList, DisbandRows, DisbandCode, DisbandCodeRows, CreateCount,
           InviteRoster, InviteTarget, InviteAdd, InviteRows, AddTarget, AddCommit, JoinLanded,
           JoinCount, CodeGroup, CodeStale, CodeRoster, CodeJoiner, CodeSolos, CodeCount,
           TransferRoster, TransferWrite, TransferPromote, SettingsWrite, GetCodeRead,
           GetCodeForward, GetCodeExhausted, GetCodeReverse
<1>4. QED
    BY <1>1, <1>3, SpentIdly DEF Lasting, Mild

LEMMA EntrySpent ==
    ASSUME ReqOK, StoreOK, Lasting, Remember, NEW u \in Users,
           \/ DisbandDelete(u) \/ CreateCommit(u) \/ JoinCommit(u) \/ CodeAdd(u) \/ ReadyWrite(u)
    PROVE  Spent'
<1> DEFINE r == req[u]
           s == req'[u]
<1>1. Turns(u, s) /\ Kinds(s) /\ guard' = guard
    BY KindsStep
       DEF Step, Lasting, Kept, DisbandDelete, CreateCommit, JoinCommit, CodeAdd, ReadyWrite
<1>2. r.pc \in {"disband.delete", "create.commit", "join.commit", "code.add", "ready.write"}
    BY DEF DisbandDelete, CreateCommit, JoinCommit, CodeAdd, ReadyWrite, At
<1>3. s.pc \notin {"start.ready", "start.guard"}
    <2>1. CASE DisbandDelete(u)
        BY <2>1, DisbandDeleteTurns, IdleFields DEF Same, Goes, Solos
    <2>2. CASE CreateCommit(u) \/ JoinCommit(u) \/ CodeAdd(u) \/ ReadyWrite(u)
        BY <2>2, FinishTurns, GotoTurns, IdleFields
           DEF CreateCommit, JoinCommit, CodeAdd, ReadyWrite, Same, Goes, Turns
    <2>3. QED
        BY <2>1, <2>2
<1>4. \A p \in groups' \ groups : p \in Parties /\ ready[p] = {}
    BY DEF DisbandDelete, CreateCommit, JoinCommit, CodeAdd, ReadyWrite, groupVars,
           Lasting, Kept
<1>5. \A p \in Parties : \A m \in Users : ~Clears(r, p, m)
    BY <1>2 DEF Clears, Clearing
<1>6. \A v \in Users : \A p \in Parties : ~Started(v, p)
    BY <1>1, <1>2, NotStarted
<1>7. QED
    BY <1>1, <1>3, <1>4, <1>5, <1>6, SpentStep DEF Lasting

LEMMA ClearSpent ==
    ASSUME ReqOK, StoreOK, Lasting, Remember, NEW u \in Users, ClearList(u) \/ ClearDelete(u)
    PROVE  Spent'
<1> DEFINE r == req[u]
           s == req'[u]
<1>1. Turns(u, s) /\ guard' = guard /\ groups' = groups
    BY ClearListTurns, ClearDeleteTurns DEF ClearList, ClearDelete, groupVars
<1>2. r.pc \in Clearing
    BY DEF ClearList, ClearDelete, At, Clearing
<1>3. \A v \in Users : \A p \in Parties : ~Started(v, p)
    BY <1>1, <1>2, NotStarted DEF Clearing
<1>4. s.pc \notin {"start.ready", "start.guard"}
    BY ClearListTurns, ClearDeleteTurns, IdleFields DEF Goes
<1>5. ASSUME NEW p \in Parties, NEW m \in Users,
             Clears(r, p, m), p \in groups, m \in ready[p], m \in ready'[p]
      PROVE  Clears(s, p, m)
    <2>1. CASE ClearList(u)
        <3>1. s.pc = "clear.delete" /\ s.p = p /\ s.roster = Listed(p)
            BY <1>5, <2>1, ClearListTurns DEF Goes, Clears
        <3>2. m \in Listed(p)
            BY <1>5 DEF Lasting, Kept, Active, Listed
        <3>3. QED
            BY <3>1, <3>2 DEF Clears, Clearing
    <2>2. CASE ClearDelete(u)
        <3>1. p = r.p /\ m \in r.roster
            BY <1>5, <2>2 DEF Clears, ClearDelete, At
        <3>2. QED
            BY <1>5, <2>2, <3>1 DEF ClearDelete, StoreOK
    <2>3. QED
        BY <2>1, <2>2
<1>6. QED
    BY <1>1, <1>3, <1>4, <1>5, SpentStep DEF Lasting

(* A step of a start that reads; only its own request changes. *)
LEMMA StartReadSpent ==
    ASSUME ReqOK, StoreOK, Lasting, Remember, NEW u \in Users, StartRoster(u) \/ StartReady(u)
    PROVE  Spent'
<1> DEFINE r == req[u]
           s == req'[u]
           p == req[u].p
<1>1. Turns(u, s) /\ guard' = guard /\ groups' = groups /\ ready' = ready
    BY StartRosterTurns, CheckTurns
       DEF StartRoster, StartReady, groupVars, rowVars, Turns
<1>2. r.pc \in {"start.roster", "start.ready"} /\ p \in Parties
    BY FieldType DEF StartRoster, StartReady, At, Naming
<1>3. \A v \in Users : \A q \in Parties : ~Started(v, q)
    BY <1>1, <1>2, NotStarted
<1>4. \A q \in Parties : \A m \in Users : ~Clears(r, q, m)
    BY <1>2 DEF Clears, Clearing
<1>5. s.pc = "start.ready" /\ s.p \in Parties \ guard => spent[s.p] \cap ready[s.p] = {}
    <2>1. CASE StartRoster(u)
        <3>1. s.pc = "start.ready" => s.p = p /\ p \in groups
            BY <1>2, <2>1, StartRosterTurns, IdleFields DEF Goes, Active, Lasting, Kept
        <3>2. QED
            BY <3>1 DEF Lasting, Spent
    <2>2. CASE StartReady(u)
        BY <2>2, CheckTurns, IdleFields DEF StartReady, Same, Goes, Turns
    <2>3. QED
        BY <2>1, <2>2
<1>6. s.pc = "start.guard" /\ s.p \notin guard => s.p \in Parties /\ s.roster \cap spent[s.p] = {}
    <2>1. CASE StartRoster(u)
        BY <2>1, StartRosterTurns, IdleFields DEF Goes
    <2>2. CASE StartReady(u)
        <3>1. s.pc = "start.guard" =>
                 s.p = p /\ s.roster = r.roster /\ r.roster \subseteq ready[p]
            BY <2>2, CheckTurns, IdleFields DEF StartReady, Same, Goes, Turns
        <3>2. r.pc = "start.ready"
            BY <2>2 DEF StartReady, At
        <3>3. p \notin guard => spent[p] \cap ready[p] = {}
            BY <1>2, <3>2 DEF Lasting, Spent, At
        <3>4. QED
            BY <1>2, <3>1, <3>3
    <2>3. QED
        BY <2>1, <2>2
<1>7. QED
    BY <1>1, <1>3, <1>4, <1>5, <1>6, SpentStep DEF Lasting

LEMMA StartGuardSpent ==
    ASSUME ReqOK, StoreOK, Lasting, Remember, NEW u \in Users, StartGuard(u)
    PROVE  Spent'
<1> DEFINE r == req[u]
           s == req'[u]
           p == req[u].p
<1>1. r.pc = "start.guard" /\ p \in Parties
    BY FieldType DEF StartGuard, At, Naming
<1>2. Turns(u, s) /\ guard' = guard \cup {p} /\ groups' = groups /\ ready' = ready
    BY CheckTurns DEF StartGuard, groupVars, rowVars, Turns
<1>3. \A q \in Parties : \A m \in Users : ~Clears(r, q, m)
    BY <1>1 DEF Clears, Clearing
<1>4. CASE p \in guard
    <2>1. s = Idle /\ guard' = guard
        BY <1>2, <1>4, CheckTurns DEF StartGuard, Turns
    <2>2. \A v \in Users : \A q \in Parties : ~Started(v, q)
        BY <1>2, <2>1, IdleFields, NotStarted
    <2>3. QED
        BY <1>2, <1>3, <2>1, <2>2, IdleFields, SpentStep DEF Lasting
<1>5. CASE p \notin guard
    <2>1. s.pc = "clear.list" /\ s.p = p /\ s.roster = r.roster
        BY <1>5, CheckTurns DEF StartGuard, Same, Goes
    <2>2. ASSUME NEW v \in Users, NEW q \in Parties, Started(v, q) PROVE q = p
        BY <1>2, <2>2 DEF Started, At, Turns
    <2>3. ASSUME NEW q \in Parties \ {p}
          PROVE  /\ spent'[q] \subseteq spent[q]
                 /\ spent'[q] \cap ready'[q] \subseteq spent[q] \cap ready[q]
        BY <2>2 DEF Remember
    <2>4. (\A q \in Parties \ guard :
             \/ spent[q] \cap ready[q] = {}
             \/ q \notin groups /\ \A v \in Users : ~(At(v, "start.ready") /\ req[v].p = q))'
        <3>1. ASSUME NEW q \in Parties \ guard'
              PROVE  (\/ spent[q] \cap ready[q] = {}
                      \/ q \notin groups
                         /\ \A v \in Users : ~(At(v, "start.ready") /\ req[v].p = q))'
            <4>1. q \in Parties \ guard /\ q # p
                BY <1>2, <3>1
            <4>2. CASE spent[q] \cap ready[q] = {}
                BY <2>3, <4>1, <4>2
            <4>3. CASE q \notin groups /\ \A v \in Users : ~(At(v, "start.ready") /\ req[v].p = q)
                BY <1>2, <2>1, <4>3 DEF Turns, At
            <4>4. QED
                BY <4>1, <4>2, <4>3 DEF Lasting, Spent
        <3>2. QED
            BY <1>2, <3>1
    <2>5. ASSUME NEW v \in Users, req'[v].pc = "start.guard", req'[v].p \notin guard'
          PROVE  req'[v].roster \cap spent'[req'[v].p] = {}
        <3>1. req'[v] = req[v] /\ req[v].p \notin guard /\ req[v].p # p
            BY <1>2, <2>1, <2>5 DEF Turns
        <3>2. req[v].p \in Parties /\ req[v].roster \cap spent[req[v].p] = {}
            BY <2>5, <3>1, FieldType DEF Naming, Lasting, Spent, At
        <3>3. QED
            BY <2>3, <3>1, <3>2
    <2>6. ASSUME NEW q \in guard' \cap groups', NEW m \in spent'[q] \cap ready'[q]
          PROVE  \E v \in Users : Clears(req'[v], q, m)
        <3>1. CASE q = p
            BY <2>1, <3>1 DEF Clears, Clearing
        <3>2. CASE q # p
            <4>1. q \in guard \cap groups /\ q \in Parties /\ m \in spent[q] \cap ready[q]
                  /\ m \in Users
                BY <1>2, <2>3, <3>2 DEF StoreOK
            <4>2. PICK v \in Users : Clears(req[v], q, m)
                BY <4>1 DEF Lasting, Spent
            <4>3. Clears(req'[v], q, m)
                BY <1>2, <1>3, <4>1, <4>2 DEF Turns
            <4>4. QED
                BY <4>3
        <3>3. QED
            BY <3>1, <3>2
    <2>7. QED
        BY <2>4, <2>5, <2>6 DEF Spent, At, Clears
<1>6. QED
    BY <1>4, <1>5

LEMMA SendSpent ==
    ASSUME ReqOK, StoreOK, Lasting, Remember, NEW u \in Users, Send(u)
    PROVE  Spent'
<1> DEFINE s == req'[u]
<1>1. Turns(u, s) /\ req[u].pc = "idle" /\ <<s.op, s.pc>> \in Sent
      /\ UNCHANGED <<groups, creator, rowVars, guard, faults>>
    BY SendTurns
<1>2. s.pc \notin {"start.ready", "start.guard"}
    BY <1>1 DEF Sent
<1>3. \A p \in Parties : \A m \in Users : ~Clears(req[u], p, m)
    BY <1>1 DEF Clears, Clearing
<1>4. \A v \in Users : \A p \in Parties : ~Started(v, p)
    BY <1>1, NotStarted
<1>5. QED
    BY <1>1, <1>2, <1>3, <1>4, SpentStep DEF Lasting

LEMMA ExpireSpent ==
    ASSUME ReqOK, StoreOK, Lasting, Remember, NEW p \in Parties, GuardExpire(p)
    PROVE  Spent'
<1>1. /\ groups' = groups /\ ready' = ready /\ req' = req
      /\ p \in guard /\ guard' = guard \ {p} /\ \A v \in Users : req[v].p # p
    BY DEF GuardExpire, groupVars, rowVars
<1>2. \A v \in Users : \A q \in Parties : ~Started(v, q)
    BY <1>1 DEF Started, At
<1>3. ASSUME NEW q \in Parties
      PROVE  spent'[q] \subseteq spent[q] /\ spent'[q] \cap ready'[q] \subseteq spent[q] \cap ready[q]
    BY <1>2, SpentNext
<1>4. p \in groups => spent[p] \cap ready[p] = {}
    BY <1>1 DEF Lasting, Spent, Clears
<1>5. (\A q \in Parties \ guard :
         \/ spent[q] \cap ready[q] = {}
         \/ q \notin groups /\ \A v \in Users : ~(At(v, "start.ready") /\ req[v].p = q))'
    <2>1. ASSUME NEW q \in Parties \ guard'
          PROVE  \/ spent'[q] \cap ready'[q] = {}
                 \/ q \notin groups /\ \A v \in Users : ~(req[v].pc = "start.ready" /\ req[v].p = q)
        <3>1. CASE q = p
            BY <1>1, <1>3, <1>4, <3>1
        <3>2. CASE q # p
            BY <1>1, <1>3, <2>1, <3>2 DEF Lasting, Spent, At
        <3>3. QED
            BY <3>1, <3>2
    <2>2. QED
        BY <1>1, <2>1 DEF At
<1>6. (\A v \in Users : At(v, "start.guard") /\ req[v].p \notin guard =>
          req[v].roster \cap spent[req[v].p] = {})'
    <2>1. ASSUME NEW v \in Users, req'[v].pc = "start.guard", req'[v].p \notin guard'
          PROVE  req'[v].roster \cap spent'[req'[v].p] = {}
        <3>1. req'[v] = req[v] /\ req[v].p \notin guard
            BY <1>1, <2>1
        <3>2. req[v].p \in Parties
            BY <2>1, <3>1, FieldType DEF Naming
        <3>3. QED
            BY <1>3, <2>1, <3>1, <3>2 DEF Lasting, Spent, At
    <2>2. QED
        BY <2>1 DEF At
<1>7. (\A q \in guard \cap groups : \A m \in spent[q] \cap ready[q] :
          \E v \in Users : Clears(req[v], q, m))'
    <2>1. ASSUME NEW q \in guard' \cap groups', NEW m \in spent'[q] \cap ready'[q]
          PROVE  \E v \in Users : Clears(req'[v], q, m)
        BY <1>1, <1>3 DEF Lasting, Spent, StoreOK
    <2>2. QED
        BY <2>1 DEF Clears
<1>8. QED
    BY <1>5, <1>6, <1>7 DEF Spent

LEMMA LastingNext ==
    ASSUME {"leave", "kick"} \cap Ops = {}, "abort" \notin Ops, MaxFaults = 0,
           ReqOK, StoreOK, Fresh, Lasting, [NextReady]_readyVars
    PROVE  Lasting'
<1>1. Kept'
    BY FreshNext DEF Fresh
<1>2. StartInv'
    <2>1. [Next]_vars
        BY DEF NextReady, readyVars
    <2>2. QED
        BY <2>1, StartInvNext DEF Lasting
<1>3. ASSUME NEW u \in Users, Step(u), Remember PROVE Spent'
    BY <1>3, KeptCalls, QuietSpent, EntrySpent, ClearSpent, StartReadSpent, StartGuardSpent
       DEF Lasting
<1>4. ASSUME UNCHANGED readyVars PROVE Spent'
    BY <1>4 DEF readyVars, vars, Lasting, Spent, At, Clears
<1>5. Spent'
    BY <1>3, <1>4, SendSpent, ExpireSpent, FaultFree DEF NextReady, Next
<1>6. QED
    BY <1>1, <1>2, <1>5 DEF Lasting

(* What tryStart lets through: flags no start has counted. *)
LEMMA SpendsOnce ==
    ASSUME MaxFaults = 0, ReqOK, StoreOK, Lasting, [NextReady]_readyVars, NEW u \in Users,
           NEW p \in Parties, Started(u, p)
    PROVE  req[u].roster \cap spent[p] = {}
<1>1. req[u].pc = "start.guard" /\ req[u].p = p /\ req'[u].pc = "clear.list"
    BY DEF Started, At
<1>2. Next /\ req'[u] # req[u]
    BY <1>1 DEF NextReady, readyVars, vars
<1>3. StartGuard(u)
    BY <1>1, <1>2, StartCall DEF Lasting, StartReady, At
<1>4. p \notin guard
    BY <1>1, <1>3, CheckTurns, IdleFields DEF StartGuard, Turns
<1>5. QED
    BY <1>1, <1>4 DEF Lasting, Spent, At

(* The start spends the party's readiness: no ready row lets a member into   *)
(* two starts, for any number of players and parties and any overlap, when   *)
(* nobody leaves, is kicked or aborts and no call fails.  The rows a start   *)
(* has counted are there no longer than the clear that follows it, and the   *)
(* guard holds every other start off until then.                             *)
THEOREM SpendsReadiness ==
    {"leave", "kick", "abort"} \cap Ops = {} /\ MaxFaults = 0 => (SpecReady => StartSpendsReadiness)
<1> SUFFICES ASSUME {"leave", "kick", "abort"} \cap Ops = {}, MaxFaults = 0
             PROVE  SpecReady => StartSpendsReadiness
    OBVIOUS
<1>1. InitReady => Fresh /\ Lasting
    <2>1. InitReady => StartInv
        BY DEF InitReady, Init, Idle, StartInv, OneStartPastGuard, PastGuard
    <2>2. InitReady => Spent
        BY IdleFields DEF InitReady, Init, Spent, At
    <2>3. QED
        BY <2>1, <2>2, FreshInit DEF Lasting, Fresh
<1>2. ReqOK /\ StoreOK /\ Fresh /\ Lasting /\ [NextReady]_readyVars => Fresh' /\ Lasting'
    BY FreshNext, LastingNext
<1>3. ReqOK /\ StoreOK /\ Lasting /\ [NextReady]_readyVars =>
        [\A u \in Users, p \in Parties :
           Started(u, p) => req[u].roster \cap spent[p] = {}]_readyVars
    BY SpendsOnce
<1>4. QED
    BY <1>1, <1>2, <1>3, TypedReady, PTL DEF SpecReady, StartSpendsReadiness

-----------------------------------------------------------------------------
(* Requests that overlap, calls that fail, restarts.  What a call makes of   *)
(* its request, whoever else is at work.                                     *)

(* The labels a request begins at and no call goes on to. *)
Opening == {"create.count", "join.commit", "code.group", "leave.rows", "kick.roster",
            "transfer.roster", "ready.write", "settings.write", "getCode.read", "start.roster",
            "abort.roster", "invite.roster", "add.target"}

Transferring == {"transfer.roster", "transfer.write", "transfer.promote"}

(* The request r goes on as s: it ends, or keeps its operation and names. *)
Moved(r, s) ==
    /\ s = Idle \/ (s.op = r.op /\ s.p = r.p /\ s.t = r.t)
    /\ s.pc \notin Opening
    /\ s.pc \in Transferring => r.pc \in Transferring

LEMMA MovedIdle ==
    ASSUME NEW r, NEW s, s = Idle
    PROVE  Moved(r, s)
BY IdleFields DEF Moved, Opening, Transferring

LEMMA MovedGoes ==
    ASSUME NEW r, NEW s, NEW pc, NEW x, Goes(r, s, pc, x), pc \notin Opening \cup Transferring
    PROVE  Moved(r, s)
BY DEF Moved, Goes

LEMMA MovedSame ==
    ASSUME NEW r, NEW s, NEW pc, Same(r, s, pc), pc \notin Opening,
           pc \in Transferring => r.pc \in Transferring
    PROVE  Moved(r, s)
BY DEF Moved, Same, Goes

LEMMA MovedSolos ==
    ASSUME NEW r, NEW s, NEW x, Solos(r, s, x)
    PROVE  Moved(r, s)
<1>1. {"disband.list", "create.commit", "clear.list"} \cap (Opening \cup Transferring) = {}
    BY DEF Opening, Transferring
<1>2. QED
    BY <1>1, MovedIdle, MovedGoes DEF Solos

(* Labels that a call goes on to. *)
LEMMA Onwards ==
    {"disband.delete", "disband.rows", "disband.code", "disband.codeRows", "clear.list",
     "clear.delete", "join.landed", "join.count", "code.stale", "code.roster", "code.joiner",
     "code.add", "code.solos", "code.count", "lead.resolve", "lead.roster", "lead.write",
     "lead.promote", "kick.commit", "kick.rows", "invite.target", "invite.add", "invite.rows",
     "add.commit", "getCode.forward", "getCode.reverse", "start.ready", "start.guard"}
        \cap (Opening \cup Transferring) = {}
BY DEF Opening, Transferring

LEMMA StepMoved ==
    ASSUME ReqOK, NEW u \in Users, Step(u)
    PROVE  Turns(u, req'[u]) /\ Moved(req[u], req'[u])
<1> DEFINE r == req[u]
           s == req'[u]
           Goal == Turns(u, s) /\ Moved(r, s)
<1> HIDE DEF Goal
<1>1. ASSUME Finish(u) PROVE Goal
    BY <1>1, FinishTurns, MovedIdle DEF Goal, Turns
<1>2. ASSUME NEW pc, pc \notin Opening \cup Transferring, Goto(u, pc) \/ \E ok : Check(u, ok, pc)
      PROVE  Goal
    BY <1>1, <1>2, GotoTurns, CheckTurns, MovedSame DEF Goal, Check
<1>3. CASE DisbandList(u) \/ DisbandDelete(u) \/ DisbandCode(u) \/ DisbandCodeRows(u)
    <2>1. CASE DisbandList(u)
        BY <2>1, DisbandListTurns, MovedIdle, MovedGoes, MovedSolos, Onwards DEF Goal
    <2>2. CASE DisbandDelete(u)
        BY <2>2, DisbandDeleteTurns, MovedIdle, MovedSame, MovedSolos, Onwards DEF Goal
    <2>3. CASE DisbandCode(u)
        BY <2>3, DisbandCodeTurns, MovedGoes, MovedSolos, Onwards DEF Goal
    <2>4. CASE DisbandCodeRows(u)
        BY <2>4, DisbandCodeRowsTurns, MovedSolos DEF Goal
    <2>5. QED
        BY <1>3, <2>1, <2>2, <2>3, <2>4
<1>4. CASE \/ ClearList(u) \/ ClearDelete(u) \/ LeadResolve(u) \/ LeadRoster(u)
           \/ LeadPromote(u)
    <2>1. CASE ClearList(u)
        BY <2>1, ClearListTurns, MovedGoes, Onwards DEF Goal
    <2>2. CASE ClearDelete(u)
        BY <2>2, ClearDeleteTurns, MovedIdle, MovedGoes, Onwards DEF Goal
    <2>3. CASE LeadResolve(u)
        BY <2>3, LeadResolveTurns, MovedIdle, MovedGoes, MovedSame, Onwards DEF Goal
    <2>4. CASE LeadRoster(u)
        BY <2>4, LeadRosterTurns, MovedIdle, MovedGoes, Onwards DEF Goal
    <2>5. CASE LeadPromote(u)
        BY <2>5, LeadPromoteTurns, MovedIdle, MovedGoes, Onwards DEF Goal
    <2>6. QED
        BY <1>4, <2>1, <2>2, <2>3, <2>4, <2>5
<1>5. CASE CreateCount(u) \/ JoinCount(u) \/ CodeCount(u)
    <2>1. CASE CreateCount(u)
        BY <2>1, CreateCountTurns, MovedIdle, MovedSolos DEF Goal
    <2>2. CASE JoinCount(u) \/ CodeCount(u)
        BY <2>2, CountTurns, MovedSolos DEF Goal, JoinCount, CodeCount
    <2>3. QED
        BY <1>5, <2>1, <2>2
<1>6. CASE \/ InviteTarget(u) \/ JoinLanded(u) \/ CodeSolos(u) \/ GetCodeForward(u)
           \/ StartRoster(u)
    <2>1. CASE InviteTarget(u)
        BY <2>1, InviteTargetTurns, MovedIdle, MovedGoes, Onwards DEF Goal
    <2>2. CASE JoinLanded(u)
        BY <2>2, JoinLandedTurns, MovedIdle, MovedGoes, Onwards DEF Goal
    <2>3. CASE CodeSolos(u)
        BY <2>3, CodeSolosTurns, MovedGoes, Onwards DEF Goal
    <2>4. CASE GetCodeForward(u)
        BY <2>4, GetCodeForwardTurns, MovedGoes, Onwards DEF Goal
    <2>5. CASE StartRoster(u)
        BY <2>5, StartRosterTurns, MovedIdle, MovedGoes, Onwards DEF Goal
    <2>6. QED
        BY <1>6, <2>1, <2>2, <2>3, <2>4, <2>5
<1>7. CASE \/ CreateCommit(u) \/ InviteRows(u) \/ AddCommit(u) \/ CodeStale(u) \/ KickRows(u)
           \/ TransferPromote(u) \/ ReadyWrite(u) \/ SettingsWrite(u) \/ GetCodeExhausted(u)
           \/ GetCodeReverse(u) \/ AbortRoster(u)
    <2>1. Finish(u)
        BY <1>7
           DEF CreateCommit, InviteRows, AddCommit, CodeStale, KickRows, TransferPromote,
               ReadyWrite, SettingsWrite, GetCodeExhausted, GetCodeReverse, AbortRoster
    <2>2. QED
        BY <1>1, <2>1 DEF Goal
<1>8. CASE \/ DisbandRows(u) \/ LeadWrite(u) \/ InviteAdd(u) \/ JoinCommit(u) \/ CodeAdd(u)
           \/ LeaveRows(u) \/ KickCommit(u)
    BY <1>1, <1>2, <1>8, Onwards
       DEF DisbandRows, LeadWrite, InviteAdd, JoinCommit, CodeAdd, LeaveRows, KickCommit,
           Goal
<1>9. CASE \/ InviteRoster(u) \/ AddTarget(u) \/ CodeRoster(u) \/ CodeJoiner(u)
           \/ KickRoster(u) \/ GetCodeRead(u) \/ StartReady(u) \/ StartGuard(u)
    BY <1>2, <1>9, Onwards
       DEF InviteRoster, AddTarget, CodeRoster, CodeJoiner, KickRoster, GetCodeRead,
           StartReady, StartGuard, Goal
<1>10. CASE CodeGroup(u)
    BY <1>2, <1>10, Onwards DEF CodeGroup, Goal
<1>11. CASE TransferRoster(u) \/ TransferWrite(u)
    <2>1. r.pc \in Transferring /\ {"transfer.write", "transfer.promote"} \cap Opening = {}
        BY <1>11 DEF TransferRoster, TransferWrite, At, Transferring, Opening
    <2>2. CASE TransferRoster(u)
        BY <2>1, <2>2, CheckTurns, MovedIdle, MovedSame DEF TransferRoster, Goal, Turns
    <2>3. CASE TransferWrite(u)
        BY <2>1, <2>3, GotoTurns, MovedSame DEF TransferWrite, Goal
    <2>4. QED
        BY <1>11, <2>2, <2>3
<1>12. QED
    BY <1>3, <1>4, <1>5, <1>6, <1>7, <1>8, <1>9, <1>10, <1>11 DEF Step, Goal

(* A call that fails, and how its handler goes on. *)
LEMMA ErrorMoved ==
    ASSUME ReqOK, NEW u \in Users, Kinds(req[u]), CallError(u)
    PROVE  Turns(u, req'[u]) /\ Moved(req[u], req'[u]) /\ Kinds(req'[u])
<1> DEFINE r == req[u]
           s == req'[u]
<1>1. PICK q \in IF r.pc = "disband.list" THEN r.solos ELSE {r.q} :
          Become(u, OnError([r EXCEPT !.q = q]))
    BY DEF CallError
<1> DEFINE m == [r EXCEPT !.q = q]
<1>2. r \in Request /\ q \in Parties \cup {None}
    BY <1>1, FieldType
<1>3. /\ m \in Request /\ m.op = r.op /\ m.pc = r.pc /\ m.p = r.p /\ m.t = r.t
      /\ m.solos = r.solos /\ m.q = q
    BY <1>2 DEF Request
<1>4. Kinds(m) /\ Turns(u, OnError(m)) /\ s = OnError(m)
    BY <1>1, <1>3, BecomeTurns DEF Kinds, Turns
<1> HIDE DEF m
<1>5. \A x : Moved(m, x) => Moved(r, x)
    BY <1>3 DEF Moved
<1>6. Moved(m, OnError(m)) /\ Kinds(OnError(m))
    <2>1. CASE m.pc \in {"disband.list", "disband.delete"}
        <3>1. OnError(m) = ThenDisbandError(m) /\ m.op \in Moving \cup {"create", "disband"}
            BY <1>4, <2>1 DEF OnError, Kinds, Disbanding
        <3>2. QED
            BY <1>3, <3>1, ThenDisbandedFields, MovedSolos, MovedIdle, KindsIdle, KindsSolos
               DEF ThenDisbandError
    <2>2. CASE m.pc = "disband.rows"
        <3>1. OnError(m) = [m EXCEPT !.pc = "disband.code"]
              /\ m.op \in Moving \cup {"create", "disband"}
            BY <1>4, <2>2 DEF OnError, Kinds, Disbanding
        <3>2. Same(m, OnError(m), "disband.code")
            BY <1>3, <3>1, PcFields
        <3>3. QED
            BY <1>4, <3>1, <3>2, MovedSame, KindsLike, Onwards DEF Same, Disbanding
    <2>3. CASE m.pc \in {"disband.code", "disband.codeRows"}
        <3>1. OnError(m) = ThenDisbanded(m) /\ m.op \in Moving \cup {"create", "disband"}
            BY <1>4, <2>3 DEF OnError, Kinds, Disbanding
        <3>2. QED
            BY <1>3, <3>1, ThenDisbandedFields, MovedSolos, KindsSolos
    <2>4. CASE m.pc \in {"clear.list", "clear.delete"}
        <3>1. OnError(m) = ThenCleared(m)
            BY <2>4 DEF OnError
        <3>2. QED
            BY <1>3, <1>4, <3>1, ThenClearedFields, MovedIdle, MovedGoes, KindsIdle, KindsLike,
               Onwards
    <2>5. CASE m.pc \in {"lead.resolve", "lead.roster", "lead.write", "lead.promote"}
        <3>1. OnError(m) = ThenTransferred(m)
            BY <2>5 DEF OnError
        <3>2. QED
            BY <1>3, <1>4, <3>1, ThenTransferredFields, MovedIdle, MovedGoes, KindsIdle,
               KindsLike, Onwards
    <2>6. CASE m.pc = "leave.rows"
        <3>1. OnError(m) = [m EXCEPT !.pc = "lead.resolve"] /\ m.op = "leave"
            BY <1>4, <2>6 DEF OnError, Kinds
        <3>2. Same(m, OnError(m), "lead.resolve")
            BY <1>3, <3>1, PcFields
        <3>3. QED
            BY <1>4, <3>1, <3>2, MovedSame, KindsLike, Onwards DEF Same, Leading
    <2>7. CASE m.pc \in {"code.solos", "code.count"}
        <3>1. OnError(m) = [m EXCEPT !.pc = "clear.list"] /\ m.op = "joinByCode"
            BY <1>4, <2>7 DEF OnError, Kinds
        <3>2. Same(m, OnError(m), "clear.list")
            BY <1>3, <3>1, PcFields
        <3>3. QED
            BY <1>4, <3>1, <3>2, MovedSame, KindsLike, Onwards DEF Same, Clearing, Moving
    <2>8. CASE m.pc \notin {"disband.list", "disband.delete", "disband.rows", "disband.code",
                            "disband.codeRows", "clear.list", "clear.delete", "lead.resolve",
                            "lead.roster", "lead.write", "lead.promote", "leave.rows",
                            "code.solos", "code.count"}
        <3>1. OnError(m) = Idle
            BY <2>8 DEF OnError
        <3>2. QED
            BY <3>1, MovedIdle, KindsIdle
    <2>9. QED
        BY <2>1, <2>2, <2>3, <2>4, <2>5, <2>6, <2>7, <2>8
<1>7. QED
    BY <1>4, <1>5, <1>6 DEF Turns

(* The labels between which a call takes its request. *)
Flow(a, b) ==
    \/ b = "idle"
    \/ /\ a \in {"disband.list", "disband.delete", "disband.code", "disband.codeRows",
                 "create.count", "join.count", "code.count"}
       /\ b \in {"disband.list", "create.commit", "clear.list"}
    \/ a = "disband.list" /\ b = "disband.delete"
    \/ a = "disband.delete" /\ b = "disband.rows"
    \/ a = "disband.rows" /\ b = "disband.code"
    \/ a = "disband.code" /\ b = "disband.codeRows"
    \/ a = "clear.list" /\ b = "clear.delete"
    \/ a = "clear.delete" /\ b = "join.landed"
    \/ a = "join.landed" /\ b = "join.count"
    \/ a \in {"leave.rows", "kick.commit"} /\ b = "lead.resolve"
    \/ a = "lead.resolve" /\ b \in {"lead.roster", "kick.rows"}
    \/ a = "lead.roster" /\ b \in {"lead.write", "kick.rows"}
    \/ a = "lead.write" /\ b = "lead.promote"
    \/ a = "lead.promote" /\ b = "kick.rows"
    \/ a = "kick.roster" /\ b = "kick.commit"
    \/ a = "transfer.roster" /\ b = "transfer.write"
    \/ a = "transfer.write" /\ b = "transfer.promote"
    \/ a = "invite.roster" /\ b = "invite.target"
    \/ a = "invite.target" /\ b = "invite.add"
    \/ a = "invite.add" /\ b = "invite.rows"
    \/ a = "add.target" /\ b = "add.commit"
    \/ a \in {"join.commit", "start.guard"} /\ b = "clear.list"
    \/ a = "code.group" /\ b \in {"code.stale", "code.roster"}
    \/ a = "code.roster" /\ b = "code.joiner"
    \/ a = "code.joiner" /\ b = "code.add"
    \/ a = "code.add" /\ b = "code.solos"
    \/ a = "code.solos" /\ b = "code.count"
    \/ a = "getCode.read" /\ b = "getCode.forward"
    \/ a = "getCode.forward" /\ b = "getCode.reverse"
    \/ a = "start.roster" /\ b = "start.ready"
    \/ a = "start.ready" /\ b = "start.guard"

LEMMA FlowIdle ==
    ASSUME NEW a, NEW s, s = Idle
    PROVE  Flow(a, s.pc)
BY IdleFields DEF Flow

LEMMA FlowSolos ==
    ASSUME NEW r, NEW s, NEW x, Solos(r, s, x),
           r.pc \in {"disband.list", "disband.delete", "disband.code", "disband.codeRows",
                     "create.count", "join.count", "code.count"}
    PROVE  Flow(r.pc, s.pc)
<1>1. s = Idle \/ s.pc \in {"disband.list", "create.commit", "clear.list"}
    BY DEF Solos, Goes
<1>2. QED
    BY <1>1, FlowIdle DEF Flow

LEMMA StepFlow ==
    ASSUME ReqOK, NEW u \in Users, Step(u)
    PROVE  Flow(req[u].pc, req'[u].pc)
<1> DEFINE r == req[u]
           s == req'[u]
           Goal == Flow(r.pc, s.pc)
<1> HIDE DEF Goal
<1>1. ASSUME Finish(u) PROVE Goal
    BY <1>1, FinishTurns, FlowIdle DEF Goal, Turns
<1>2. ASSUME NEW pc, Flow(r.pc, pc), Goto(u, pc) \/ \E ok : Check(u, ok, pc)
      PROVE  Goal
    BY <1>1, <1>2, GotoTurns, CheckTurns DEF Goal, Check, Same, Goes
<1>3. CASE DisbandList(u) \/ DisbandDelete(u) \/ DisbandCode(u) \/ DisbandCodeRows(u)
    <2>1. CASE DisbandList(u)
        <3>1. r.pc = "disband.list" /\ Flow("disband.list", "disband.delete")
            BY <2>1 DEF DisbandList, At, Flow
        <3>2. QED
            BY <2>1, <3>1, DisbandListTurns, FlowIdle, FlowSolos DEF Goal, Goes
    <2>2. CASE DisbandDelete(u)
        <3>1. r.pc = "disband.delete" /\ Flow("disband.delete", "disband.rows")
            BY <2>2 DEF DisbandDelete, At, Flow
        <3>2. QED
            BY <2>2, <3>1, DisbandDeleteTurns, FlowIdle, FlowSolos DEF Goal, Same, Goes
    <2>3. CASE DisbandCode(u)
        <3>1. r.pc = "disband.code" /\ Flow("disband.code", "disband.codeRows")
            BY <2>3 DEF DisbandCode, At, Flow
        <3>2. QED
            BY <2>3, <3>1, DisbandCodeTurns, FlowSolos DEF Goal, Goes
    <2>4. CASE DisbandCodeRows(u)
        <3>1. r.pc = "disband.codeRows"
            BY <2>4 DEF DisbandCodeRows, At
        <3>2. QED
            BY <2>4, <3>1, DisbandCodeRowsTurns, FlowSolos DEF Goal
    <2>5. QED
        BY <1>3, <2>1, <2>2, <2>3, <2>4
<1>4. CASE \/ ClearList(u) \/ ClearDelete(u) \/ LeadResolve(u) \/ LeadRoster(u)
           \/ LeadPromote(u)
    <2>1. CASE ClearList(u)
        BY <2>1, ClearListTurns DEF Goal, Goes, ClearList, At, Flow
    <2>2. CASE ClearDelete(u)
        BY <2>2, ClearDeleteTurns, FlowIdle DEF Goal, Goes, ClearDelete, At, Flow
    <2>3. CASE LeadResolve(u)
        BY <2>3, LeadResolveTurns, FlowIdle DEF Goal, Same, Goes, LeadResolve, At, Flow
    <2>4. CASE LeadRoster(u)
        <3>1. r.pc = "lead.roster" /\ Flow("lead.roster", "kick.rows") /\ Flow("lead.roster", "lead.write")
            BY <2>4 DEF LeadRoster, At, Flow
        <3>2. QED
            BY <2>4, <3>1, LeadRosterTurns, FlowIdle DEF Goal, Goes
    <2>5. CASE LeadPromote(u)
        BY <2>5, LeadPromoteTurns, FlowIdle DEF Goal, Goes, LeadPromote, At, Flow
    <2>6. QED
        BY <1>4, <2>1, <2>2, <2>3, <2>4, <2>5
<1>5. CASE CreateCount(u) \/ JoinCount(u) \/ CodeCount(u)
    <2>1. r.pc \in {"create.count", "join.count", "code.count"}
        BY <1>5 DEF CreateCount, JoinCount, CodeCount, At
    <2>2. CASE CreateCount(u)
        BY <2>1, <2>2, CreateCountTurns, FlowIdle, FlowSolos DEF Goal
    <2>3. CASE JoinCount(u) \/ CodeCount(u)
        BY <2>1, <2>3, CountTurns, FlowSolos DEF Goal, JoinCount, CodeCount
    <2>4. QED
        BY <1>5, <2>2, <2>3
<1>6. CASE \/ InviteTarget(u) \/ JoinLanded(u) \/ CodeSolos(u) \/ GetCodeForward(u)
           \/ StartRoster(u)
    <2>1. CASE InviteTarget(u)
        <3>1. r.pc = "invite.target" /\ Flow("invite.target", "invite.add")
            BY <2>1 DEF InviteTarget, At, Flow
        <3>2. QED
            BY <2>1, <3>1, InviteTargetTurns, FlowIdle DEF Goal, Goes
    <2>2. CASE JoinLanded(u)
        BY <2>2, JoinLandedTurns, FlowIdle DEF Goal, Goes, JoinLanded, At, Flow
    <2>3. CASE CodeSolos(u)
        BY <2>3, CodeSolosTurns DEF Goal, Goes, CodeSolos, At, Flow
    <2>4. CASE GetCodeForward(u)
        BY <2>4, GetCodeForwardTurns DEF Goal, Goes, GetCodeForward, At, Flow
    <2>5. CASE StartRoster(u)
        <3>1. r.pc = "start.roster" /\ Flow("start.roster", "start.ready")
            BY <2>5 DEF StartRoster, At, Flow
        <3>2. QED
            BY <2>5, <3>1, StartRosterTurns, FlowIdle DEF Goal, Goes
    <2>6. QED
        BY <1>6, <2>1, <2>2, <2>3, <2>4, <2>5
<1>7. CASE \/ CreateCommit(u) \/ InviteRows(u) \/ AddCommit(u) \/ CodeStale(u) \/ KickRows(u)
           \/ TransferPromote(u) \/ ReadyWrite(u) \/ SettingsWrite(u) \/ GetCodeExhausted(u)
           \/ GetCodeReverse(u) \/ AbortRoster(u)
    <2>1. Finish(u)
        BY <1>7
           DEF CreateCommit, InviteRows, AddCommit, CodeStale, KickRows, TransferPromote,
               ReadyWrite, SettingsWrite, GetCodeExhausted, GetCodeReverse, AbortRoster
    <2>2. QED
        BY <1>1, <2>1 DEF Goal
<1>8. CASE \/ DisbandRows(u) \/ LeadWrite(u) \/ InviteAdd(u) \/ JoinCommit(u) \/ CodeAdd(u)
           \/ LeaveRows(u) \/ KickCommit(u) \/ TransferWrite(u)
    <2>1. \/ Finish(u)
          \/ \E pc : Flow(r.pc, pc) /\ Goto(u, pc)
        BY <1>8
           DEF DisbandRows, LeadWrite, InviteAdd, JoinCommit, CodeAdd, LeaveRows, KickCommit,
               TransferWrite, At, Flow
    <2>2. QED
        BY <1>1, <1>2, <2>1 DEF Goal
<1>9. CASE \/ InviteRoster(u) \/ AddTarget(u) \/ CodeRoster(u) \/ CodeJoiner(u)
           \/ KickRoster(u) \/ GetCodeRead(u) \/ StartReady(u) \/ StartGuard(u)
           \/ TransferRoster(u)
    <2>1. \E ok, pc : Flow(r.pc, pc) /\ Check(u, ok, pc)
        BY <1>9
           DEF InviteRoster, AddTarget, CodeRoster, CodeJoiner, KickRoster, GetCodeRead,
               StartReady, StartGuard, TransferRoster, At, Flow
    <2>2. QED
        BY <1>2, <2>1 DEF Goal
<1>10. CASE CodeGroup(u)
    <2>1. /\ Flow(r.pc, "code.stale") /\ Flow(r.pc, "code.roster")
          /\ Goto(u, "code.stale") \/ Check(u, HasRoom(r.p), "code.roster")
        BY <1>10 DEF CodeGroup, At, Flow
    <2>2. QED
        BY <1>2, <2>1 DEF Goal
<1>11. QED
    BY <1>3, <1>4, <1>5, <1>6, <1>7, <1>8, <1>9, <1>10 DEF Step, Goal

-----------------------------------------------------------------------------
(* What a call may do to the rows and the members of a party. *)

LEMMA StepLeader ==
    ASSUME StoreOK, NEW u \in Users, Step(u), NEW p \in Parties
    PROVE  LET r == req[u] IN
           \/ leader'[p] = leader[p]
           \/ r.pc = "lead.roster" /\ r.p = p /\ leader'[p] = None
           \/ r.pc = "lead.write" /\ r.p = p /\ leader'[p] = r.next
           \/ r.pc = "transfer.write" /\ r.p = p /\ leader'[p] = r.t
           \/ r.pc = "disband.rows" /\ r.q = p /\ leader'[p] = None
<1>1. CASE LeadRoster(u) \/ LeadWrite(u) \/ TransferWrite(u) \/ DisbandRows(u)
    BY <1>1 DEF LeadRoster, LeadWrite, TransferWrite, DisbandRows, At, StoreOK
<1>2. CASE ReadStep(u)
    BY <1>2
       DEF ReadStep, DisbandList, DisbandCode, ClearList, LeadResolve, InviteRoster, InviteTarget,
           AddTarget, JoinLanded, JoinCount, CreateCount, CodeGroup, CodeRoster, CodeJoiner,
           CodeSolos, CodeCount, KickRoster, TransferRoster, GetCodeRead, GetCodeExhausted,
           StartRoster, StartReady, rowVars
<1>3. CASE \/ DisbandDelete(u) \/ DisbandCodeRows(u) \/ ClearDelete(u) \/ LeadPromote(u)
           \/ CreateCommit(u) \/ InviteAdd(u) \/ InviteRows(u) \/ AddCommit(u) \/ JoinCommit(u)
           \/ CodeStale(u) \/ CodeAdd(u)
    BY <1>3
       DEF DisbandDelete, DisbandCodeRows, ClearDelete, LeadPromote, CreateCommit, InviteAdd,
           InviteRows, AddCommit, JoinCommit, CodeStale, CodeAdd, rowVars
<1>4. CASE \/ LeaveRows(u) \/ KickCommit(u) \/ KickRows(u) \/ TransferPromote(u)
           \/ ReadyWrite(u) \/ SettingsWrite(u) \/ GetCodeForward(u) \/ GetCodeReverse(u)
           \/ StartGuard(u) \/ AbortRoster(u)
    BY <1>4
       DEF LeaveRows, KickCommit, KickRows, TransferPromote, ReadyWrite, SettingsWrite,
           GetCodeForward, GetCodeReverse, StartGuard, AbortRoster, rowVars
<1>5. QED
    BY <1>1, <1>2, <1>3, <1>4 DEF Step, ReadStep

LEMMA StepSettings ==
    ASSUME NEW u \in Users, Step(u), NEW p
    PROVE  LET r == req[u] IN
           /\ p \in settings' => p \in settings \/ (r.pc = "settings.write" /\ r.p = p)
           /\ r.pc = "disband.rows" /\ r.q = p => p \notin settings'
<1>1. CASE SettingsWrite(u) \/ DisbandRows(u)
    BY <1>1 DEF SettingsWrite, DisbandRows, At
<1>2. CASE ReadStep(u)
    BY <1>2
       DEF ReadStep, DisbandList, DisbandCode, ClearList, LeadResolve, InviteRoster, InviteTarget,
           AddTarget, JoinLanded, JoinCount, CreateCount, CodeGroup, CodeRoster, CodeJoiner,
           CodeSolos, CodeCount, KickRoster, TransferRoster, GetCodeRead, GetCodeExhausted,
           StartRoster, StartReady, rowVars, At
<1>3. CASE \/ DisbandDelete(u) \/ DisbandCodeRows(u) \/ ClearDelete(u) \/ LeadPromote(u)
           \/ CreateCommit(u) \/ InviteAdd(u) \/ InviteRows(u) \/ AddCommit(u) \/ JoinCommit(u)
           \/ CodeStale(u) \/ CodeAdd(u)
    BY <1>3
       DEF DisbandDelete, DisbandCodeRows, ClearDelete, LeadPromote, CreateCommit, InviteAdd,
           InviteRows, AddCommit, JoinCommit, CodeStale, CodeAdd, rowVars, At
<1>4. CASE \/ LeaveRows(u) \/ KickCommit(u) \/ KickRows(u) \/ TransferPromote(u)
           \/ ReadyWrite(u) \/ GetCodeForward(u) \/ GetCodeReverse(u) \/ StartGuard(u)
           \/ AbortRoster(u) \/ LeadRoster(u) \/ LeadWrite(u) \/ TransferWrite(u)
    BY <1>4
       DEF LeaveRows, KickCommit, KickRows, TransferPromote, ReadyWrite, GetCodeForward,
           GetCodeReverse, StartGuard, AbortRoster, LeadRoster, LeadWrite, TransferWrite,
           rowVars, At
<1>5. QED
    BY <1>1, <1>2, <1>3, <1>4 DEF Step, ReadStep

LEMMA StepReady ==
    ASSUME StoreOK, NEW u \in Users, Step(u), NEW p \in Parties, NEW m \in ready'[p]
    PROVE  LET r == req[u] IN
           /\ \/ m \in ready[p]
              \/ r.pc = "ready.write" /\ r.op = "ready" /\ r.p = p /\ m = u
           /\ ~(r.pc = "leave.rows" /\ r.p = p /\ m = u)
           /\ ~(r.pc = "kick.rows" /\ r.p = p /\ m = r.t)
           /\ ~(r.pc = "disband.rows" /\ r.q = p /\ m \in r.roster)
<1>1. CASE \/ DisbandRows(u) \/ ClearDelete(u) \/ InviteRows(u) \/ LeaveRows(u) \/ KickRows(u)
           \/ ReadyWrite(u)
    BY <1>1 DEF DisbandRows, ClearDelete, InviteRows, LeaveRows, KickRows, ReadyWrite, At, StoreOK
<1>2. CASE ReadStep(u)
    BY <1>2
       DEF ReadStep, DisbandList, DisbandCode, ClearList, LeadResolve, InviteRoster, InviteTarget,
           AddTarget, JoinLanded, JoinCount, CreateCount, CodeGroup, CodeRoster, CodeJoiner,
           CodeSolos, CodeCount, KickRoster, TransferRoster, GetCodeRead, GetCodeExhausted,
           StartRoster, StartReady, rowVars, At
<1>3. CASE \/ DisbandDelete(u) \/ DisbandCodeRows(u) \/ LeadPromote(u)
           \/ CreateCommit(u) \/ InviteAdd(u) \/ AddCommit(u) \/ JoinCommit(u)
           \/ CodeStale(u) \/ CodeAdd(u) \/ SettingsWrite(u)
    BY <1>3
       DEF DisbandDelete, DisbandCodeRows, LeadPromote, CreateCommit, InviteAdd,
           AddCommit, JoinCommit, CodeStale, CodeAdd, SettingsWrite, rowVars, At
<1>4. CASE \/ KickCommit(u) \/ TransferPromote(u)
           \/ GetCodeForward(u) \/ GetCodeReverse(u) \/ StartGuard(u)
           \/ AbortRoster(u) \/ LeadRoster(u) \/ LeadWrite(u) \/ TransferWrite(u)
    BY <1>4
       DEF KickCommit, TransferPromote, GetCodeForward, GetCodeReverse, StartGuard,
           AbortRoster, LeadRoster, LeadWrite, TransferWrite, rowVars, At
<1>5. QED
    BY <1>1, <1>2, <1>3, <1>4 DEF Step, ReadStep

LEMMA StepCodes ==
    ASSUME ReqOK, StoreOK, NEW u \in Users, Step(u)
    PROVE  LET r == req[u]
               s == req'[u] IN
           \/ forward' = forward /\ reverse' = reverse
           \/ /\ r.pc = "getCode.forward" /\ s.pc = "getCode.reverse" /\ s.c \in Codes
              /\ forward[s.c] = None /\ forward' = [forward EXCEPT ![s.c] = r.p]
              /\ reverse' = reverse
           \/ /\ r.pc = "getCode.reverse" /\ forward' = forward
              /\ reverse' = [reverse EXCEPT ![r.p] = r.c]
           \/ r.pc = "code.stale" /\ DeleteCodePair(r.c, r.p)
           \/ r.pc = "disband.codeRows" /\ DeleteCodePair(r.c, r.q)
<1>1. CASE GetCodeForward(u)
    BY <1>1, GetCodeForwardTurns DEF GetCodeForward, At, Goes
<1>2. CASE GetCodeReverse(u) \/ CodeStale(u) \/ DisbandCodeRows(u)
    BY <1>2 DEF GetCodeReverse, CodeStale, DisbandCodeRows, At
<1>3. CASE ReadStep(u)
    BY <1>3
       DEF ReadStep, DisbandList, DisbandCode, ClearList, LeadResolve, InviteRoster, InviteTarget,
           AddTarget, JoinLanded, JoinCount, CreateCount, CodeGroup, CodeRoster, CodeJoiner,
           CodeSolos, CodeCount, KickRoster, TransferRoster, GetCodeRead, GetCodeExhausted,
           StartRoster, StartReady, rowVars
<1>4. CASE \/ DisbandDelete(u) \/ ClearDelete(u) \/ LeadPromote(u)
           \/ CreateCommit(u) \/ InviteAdd(u) \/ InviteRows(u) \/ AddCommit(u) \/ JoinCommit(u)
           \/ CodeAdd(u) \/ SettingsWrite(u) \/ DisbandRows(u)
    BY <1>4
       DEF DisbandDelete, ClearDelete, LeadPromote, CreateCommit, InviteAdd, InviteRows,
           AddCommit, JoinCommit, CodeAdd, SettingsWrite, DisbandRows, rowVars, codeVars
<1>5. CASE \/ LeaveRows(u) \/ KickCommit(u) \/ KickRows(u) \/ TransferPromote(u)
           \/ ReadyWrite(u) \/ StartGuard(u) \/ AbortRoster(u) \/ LeadRoster(u) \/ LeadWrite(u)
           \/ TransferWrite(u)
    BY <1>5
       DEF LeaveRows, KickCommit, KickRows, TransferPromote, ReadyWrite, StartGuard,
           AbortRoster, LeadRoster, LeadWrite, TransferWrite, rowVars, codeVars
<1>6. QED
    BY <1>1, <1>2, <1>3, <1>4, <1>5 DEF Step, ReadStep

-----------------------------------------------------------------------------
(* What a call may do to an edge: t's to the party p. *)

LEMMA StepEdge ==
    ASSUME ReqOK, StoreOK, NEW u \in Users, Step(u), NEW p \in Parties, NEW t \in Users
    PROVE  LET r == req[u]
               s == req'[u] IN
           \/ edge'[p][t] = edge[p][t]
           \/ r.pc = "create.commit" /\ t = u /\ creator[p] = None /\ p \in groups'
           \/ r.pc = "disband.delete" /\ r.q = p /\ p \notin groups' /\ edge'[p][t] = "none"
           \/ /\ r.pc \in {"join.commit", "code.add"} /\ r.p = p /\ t = u /\ p \in groups
              /\ edge[p][t] \notin {"member", "admin"} /\ edge'[p][t] = "member"
           \/ /\ r.pc = "kick.commit" /\ r.p = p /\ t = r.t /\ s.pc = "lead.resolve"
              /\ edge'[p][t] = "none"
           \/ edge[p][t] = "member" /\ edge'[p][t] = "admin"
           \/ /\ p \in groups /\ edge[p][t] \notin {"member", "admin"}
              /\ edge'[p][t] \in {"invited", "requested"}
<1> DEFINE r == req[u]
<1>0. edge \in [Parties -> [Users -> EdgeStates]]
    BY DEF StoreOK
<1>1. CASE LeadPromote(u) \/ TransferPromote(u)
    BY <1>1, PromoteEdges DEF LeadPromote, TransferPromote
<1>2. CASE InviteAdd(u) \/ AddCommit(u)
    BY <1>2, AddAsEdges DEF InviteAdd, AddCommit
<1>3. CASE CreateCommit(u)
    <2>1. PICK q \in Parties : /\ creator[q] = None /\ groups' = groups \cup {q}
                               /\ edge' = [edge EXCEPT ![q][u] = "admin"]
        BY <1>3 DEF CreateCommit
    <2>2. r.pc = "create.commit"
        BY <1>3 DEF CreateCommit, At
    <2>3. QED
        BY <1>0, <2>1, <2>2
<1>4. CASE DisbandDelete(u)
    <2>1. CASE r.q \in groups
        <3>1. /\ r.pc = "disband.delete" /\ groups' = groups \ {r.q}
              /\ edge' = [edge EXCEPT ![r.q] = [v \in Users |-> "none"]]
            BY <1>4, <2>1 DEF DisbandDelete, At
        <3>2. QED
            BY <3>1, DeleteEdges
    <2>2. CASE r.q \notin groups
        BY <1>4, <2>2 DEF DisbandDelete
    <2>3. QED
        BY <2>1, <2>2
<1>5. CASE JoinCommit(u)
    <2>1. r.pc = "join.commit"
        BY <1>5 DEF JoinCommit, At
    <2>2. CASE /\ r.p \in groups /\ edge[r.p][u] = "invited"
               /\ edge' = [edge EXCEPT ![r.p][u] = "member"]
        BY <1>0, <2>1, <2>2
    <2>3. CASE /\ r.p \in groups /\ edge[r.p][u] \in {"none", "requested"}
               /\ edge' = [edge EXCEPT ![r.p][u] = "requested"]
        BY <1>0, <2>1, <2>3
    <2>4. CASE UNCHANGED edge
        BY <2>4
    <2>5. QED
        BY <1>5, <2>2, <2>3, <2>4 DEF JoinCommit
<1>6. CASE CodeAdd(u)
    <2>1. r.pc = "code.add"
        BY <1>6 DEF CodeAdd, At
    <2>2. CASE /\ r.p \in groups /\ u \notin Active(r.p)
               /\ edge' = [edge EXCEPT ![r.p][u] = "member"]
        BY <1>0, <2>1, <2>2 DEF Active
    <2>3. QED
        BY <1>6, <2>2 DEF CodeAdd
<1>7. CASE KickCommit(u)
    <2>1. CASE edge' = [edge EXCEPT ![r.p][r.t] = "none"] /\ Goto(u, "lead.resolve")
        <3>1. r.pc = "kick.commit" /\ req'[u].pc = "lead.resolve"
            BY <1>7, <2>1, GotoTurns DEF KickCommit, At, Same, Goes
        <3>2. QED
            BY <1>0, <2>1, <3>1
    <2>2. QED
        BY <1>7, <2>1 DEF KickCommit
<1>8. CASE ReadStep(u)
    BY <1>8
       DEF ReadStep, DisbandList, DisbandCode, ClearList, LeadResolve, InviteRoster, InviteTarget,
           AddTarget, JoinLanded, JoinCount, CreateCount, CodeGroup, CodeRoster, CodeJoiner,
           CodeSolos, CodeCount, KickRoster, TransferRoster, GetCodeRead, GetCodeExhausted,
           StartRoster, StartReady, groupVars
<1>9. CASE \/ DisbandRows(u) \/ DisbandCodeRows(u) \/ ClearDelete(u) \/ LeadRoster(u)
           \/ LeadWrite(u) \/ InviteRows(u) \/ CodeStale(u) \/ LeaveRows(u) \/ KickRows(u)
    BY <1>9
       DEF DisbandRows, DisbandCodeRows, ClearDelete, LeadRoster, LeadWrite, InviteRows,
           CodeStale, LeaveRows, KickRows, groupVars
<1>10. CASE \/ TransferWrite(u) \/ ReadyWrite(u) \/ SettingsWrite(u) \/ GetCodeForward(u)
            \/ GetCodeReverse(u) \/ StartGuard(u) \/ AbortRoster(u)
    BY <1>10
       DEF TransferWrite, ReadyWrite, SettingsWrite, GetCodeForward, GetCodeReverse, StartGuard,
           AbortRoster, groupVars
<1>11. QED
    BY <1>1, <1>2, <1>3, <1>4, <1>5, <1>6, <1>7, <1>8, <1>9, <1>10 DEF Step, ReadStep

LEMMA StepGroups ==
    ASSUME StoreOK, NEW u \in Users, Step(u)
    PROVE  LET r == req[u] IN
           \/ groups' = groups /\ creator' = creator
           \/ /\ r.pc = "create.commit" /\ Finish(u) /\ UNCHANGED rowVars
              /\ \E p \in Parties : /\ creator[p] = None /\ groups' = groups \cup {p}
                                    /\ creator' = [creator EXCEPT ![p] = u]
           \/ /\ r.pc = "disband.delete" /\ r.q \in groups /\ groups' = groups \ {r.q}
              /\ creator' = creator /\ UNCHANGED rowVars /\ Goto(u, "disband.rows")
<1>1. CASE CreateCommit(u) \/ DisbandDelete(u)
    BY <1>1 DEF CreateCommit, DisbandDelete, At
<1>2. CASE ReadStep(u)
    BY <1>2
       DEF ReadStep, DisbandList, DisbandCode, ClearList, LeadResolve, InviteRoster, InviteTarget,
           AddTarget, JoinLanded, JoinCount, CreateCount, CodeGroup, CodeRoster, CodeJoiner,
           CodeSolos, CodeCount, KickRoster, TransferRoster, GetCodeRead, GetCodeExhausted,
           StartRoster, StartReady, groupVars
<1>3. CASE \/ DisbandRows(u) \/ DisbandCodeRows(u) \/ ClearDelete(u) \/ LeadRoster(u)
           \/ LeadWrite(u) \/ InviteRows(u) \/ CodeStale(u) \/ LeaveRows(u) \/ KickRows(u)
           \/ TransferWrite(u) \/ ReadyWrite(u) \/ SettingsWrite(u)
    BY <1>3
       DEF DisbandRows, DisbandCodeRows, ClearDelete, LeadRoster, LeadWrite, InviteRows,
           CodeStale, LeaveRows, KickRows, TransferWrite, ReadyWrite, SettingsWrite, groupVars
<1>4. CASE \/ GetCodeForward(u) \/ GetCodeReverse(u) \/ StartGuard(u) \/ AbortRoster(u)
           \/ LeadPromote(u) \/ TransferPromote(u) \/ InviteAdd(u) \/ AddCommit(u)
           \/ JoinCommit(u) \/ CodeAdd(u) \/ KickCommit(u)
    BY <1>4
       DEF GetCodeForward, GetCodeReverse, StartGuard, AbortRoster, LeadPromote, TransferPromote,
           InviteAdd, AddCommit, JoinCommit, CodeAdd, KickCommit, groupVars
<1>5. QED
    BY <1>1, <1>2, <1>3, <1>4 DEF Step, ReadStep

(* A request's next call is the one its label names. *)
LEMMA StepCall ==
    ASSUME NEW u \in Users, Step(u)
    PROVE  LET pc == req[u].pc IN
           /\ pc # "idle"
           /\ pc = "lead.write" => LeadWrite(u)
           /\ pc = "lead.promote" => LeadPromote(u)
           /\ pc = "transfer.roster" => TransferRoster(u)
           /\ pc = "transfer.write" => TransferWrite(u)
           /\ pc = "transfer.promote" => TransferPromote(u)
           /\ pc = "lead.roster" => LeadRoster(u)
           /\ pc = "lead.resolve" => LeadResolve(u)
           /\ pc = "leave.rows" => LeaveRows(u)
           /\ pc = "disband.rows" => DisbandRows(u)
           /\ pc = "disband.code" => DisbandCode(u)
           /\ pc = "disband.codeRows" => DisbandCodeRows(u)
           /\ pc = "create.commit" => CreateCommit(u)
           /\ pc = "join.commit" => JoinCommit(u)
           /\ pc = "code.add" => CodeAdd(u)
           /\ pc = "clear.list" => ClearList(u)
           /\ pc = "clear.delete" => ClearDelete(u)
           /\ pc = "join.landed" => JoinLanded(u)
           /\ pc = "code.solos" => CodeSolos(u)
           /\ pc = "join.count" => JoinCount(u)
           /\ pc = "code.count" => CodeCount(u)
           /\ pc = "create.count" => CreateCount(u)
           /\ pc = "code.group" => CodeGroup(u)
           /\ pc = "code.stale" => CodeStale(u)
           /\ pc = "getCode.read" => GetCodeRead(u)
           /\ pc = "getCode.reverse" => GetCodeReverse(u)
           /\ pc = "disband.list" => DisbandList(u)
           /\ pc = "disband.delete" => DisbandDelete(u)
           /\ pc = "code.joiner" => CodeJoiner(u)
           /\ pc = "kick.rows" => KickRows(u)
<1>1. /\ DisbandList(u) => At(u, "disband.list")
      /\ DisbandDelete(u) => At(u, "disband.delete")
      /\ DisbandRows(u) => At(u, "disband.rows")
      /\ DisbandCode(u) => At(u, "disband.code")
      /\ DisbandCodeRows(u) => At(u, "disband.codeRows")
      /\ ClearList(u) => At(u, "clear.list")
      /\ ClearDelete(u) => At(u, "clear.delete")
      /\ LeadResolve(u) => At(u, "lead.resolve")
      /\ LeadRoster(u) => At(u, "lead.roster")
      /\ LeadWrite(u) => At(u, "lead.write")
      /\ LeadPromote(u) => At(u, "lead.promote")
      /\ CreateCount(u) => At(u, "create.count")
    BY DEF DisbandList, DisbandDelete, DisbandRows, DisbandCode, DisbandCodeRows, ClearList,
           ClearDelete, LeadResolve, LeadRoster, LeadWrite, LeadPromote, CreateCount
<1>2. /\ CreateCommit(u) => At(u, "create.commit")
      /\ InviteRoster(u) => At(u, "invite.roster")
      /\ InviteTarget(u) => At(u, "invite.target")
      /\ InviteAdd(u) => At(u, "invite.add")
      /\ InviteRows(u) => At(u, "invite.rows")
      /\ AddTarget(u) => At(u, "add.target")
      /\ AddCommit(u) => At(u, "add.commit")
      /\ JoinCommit(u) => At(u, "join.commit")
      /\ JoinLanded(u) => At(u, "join.landed")
      /\ JoinCount(u) => At(u, "join.count")
      /\ CodeGroup(u) => At(u, "code.group")
      /\ CodeStale(u) => At(u, "code.stale")
    BY DEF CreateCommit, InviteRoster, InviteTarget, InviteAdd, InviteRows, AddTarget, AddCommit,
           JoinCommit, JoinLanded, JoinCount, CodeGroup, CodeStale
<1>3. /\ CodeRoster(u) => At(u, "code.roster")
      /\ CodeJoiner(u) => At(u, "code.joiner")
      /\ CodeAdd(u) => At(u, "code.add")
      /\ CodeSolos(u) => At(u, "code.solos")
      /\ CodeCount(u) => At(u, "code.count")
      /\ LeaveRows(u) => At(u, "leave.rows")
      /\ KickRoster(u) => At(u, "kick.roster")
      /\ KickCommit(u) => At(u, "kick.commit")
      /\ KickRows(u) => At(u, "kick.rows")
      /\ TransferRoster(u) => At(u, "transfer.roster")
      /\ TransferWrite(u) => At(u, "transfer.write")
      /\ TransferPromote(u) => At(u, "transfer.promote")
    BY DEF CodeRoster, CodeJoiner, CodeAdd, CodeSolos, CodeCount, LeaveRows, KickRoster, KickCommit,
           KickRows, TransferRoster, TransferWrite, TransferPromote
<1>4. /\ ReadyWrite(u) => At(u, "ready.write")
      /\ SettingsWrite(u) => At(u, "settings.write")
      /\ GetCodeRead(u) => At(u, "getCode.read")
      /\ GetCodeForward(u) => At(u, "getCode.forward")
      /\ GetCodeExhausted(u) => At(u, "getCode.forward")
      /\ GetCodeReverse(u) => At(u, "getCode.reverse")
      /\ StartRoster(u) => At(u, "start.roster")
      /\ StartReady(u) => At(u, "start.ready")
      /\ StartGuard(u) => At(u, "start.guard")
      /\ AbortRoster(u) => At(u, "abort.roster")
    BY DEF ReadyWrite, SettingsWrite, GetCodeRead, GetCodeForward, GetCodeExhausted, GetCodeReverse,
           StartRoster, StartReady, StartGuard, AbortRoster
<1>5. QED
    BY <1>1, <1>2, <1>3, <1>4 DEF Step, At

(* A member whom a call makes leader is an admin afterwards. *)
LEMMA StepRaise ==
    ASSUME StoreOK, NEW u \in Users, Step(u), NEW p \in Parties, NEW t \in Active(p),
           req[u].p = p,
           \/ req[u].pc = "lead.promote" /\ req[u].next = t
           \/ req[u].pc = "transfer.promote" /\ req[u].t = t
    PROVE  edge'[p][t] = "admin"
<1>1. Promote(p, t)
    BY StepCall DEF LeadPromote, TransferPromote
<1>2. edge[p][t] \in {"member", "admin"}
    BY DEF Active
<1>3. QED
    BY <1>1, <1>2, PromoteEdges DEF Active

-----------------------------------------------------------------------------
(* What a new request is, and what it does: only a leave touches an edge. *)

LEMMA SendFacts ==
    ASSUME ReqOK, StoreOK, NEW u \in Users, Send(u)
    PROVE  LET s == req'[u] IN
           /\ s.p # None => s.p \in groups \/ \E c \in Codes : forward[c] = s.p
           /\ s.pc = "leave.rows" => /\ s.op = "leave" /\ s.t = u /\ s.p \in Parties
                                     /\ edge' = [edge EXCEPT ![s.p][u] = "none"]
           /\ s.pc # "leave.rows" => edge' = edge
           /\ s.pc \in {"settings.write", "getCode.read"} => s.p \in groups
           /\ s.pc = "ready.write" => u \in Active(s.p)
           /\ s.pc = "code.group" => s.c \in Codes /\ forward[s.c] = s.p
           /\ s.pc = "join.commit" => SharedParties(Memberships(u, s.p)) = {}
           /\ s.pc = "create.count" => s.solos = Memberships(u, None)
           /\ s.pc \in Transferring => s.op = "transfer"
<1> DEFINE s == req'[u]
           Goal == /\ s.p # None => s.p \in groups \/ \E c \in Codes : forward[c] = s.p
                   /\ s.pc = "leave.rows" => /\ s.op = "leave" /\ s.t = u /\ s.p \in Parties
                                             /\ edge' = [edge EXCEPT ![s.p][u] = "none"]
                   /\ s.pc # "leave.rows" => edge' = edge
                   /\ s.pc \in {"settings.write", "getCode.read"} => s.p \in groups
                   /\ s.pc = "ready.write" => u \in Active(s.p)
                   /\ s.pc = "code.group" => s.c \in Codes /\ forward[s.c] = s.p
                   /\ s.pc = "join.commit" => SharedParties(Memberships(u, s.p)) = {}
                   /\ s.pc = "create.count" => s.solos = Memberships(u, None)
                   /\ s.pc \in Transferring => s.op = "transfer"
<1> HIDE DEF Goal
<1>1. ASSUME NEW op, NEW pc, NEW p, NEW t, Begin(u, New(op, pc, p, t))
      PROVE  s.op = op /\ s.pc = pc /\ s.p = p /\ s.t = t
    BY <1>1, BeginTurns, NewFields DEF Turns
<1>2. ASSUME Create(u) PROVE Goal
    <2> DEFINE d == [New("create", "create.count", None, None)
                       EXCEPT !.solos = Memberships(u, None)]
    <2>1. Begin(u, d) /\ edge' = edge
        BY <1>2 DEF Create, groupVars
    <2>2. d.pc = "create.count" /\ d.p = None /\ d.solos = Memberships(u, None)
        BY CreateFields
    <2> HIDE DEF d
    <2>3. s = d
        BY <2>1, BeginTurns DEF Turns
    <2>4. QED
        BY <2>1, <2>2, <2>3 DEF Goal, Transferring
<1>3. ASSUME NEW c \in Codes, JoinByCode(u, c) PROVE Goal
    <2> DEFINE d == [New("joinByCode", "code.group", forward[c], None) EXCEPT !.c = c]
    <2>1. Begin(u, d) /\ edge' = edge
        BY <1>3 DEF JoinByCode, groupVars
    <2>2. d.pc = "code.group" /\ d.p = forward[c] /\ d.c = c
        BY JoinByCodeFields
    <2> HIDE DEF d
    <2>3. s = d
        BY <2>1, BeginTurns DEF Turns
    <2>4. QED
        BY <2>1, <2>2, <2>3 DEF Goal, Transferring
<1>4. ASSUME NEW p \in Parties, Disband(u, p) PROVE Goal
    <2>1. s.pc = "disband.list" /\ s.p = p /\ edge' = edge /\ p \in groups
        BY <1>4, BeginTurns, DisbandFields DEF Disband, Turns, groupVars
    <2>2. QED
        BY <2>1 DEF Goal, Transferring
<1>5. ASSUME NEW p \in Parties, Leave(u, p) PROVE Goal
    <2>1. /\ s.op = "leave" /\ s.pc = "leave.rows" /\ s.p = p /\ s.t = u /\ p \in groups
          /\ edge' = [edge EXCEPT ![p][u] = "none"]
        BY <1>1, <1>5 DEF Leave
    <2>2. QED
        BY <2>1 DEF Goal, Transferring
<1>6. ASSUME NEW p \in Parties,
             \/ Join(u, p) \/ SetReady(u, p, "ready") \/ SetReady(u, p, "unready")
             \/ SetSettings(u, p) \/ GetCode(u, p) \/ Start(u, p) \/ Abort(u, p)
      PROVE  Goal
    <2>1. CASE Join(u, p)
        BY <1>1, <2>1 DEF Join, groupVars, Goal, Transferring
    <2>2. CASE SetReady(u, p, "ready") \/ SetReady(u, p, "unready")
        BY <1>1, <2>2 DEF SetReady, groupVars, Goal, Transferring
    <2>3. CASE SetSettings(u, p) \/ GetCode(u, p)
        BY <1>1, <2>3 DEF SetSettings, GetCode, groupVars, Goal, Transferring
    <2>4. CASE Start(u, p) \/ Abort(u, p)
        BY <1>1, <2>4 DEF Start, Abort, groupVars, Goal, Transferring
    <2>5. QED
        BY <1>6, <2>1, <2>2, <2>3, <2>4
<1>7. ASSUME NEW p \in Parties, NEW t \in Users,
             Invite(u, p, t) \/ Add(u, p, t) \/ Kick(u, p, t) \/ Transfer(u, p, t)
      PROVE  Goal
    <2>1. CASE Invite(u, p, t) \/ Add(u, p, t)
        BY <1>1, <2>1 DEF Invite, Add, groupVars, Goal, Transferring
    <2>2. CASE Kick(u, p, t) \/ Transfer(u, p, t)
        BY <1>1, <2>2 DEF Kick, Transfer, groupVars, Goal, Transferring
    <2>3. QED
        BY <1>7, <2>1, <2>2
<1>8. Goal
    BY <1>2, <1>3, <1>4, <1>5, <1>6, <1>7 DEF Send
<1>9. QED
    BY <1>8 DEF Goal

-----------------------------------------------------------------------------
(* What holds whatever overlaps: requests make the calls of their kind, on   *)
(* parties that were created, and a party without a group has no members.    *)

Fit(r, u) ==
    /\ Kinds(r)
    /\ r.pc \in Transferring => r.op = "transfer"
    /\ r.pc = "leave.rows" => r.t = u
    /\ r.p # None => Made(r.p)

Based ==
    /\ \A u \in Users : Fit(req[u], u)
    /\ \A p \in Parties : creator[p] = None => leader[p] = None /\ ready[p] = {} /\ p \notin settings
    /\ \A p \in Parties \ groups : \A v \in Users : edge[p][v] = "none"
    /\ IsFiniteSet(groups)
    /\ \A p \in Parties : IsFiniteSet(Active(p))

(* One request takes one step. *)
Acts(u) == Send(u) \/ Step(u) \/ CallError(u)

LEMMA ErrorFrame ==
    ASSUME NEW u \in Users, CallError(u)
    PROVE  UNCHANGED <<groups, creator, edge, rowVars>>
BY DEF CallError, groupVars

LEMMA ActMoved ==
    ASSUME ReqOK, StoreOK, NEW u \in Users, Kinds(req[u]), Acts(u)
    PROVE  /\ Turns(u, req'[u]) /\ Kinds(req'[u])
           /\ ~Send(u) => Moved(req[u], req'[u])
<1>1. CASE Send(u)
    BY <1>1, SendTurns, KindsSend
<1>2. CASE Step(u)
    BY <1>2, KindsStep, StepMoved
<1>3. CASE CallError(u)
    BY <1>3, ErrorMoved
<1>4. QED
    BY <1>1, <1>2, <1>3 DEF Acts

LEMMA NextShape ==
    ASSUME ReqOK, StoreOK, [Next]_vars
    PROVE  \/ \E u \in Users : Acts(u)
           \/ UNCHANGED <<groups, creator, edge, rowVars, req, faults>>
           \/ /\ UNCHANGED <<groups, creator, edge, rowVars>>
              /\ faults' # faults
              /\ \A u \in Users : req'[u] = Idle
<1>1. CASE \E p \in Parties : GuardExpire(p)
    BY <1>1 DEF GuardExpire, groupVars
<1>2. CASE RuntimeRestart
    BY <1>2 DEF RuntimeRestart, groupVars, StoreOK
<1>3. CASE UNCHANGED vars
    BY <1>3 DEF vars, rowVars
<1>4. QED
    BY <1>1, <1>2, <1>3 DEF Next, Acts

(* What happens to the groups and to those who made them. *)
LEMMA ActGroups ==
    ASSUME ReqOK, StoreOK, NEW u \in Users, Acts(u)
    PROVE  \/ groups' = groups /\ creator' = creator
           \/ /\ Step(u) /\ req[u].pc = "create.commit" /\ Finish(u) /\ UNCHANGED rowVars
              /\ \E p \in Parties : /\ creator[p] = None /\ groups' = groups \cup {p}
                                    /\ creator' = [creator EXCEPT ![p] = u]
           \/ /\ Step(u) /\ req[u].pc = "disband.delete" /\ req[u].q \in groups
              /\ groups' = groups \ {req[u].q}
              /\ creator' = creator /\ UNCHANGED rowVars /\ Goto(u, "disband.rows")
BY SendTurns, StepGroups, ErrorFrame DEF Acts

LEMMA MadeStays ==
    ASSUME ReqOK, StoreOK, [Next]_vars, NEW p, Made(p)
    PROVE  Made(p)'
<1>1. ASSUME NEW u \in Users, Acts(u) PROVE creator'[p] = creator[p]
    BY <1>1, ActGroups DEF Made, StoreOK
<1>2. QED
    BY <1>1, NextShape DEF Made

(* An edge: what a call, a leave or a fault makes of it. *)
LEMMA ActEdge ==
    ASSUME ReqOK, StoreOK, NEW u \in Users, Acts(u), NEW p \in Parties, NEW t \in Users
    PROVE  LET r == req[u]
               s == req'[u] IN
           \/ edge'[p][t] = edge[p][t]
           \/ Step(u) /\ r.pc = "create.commit" /\ t = u /\ creator[p] = None /\ p \in groups'
           \/ Step(u) /\ r.pc = "disband.delete" /\ r.q = p /\ p \notin groups'
              /\ edge'[p][t] = "none"
           \/ /\ Step(u) /\ r.pc \in {"join.commit", "code.add"} /\ r.p = p /\ t = u
              /\ p \in groups /\ edge[p][t] \notin {"member", "admin"} /\ edge'[p][t] = "member"
           \/ /\ Step(u) /\ r.pc = "kick.commit" /\ r.p = p /\ t = r.t /\ s.pc = "lead.resolve"
              /\ edge'[p][t] = "none"
           \/ edge[p][t] = "member" /\ edge'[p][t] = "admin"
           \/ /\ p \in groups /\ edge[p][t] \notin {"member", "admin"}
              /\ edge'[p][t] \in {"invited", "requested"}
           \/ Send(u) /\ s.pc = "leave.rows" /\ s.p = p /\ t = u /\ s.t = u /\ edge'[p][t] = "none"
<1>1. CASE Send(u)
    <2>1. CASE req'[u].pc = "leave.rows"
        <3>1. req'[u].t = u /\ edge' = [edge EXCEPT ![req'[u].p][u] = "none"]
            BY <1>1, <2>1, SendFacts
        <3>2. QED
            BY <1>1, <2>1, <3>1 DEF StoreOK
    <2>2. CASE req'[u].pc # "leave.rows"
        BY <1>1, <2>2, SendFacts
    <2>3. QED
        BY <2>1, <2>2
<1>2. CASE Step(u)
    BY <1>2, StepEdge
<1>3. CASE CallError(u)
    BY <1>3, ErrorFrame
<1>4. QED
    BY <1>1, <1>2, <1>3 DEF Acts

(* Who becomes a member, and who stops being one. *)
LEMMA ActEntered ==
    ASSUME ReqOK, StoreOK, NEW u \in Users, Acts(u), NEW p \in Parties, NEW t \in Entered(p)
    PROVE  /\ t = u /\ Step(u)
           /\ \/ req[u].pc = "create.commit" /\ creator[p] = None /\ p \in groups'
              \/ req[u].pc \in {"join.commit", "code.add"} /\ req[u].p = p /\ p \in groups
<1>1. t \in Users /\ edge'[p][t] \in {"member", "admin"} /\ edge[p][t] \notin {"member", "admin"}
    BY DEF Entered, Active
<1>2. QED
    BY <1>1, ActEdge

LEMMA ActWent ==
    ASSUME ReqOK, StoreOK, NEW u \in Users, Acts(u), NEW p \in Parties, NEW t \in Went(p)
    PROVE  LET r == req[u]
               s == req'[u] IN
           \/ Step(u) /\ r.pc = "disband.delete" /\ r.q = p /\ p \notin groups'
           \/ Step(u) /\ r.pc = "kick.commit" /\ r.p = p /\ t = r.t /\ s.pc = "lead.resolve"
           \/ Send(u) /\ s.pc = "leave.rows" /\ s.p = p /\ t = u /\ s.t = u
<1>1. /\ t \in Users /\ edge[p][t] \in {"member", "admin"}
      /\ edge'[p][t] \notin {"member", "admin"}
    BY DEF Went, Active
<1>2. edge'[p][t] # edge[p][t] /\ ~(edge[p][t] = "member" /\ edge'[p][t] = "admin")
    BY <1>1
<1>3. ~(req[u].pc = "create.commit" /\ Step(u) /\ t = u /\ creator[p] = None /\ p \in groups')
      \/ edge'[p][t] = "admin"
    <2>1. ASSUME req[u].pc = "create.commit", Step(u)
          PROVE  edge'[p][t] = edge[p][t] \/ edge'[p][t] = "admin"
        <3>1. CreateCommit(u)
            BY <2>1, StepCall
        <3>2. PICK q \in Parties : edge' = [edge EXCEPT ![q][u] = "admin"]
            BY <3>1 DEF CreateCommit
        <3>3. QED
            BY <1>1, <3>2 DEF StoreOK
    <2>2. QED
        BY <1>2, <2>1
<1>4. QED
    BY <1>1, <1>2, <1>3, ActEdge

LEMMA FitNow ==
    ASSUME NEW v \in Users, Kinds(req'[v]),
           req'[v].pc \in Transferring => req'[v].op = "transfer",
           req'[v].pc = "leave.rows" => req'[v].t = v,
           req'[v].p # None => creator'[req'[v].p] # None /\ req'[v].p \in Parties
    PROVE  Fit(req[v], v)'
BY DEF Fit, Made, Kinds, Leading, Disbanding, Clearing, BeforeGuard, Moving, Transferring

LEMMA BasedFit ==
    ASSUME ReqOK, StoreOK, PairInv, Based, [Next]_vars
    PROVE  \A v \in Users : Fit(req[v], v)'
<1>1. \A p : Made(p) => creator'[p] # None /\ p \in Parties
    BY MadeStays DEF Made
<1>2. \A v \in Users : Fit(req[v], v)
    BY DEF Based
<1>3. ASSUME NEW v \in Users, req'[v] = req[v] PROVE Fit(req[v], v)'
    BY <1>1, <1>2, <1>3, FitNow DEF Fit
<1>4. ASSUME NEW v \in Users, req'[v] = Idle PROVE Fit(req[v], v)'
    BY <1>4, KindsIdle, IdleFields, FitNow DEF Transferring
<1>5. ASSUME NEW u \in Users, Acts(u) PROVE Fit(req[u], u)'
    <2> DEFINE r == req[u]
               s == req'[u]
    <2>1. Turns(u, s) /\ Kinds(s) /\ (~Send(u) => Moved(r, s))
        BY <1>2, <1>5, ActMoved DEF Fit
    <2>2. CASE Send(u)
        <3>1. s.p # None => s.p \in groups \/ \E c \in Codes : forward[c] = s.p
            BY <2>2, SendFacts
        <3>2. s.p # None => Made(s.p)
            <4>1. CASE s.p \in groups
                BY <4>1 DEF PairInv
            <4>2. ASSUME NEW c \in Codes, forward[c] = s.p, s.p # None PROVE Made(s.p)
                BY <4>2 DEF PairInv
            <4>3. QED
                BY <3>1, <4>1, <4>2
        <3>3. /\ s.pc \in Transferring => s.op = "transfer"
              /\ s.pc = "leave.rows" => s.t = u
            BY <2>2, SendFacts
        <3>4. s.p # None => creator'[s.p] # None /\ s.p \in Parties
            BY <1>1, <3>2
        <3>5. QED
            BY <2>1, <3>3, <3>4, FitNow
    <2>3. CASE ~Send(u) /\ s # Idle
        <3>1. /\ s.op = r.op /\ s.p = r.p /\ s.pc \notin Opening
              /\ s.pc \in Transferring => r.pc \in Transferring
            BY <2>1, <2>3 DEF Moved
        <3>2. s.pc # "leave.rows"
            BY <3>1 DEF Opening
        <3>3. s.p # None => creator'[s.p] # None /\ s.p \in Parties
            BY <1>1, <1>2, <3>1 DEF Fit
        <3>4. s.pc \in Transferring => s.op = "transfer"
            BY <1>2, <3>1 DEF Fit
        <3>5. QED
            BY <2>1, <3>2, <3>3, <3>4, FitNow
    <2>4. QED
        BY <1>4, <2>2, <2>3
<1>6. ASSUME NEW u \in Users, Acts(u), NEW v \in Users PROVE Fit(req[v], v)'
    <2>1. CASE v = u
        BY <1>5, <1>6, <2>1
    <2>2. CASE v # u
        BY <1>2, <1>3, <1>6, <2>2, ActMoved DEF Turns, Fit
    <2>3. QED
        BY <2>1, <2>2
<1>7. QED
    BY <1>3, <1>4, <1>6, NextShape

LEMMA BasedRows ==
    ASSUME ReqOK, StoreOK, Based, [Next]_vars, NEW p \in Parties, creator'[p] = None
    PROVE  leader'[p] = None /\ ready'[p] = {} /\ p \notin settings'
<1>1. creator[p] = None
    BY MadeStays DEF Made
<1>2. leader[p] = None /\ ready[p] = {} /\ p \notin settings
    BY <1>1 DEF Based
<1>3. \A u \in Users : req[u].p # p
    BY <1>1, NoneIsNobody DEF Based, Fit, Made
<1>4. ASSUME NEW u \in Users, Step(u) PROVE leader'[p] = None /\ ready'[p] = {} /\ p \notin settings'
    <2>1. leader'[p] = None
        BY <1>2, <1>3, <1>4, StepLeader
    <2>2. \A m \in ready'[p] : FALSE
        BY <1>2, <1>3, <1>4, StepReady
    <2>3. p \notin settings'
        BY <1>2, <1>3, <1>4, StepSettings
    <2>4. QED
        BY <2>1, <2>2, <2>3
<1>5. ASSUME UNCHANGED rowVars PROVE leader'[p] = None /\ ready'[p] = {} /\ p \notin settings'
    BY <1>2, <1>5 DEF rowVars
<1>6. ASSUME NEW u \in Users, Acts(u) PROVE Step(u) \/ UNCHANGED rowVars
    BY <1>6, SendTurns, ErrorFrame DEF Acts
<1>7. QED
    BY <1>4, <1>5, <1>6, NextShape

LEMMA BasedEdges ==
    ASSUME ReqOK, StoreOK, Based, [Next]_vars, NEW p \in Parties \ groups', NEW t \in Users
    PROVE  edge'[p][t] = "none"
<1>1. p \notin groups => edge[p][t] = "none"
    BY DEF Based
<1>2. ASSUME NEW u \in Users, Acts(u) PROVE edge'[p][t] = "none"
    <2>1. CASE p \in groups
        <3>1. Step(u) /\ req[u].pc = "disband.delete" /\ req[u].q = p
            BY <1>2, <2>1, ActGroups
        <3>2. DisbandDelete(u)
            BY <3>1, StepCall
        <3>3. edge' = [edge EXCEPT ![p] = [v \in Users |-> "none"]]
            BY <2>1, <3>1, <3>2 DEF DisbandDelete
        <3>4. QED
            BY <3>3 DEF StoreOK
    <2>2. CASE p \notin groups
        BY <1>1, <1>2, <2>2, ActEdge
    <2>3. QED
        BY <2>1, <2>2
<1>3. CASE UNCHANGED <<groups, edge>>
    BY <1>1, <1>3
<1>4. QED
    BY <1>2, <1>3, NextShape

LEMMA BasedNext ==
    ASSUME ReqOK, StoreOK, PairInv, Based, [Next]_vars
    PROVE  Based'
<1>1. IsFiniteSet(groups')
    <2>1. \A u \in Users : Acts(u) =>
            groups' \subseteq groups \/ \E q \in Parties : groups' = groups \cup {q}
        BY ActGroups
    <2>2. groups' \subseteq groups \/ \E q \in Parties : groups' = groups \cup {q}
        BY <2>1, NextShape
    <2>3. IsFiniteSet(groups)
        BY DEF Based
    <2>4. QED
        BY <2>2, <2>3, FS_Subset, FS_AddElement
<1>2. ASSUME NEW p \in Parties PROVE IsFiniteSet(Active(p)')
    <2>1. ASSUME NEW u \in Users, Acts(u) PROVE Active(p)' \subseteq Active(p) \cup {u}
        BY <2>1, ActEntered DEF Entered
    <2>2. CASE edge' = edge
        BY <2>2, EdgesKept DEF Based
    <2>3. CASE \E u \in Users : Acts(u)
        <3>1. PICK u \in Users : Active(p)' \subseteq Active(p) \cup {u}
            BY <2>1, <2>3
        <3>2. IsFiniteSet(Active(p) \cup {u})
            BY FS_AddElement DEF Based
        <3>3. QED
            BY <3>1, <3>2, FS_Subset
    <2>4. QED
        BY <2>2, <2>3, NextShape
<1>3. QED
    BY <1>1, <1>2, BasedFit, BasedRows, BasedEdges DEF Based

LEMMA BasedInit == Init => Based
<1>1. ASSUME Init PROVE Based
    <2>1. \A p \in Parties : Active(p) = {}
        BY <1>1 DEF Init, Active
    <2>2. \A u \in Users : Fit(req[u], u)
        BY <1>1, KindsIdle, IdleFields DEF Init, Fit, Transferring
    <2>3. QED
        BY <1>1, <2>1, <2>2, FS_EmptySet DEF Init, Based
<1>2. QED
    BY <1>1

-----------------------------------------------------------------------------
(* OverrideNamesAdmin.  An override that does not name an admin is about to: *)
(* the request that wrote it promotes the member, or the one the member left *)
(* by, or was kicked by, has still to look for a successor.                  *)

(* r is the request by which m goes from p, and may yet name a successor. *)
Departs(r, p, m) ==
    /\ r.p = p /\ r.t = m /\ r.op \in {"leave", "kick"}
    /\ r.pc \in {"leave.rows", "lead.resolve", "lead.roster", "lead.write"}

(* r made m the leader of p and is about to make m an admin. *)
Raises(r, p, m) ==
    /\ r.p = p
    /\ (r.pc = "lead.promote" /\ r.next = m) \/ (r.pc = "transfer.promote" /\ r.t = m)

(* r is about to make m the leader of p. *)
Names(r, p, m) ==
    /\ r.p = p
    /\ (r.pc = "lead.write" /\ r.next = m) \/ (r.pc = "transfer.write" /\ r.t = m)

LedHere(p) ==
    /\ leader[p] # None =>
         \/ edge[p][leader[p]] = "admin"
         \/ leader[p] \in Active(p) /\ \E u \in Users : Raises(req[u], p, leader[p])
         \/ \E u \in Users : Departs(req[u], p, leader[p])
    /\ \A u \in Users, m \in Users : Names(req[u], p, m) => m \in Active(p)

LedInv == \A p \in groups \ astray : LedHere(p)

LEMMA LedNow ==
    ASSUME NEW p,
           leader'[p] # None =>
              \/ edge'[p][leader'[p]] = "admin"
              \/ leader'[p] \in Active(p)' /\ \E v \in Users : Raises(req'[v], p, leader'[p])
              \/ \E v \in Users : Departs(req'[v], p, leader'[p]),
           \A v \in Users, m \in Users : Names(req'[v], p, m) => m \in Active(p)'
    PROVE  LedHere(p)'
BY DEF LedHere, Raises, Departs, Names

LEMMA NamesNamed ==
    ASSUME NEW u \in Users, NEW p, NEW m, Names(req[u], p, m)
    PROVE  m \in Named(p)
BY DEF Names, Named, At

(* Whom a request has named stays a member, unless the party goes astray. *)
LEMMA NamedStay ==
    ASSUME NEW p, LedHere(p), Named(p) \cap Went(p) = {}, NEW u \in Users, NEW m \in Users,
           Names(req[u], p, m)
    PROVE  m \in Active(p) /\ m \in Active(p)'
BY NamesNamed DEF LedHere, Went

(* A request about p that is none of these. *)
LEMMA IdleNames ==
    ASSUME NEW r, NEW p, NEW m, r.pc \in {"idle"} \cup Opening \/ r.p # p
    PROVE  /\ ~Names(r, p, m) /\ ~Raises(r, p, m)
           /\ Departs(r, p, m) => r.pc = "leave.rows"
BY DEF Names, Raises, Departs, Opening

(* The edges of a party that stays: only a leave or a kick takes a member. *)
LEMMA LedEdge ==
    ASSUME ReqOK, StoreOK, PairInv, NEW u \in Users, Acts(u), NEW p \in groups, p \in groups',
           NEW m \in Users
    PROVE  \/ /\ edge[p][m] = "admin" => edge'[p][m] = "admin"
              /\ m \in Active(p) => m \in Active(p)'
           \/ Step(u) /\ req[u].pc = "kick.commit" /\ req[u].p = p /\ m = req[u].t
              /\ req'[u].pc = "lead.resolve"
           \/ Send(u) /\ req'[u].pc = "leave.rows" /\ req'[u].p = p /\ req'[u].t = m
<1>1. p \in Parties /\ creator[p] # None
    BY DEF PairInv, Made
<1>2. QED
    BY <1>1, ActEdge DEF Active

(* A request that is not about p, and before it or after it neither. *)
LEMMA LedOther ==
    ASSUME ReqOK, StoreOK, PairInv, Based, NEW u \in Users, Acts(u), NEW p \in groups,
           p \in groups', LedHere(p), req[u].p # p, req'[u].p # p
    PROVE  LedHere(p)'
<1> DEFINE r == req[u]
           s == req'[u]
<1>0. p \in Parties /\ p # None
    BY NoneIsNobody DEF PairInv, Made
<1>1. Turns(u, s)
    BY ActMoved DEF Based, Fit
<1>2. leader'[p] = leader[p]
    <2>1. CASE Step(u)
        <3>1. r.pc = "disband.rows" => r.q # p
            BY DEF PairInv, PairOf, Dead
        <3>2. QED
            BY <1>0, <2>1, <3>1, StepLeader
    <2>2. CASE Send(u) \/ CallError(u)
        BY <2>2, SendTurns, ErrorFrame DEF rowVars
    <2>3. QED
        BY <2>1, <2>2 DEF Acts
<1>3. \A m \in Users : /\ edge[p][m] = "admin" => edge'[p][m] = "admin"
                       /\ m \in Active(p) => m \in Active(p)'
    BY LedEdge
<1>4. \A v \in Users : \A m : /\ Names(req'[v], p, m) => Names(req[v], p, m)
                              /\ Raises(req[v], p, m) => Raises(req'[v], p, m)
                              /\ Departs(req[v], p, m) => Departs(req'[v], p, m)
    <2>1. \A v \in Users : v # u => req'[v] = req[v]
        BY <1>1 DEF Turns
    <2>2. \A m : ~Names(s, p, m) /\ ~Raises(r, p, m) /\ ~Departs(r, p, m)
        BY DEF Names, Raises, Departs
    <2>3. QED
        BY <2>1, <2>2
<1>5. leader[p] # None => leader[p] \in Users
    BY <1>0 DEF StoreOK
<1>6. \A v \in Users, m \in Users : Names(req'[v], p, m) => m \in Active(p)'
    BY <1>3, <1>4 DEF LedHere
<1>7. leader[p] # None =>
         \/ edge'[p][leader[p]] = "admin"
         \/ leader[p] \in Active(p)' /\ \E v \in Users : Raises(req'[v], p, leader[p])
         \/ \E v \in Users : Departs(req'[v], p, leader[p])
    BY <1>3, <1>4, <1>5 DEF LedHere
<1>8. QED
    BY <1>2, <1>6, <1>7, LedNow

(* A new request about p. *)
LEMMA LedSend ==
    ASSUME ReqOK, StoreOK, PairInv, Based, NEW u \in Users, Send(u), NEW p \in groups,
           p \in groups', LedHere(p), Named(p) \cap Went(p) = {}
    PROVE  LedHere(p)'
<1> DEFINE r == req[u]
           s == req'[u]
<1>0. p \in Parties /\ p # None
    BY NoneIsNobody DEF PairInv, Made
<1>1. /\ Turns(u, s) /\ r.pc = "idle" /\ <<s.op, s.pc>> \in Sent /\ leader' = leader
    BY SendTurns DEF rowVars
<1>2. s.pc \in Opening \cup {"disband.list"}
    BY <1>1 DEF Sent, Opening
<1>3. \A m : ~Names(s, p, m) /\ ~Raises(r, p, m) /\ ~Departs(r, p, m)
    BY <1>1, <1>2 DEF Names, Raises, Departs, Opening
<1>4. \A v \in Users : \A m : /\ Names(req'[v], p, m) => Names(req[v], p, m)
                              /\ Raises(req[v], p, m) => Raises(req'[v], p, m)
                              /\ Departs(req[v], p, m) => Departs(req'[v], p, m)
    BY <1>1, <1>3 DEF Turns
<1>5. leader[p] # None => leader[p] \in Users
    BY <1>0 DEF StoreOK
<1>6. \A v \in Users, m \in Users : Names(req'[v], p, m) => m \in Active(p)'
    BY <1>4, NamedStay
<1>7. \A m \in Users : \/ /\ edge[p][m] = "admin" => edge'[p][m] = "admin"
                          /\ m \in Active(p) => m \in Active(p)'
                       \/ Departs(s, p, m)
    <2>1. s.pc = "leave.rows" => s.op = "leave"
        BY SendFacts
    <2>2. ~Step(u)
        BY <1>1, StepCall
    <2>3. QED
        BY <2>1, <2>2, LedEdge DEF Acts, Departs
<1>8. leader[p] # None =>
         \/ edge'[p][leader[p]] = "admin"
         \/ leader[p] \in Active(p)' /\ \E v \in Users : Raises(req'[v], p, leader[p])
         \/ \E v \in Users : Departs(req'[v], p, leader[p])
    BY <1>4, <1>5, <1>7 DEF LedHere
<1>9. QED
    BY <1>1, <1>6, <1>8, LedNow

(* What a call about p makes of the one who goes from p by it. *)
LEMMA DepartsOn ==
    ASSUME ReqOK, StoreOK, NEW u \in Users, Step(u), NEW p \in groups, NEW m, m # None,
           leader[p] = m, leader'[p] = m, Departs(req[u], p, m)
    PROVE  Departs(req'[u], p, m) \/ req[u].pc = "lead.write"
<1> DEFINE r == req[u]
           s == req'[u]
<1>1. r.p = p /\ r.t = m /\ r.op \in {"leave", "kick"}
    BY DEF Departs
<1>2. ASSUME NEW pc, NEW x, Goes(r, s, pc, x), pc \in {"lead.resolve", "lead.roster", "lead.write"}
      PROVE  Departs(s, p, m)
    BY <1>1, <1>2 DEF Departs, Goes
<1>3. CASE r.pc = "leave.rows"
    <2>1. Goes(r, s, "lead.resolve", r.solos)
        BY <1>3, StepCall, GotoTurns DEF LeaveRows, Same
    <2>2. QED
        BY <1>2, <2>1
<1>4. CASE r.pc = "lead.resolve"
    <2>1. LeadResolve(u) /\ ResolveLeader(p) = m
        BY <1>4, StepCall DEF ResolveLeader
    <2>2. Goes(r, s, "lead.roster", r.solos)
        BY <1>1, <2>1, LeadResolveTurns DEF Same
    <2>3. QED
        BY <1>2, <2>2
<1>5. CASE r.pc = "lead.roster"
    <2>1. LeadRoster(u)
        BY <1>5, StepCall
    <2>2. Goes(r, s, "lead.write", r.solos) \/ leader' = [leader EXCEPT ![p] = None]
        BY <1>1, <2>1, LeadRosterTurns
    <2>3. CASE leader' = [leader EXCEPT ![p] = None]
        BY <2>3 DEF StoreOK
    <2>4. QED
        BY <1>2, <2>2, <2>3
<1>6. QED
    BY <1>3, <1>4, <1>5 DEF Departs

(* Whom a call about p names as the next leader is a member. *)
LEMMA NamesOn ==
    ASSUME ReqOK, StoreOK, NEW u \in Users, Step(u), NEW p \in Parties, NEW m \in Users,
           Names(req'[u], p, m)
    PROVE  m \in Active(p)'
<1> DEFINE r == req[u]
           s == req'[u]
<1>1. s.pc \in {"lead.write", "transfer.write"} /\ s.p = p
    BY DEF Names
<1>2. r.pc \in {"lead.roster", "transfer.roster"} /\ r.p = p
    <2>1. Flow(r.pc, s.pc) /\ Moved(r, s)
        BY StepFlow, StepMoved
    <2>2. QED
        BY <1>1, <2>1, IdleFields DEF Flow, Moved
<1>3. CASE r.pc = "lead.roster"
    <2>1. LeadRoster(u) /\ edge' = edge
        BY <1>3, StepCall DEF LeadRoster, groupVars
    <2>2. s.next \in Active(p) /\ s.pc = "lead.write"
        <3>1. s.pc # "idle" /\ s.pc # "kick.rows"
            BY <1>1
        <3>2. QED
            BY <1>2, <2>1, <3>1, LeadRosterTurns, IdleFields DEF Goes
    <2>3. QED
        BY <2>1, <2>2, EdgesKept DEF Names
<1>4. CASE r.pc = "transfer.roster"
    <2>1. TransferRoster(u) /\ edge' = edge
        BY <1>4, StepCall DEF TransferRoster, groupVars
    <2>2. s.t \in Active(p) /\ s.pc = "transfer.write"
        <3>1. /\ Check(u, {u, r.t} \subseteq Active(p), "transfer.write")
              /\ s # Idle
            BY <1>1, <1>2, <2>1, IdleFields DEF TransferRoster
        <3>2. {u, r.t} \subseteq Active(p) /\ Same(r, s, "transfer.write")
            BY <3>1, CheckTurns DEF Turns
        <3>3. QED
            BY <3>2 DEF Same, Goes
    <2>3. QED
        BY <2>1, <2>2, EdgesKept DEF Names
<1>5. QED
    BY <1>2, <1>3, <1>4

LEMMA LedStep ==
    ASSUME ReqOK, StoreOK, PairInv, Based, NEW u \in Users, Step(u), NEW p \in groups,
           p \in groups', LedHere(p), Named(p) \cap Went(p) = {}, req[u].p = p
    PROVE  LedHere(p)'
<1> DEFINE r == req[u]
           s == req'[u]
           m == leader'[p]
<1>0. p \in Parties /\ p # None /\ Acts(u)
    BY NoneIsNobody DEF PairInv, Made, Acts
<1>1. Turns(u, s) /\ Moved(r, s)
    BY StepMoved
<1>2. \A v \in Users \ {u} : req'[v] = req[v]
    BY <1>1 DEF Turns
<1>3. \A v \in Users, t \in Users : Names(req'[v], p, t) => t \in Active(p)'
    <2>1. ASSUME NEW v \in Users \ {u}, NEW t \in Users, Names(req'[v], p, t)
          PROVE  t \in Active(p)'
        BY <1>2, <2>1, NamedStay
    <2>2. QED
        BY <1>0, <2>1, NamesOn
<1>4. CASE leader'[p] # leader[p] \/ r.pc = "lead.write"
    <2>1. \/ m = None
          \/ r.pc = "lead.write" /\ m = r.next
          \/ r.pc = "transfer.write" /\ m = r.t
        <3>1. r.pc = "disband.rows" => r.q # p
            BY DEF PairInv, PairOf, Dead
        <3>2. r.pc = "lead.write" => m = r.next
            BY <1>0, StepCall DEF LeadWrite, StoreOK
        <3>3. QED
            BY <1>0, <1>4, <3>1, <3>2, StepLeader
    <2>2. ASSUME r.pc = "lead.write", m = r.next, m # None
          PROVE  Names(r, p, m) /\ Raises(s, p, m)
        <3>1. Goto(u, "lead.promote")
            BY <2>2, StepCall DEF LeadWrite
        <3>2. Same(r, s, "lead.promote")
            BY <3>1, GotoTurns
        <3>3. QED
            BY <2>2, <3>2 DEF Names, Raises, Same, Goes
    <2>3. ASSUME r.pc = "transfer.write", m = r.t, m # None
          PROVE  Names(r, p, m) /\ Raises(s, p, m)
        <3>1. Goto(u, "transfer.promote")
            BY <2>3, StepCall DEF TransferWrite
        <3>2. Same(r, s, "transfer.promote")
            BY <3>1, GotoTurns
        <3>3. QED
            BY <2>3, <3>2 DEF Names, Raises, Same, Goes
    <2>4. m # None => Names(r, p, m) /\ Raises(s, p, m) /\ m \in Users
        <3>1. r.next \in Users \cup {None} /\ r.t \in Users \cup {None}
            BY FieldType
        <3>2. QED
            BY <2>1, <2>2, <2>3, <3>1
    <2>5. m # None => m \in Active(p)' /\ \E v \in Users : Raises(req'[v], p, m)
        BY <2>4, NamedStay
    <2>6. QED
        BY <1>3, <2>5, LedNow
<1>5. CASE m = leader[p] /\ r.pc # "lead.write"
    <2>1. m # None => m \in Users
        BY <1>0, <1>5 DEF StoreOK
    <2>2. ASSUME m # None
          PROVE  \/ /\ edge[p][m] = "admin" => edge'[p][m] = "admin"
                    /\ m \in Active(p) => m \in Active(p)'
                 \/ Departs(s, p, m)
        <3>1. r.pc = "kick.commit" => r.op = "kick"
            BY DEF Based, Fit, Kinds
        <3>2. ASSUME r.pc = "kick.commit", m = r.t, s.pc = "lead.resolve" PROVE Departs(s, p, m)
            BY <1>1, <3>1, <3>2, IdleFields DEF Moved, Departs
        <3>3. r.pc # "idle"
            BY StepCall
        <3>4. ~Send(u)
            BY <3>3, SendTurns
        <3>5. QED
            BY <1>0, <2>1, <2>2, <3>2, <3>4, LedEdge
    <2>3. ASSUME m # None, edge[p][m] = "admin" PROVE edge'[p][m] = "admin" \/ Departs(s, p, m)
        BY <2>2, <2>3
    <2>4. ASSUME m # None, m \in Active(p), NEW v \in Users, Raises(req[v], p, m)
          PROVE  \/ edge'[p][m] = "admin" \/ Departs(s, p, m)
                 \/ m \in Active(p)' /\ Raises(req'[v], p, m)
        <3>1. CASE v = u
            BY <1>0, <2>4, <3>1, StepRaise DEF Raises
        <3>2. CASE v # u
            BY <1>2, <2>2, <2>4, <3>2
        <3>3. QED
            BY <3>1, <3>2
    <2>5. ASSUME m # None, NEW v \in Users, Departs(req[v], p, m)
          PROVE  Departs(req'[v], p, m)
        <3>1. CASE v = u
            BY <1>5, <2>5, <3>1, DepartsOn
        <3>2. CASE v # u
            BY <1>2, <2>5, <3>2
        <3>3. QED
            BY <3>1, <3>2
    <2>6. m # None =>
             \/ edge[p][m] = "admin"
             \/ m \in Active(p) /\ \E v \in Users : Raises(req[v], p, m)
             \/ \E v \in Users : Departs(req[v], p, m)
        BY <1>5 DEF LedHere
    <2>7. m # None =>
             \/ edge'[p][m] = "admin"
             \/ m \in Active(p)' /\ \E v \in Users : Raises(req'[v], p, m)
             \/ \E v \in Users : Departs(req'[v], p, m)
        BY <2>3, <2>4, <2>5, <2>6
    <2>8. QED
        BY <1>3, <2>7, LedNow
<1>6. QED
    BY <1>4, <1>5

LEMMA LedNamed ==
    ASSUME ReqOK, StoreOK, PairInv, Based, [Next]_vars, NEW p \in groups', p # None,
           LedByAdmin(p)'
    PROVE  LedHere(p)'
<1>1. \A v \in Users : req'[v].p = p => req'[v].op \notin {"leave", "kick", "transfer"}
    BY DEF LedByAdmin
<1>2. leader'[p] # None => edge'[p][leader'[p]] = "admin"
    BY DEF LedByAdmin
<1>3. \A v \in Users : Fit(req[v], v)'
    BY BasedFit
<1>4. \A v \in Users : /\ req'[v].pc = "lead.write" => req'[v].op \in {"leave", "kick"}
                       /\ req'[v].pc = "transfer.write" => req'[v].op = "transfer"
    BY <1>3 DEF Fit, Kinds, Leading, Transferring
<1>5. \A v \in Users, m \in Users : ~Names(req'[v], p, m)
    BY <1>1, <1>4 DEF Names
<1>6. QED
    BY <1>2, <1>5, LedNow

(* Nothing happens to p but that requests about other parties end. *)
LEMMA LedSame ==
    ASSUME NEW p, LedHere(p), UNCHANGED <<edge, leader>>,
           \A v \in Users : req'[v] = req[v] \/ (req[v].p # p /\ req'[v].p # p)
    PROVE  LedHere(p)'
<1>1. \A v \in Users : \A m : /\ Names(req'[v], p, m) => Names(req[v], p, m)
                              /\ Raises(req[v], p, m) => Raises(req'[v], p, m)
                              /\ Departs(req[v], p, m) => Departs(req'[v], p, m)
    BY DEF Names, Raises, Departs
<1>2. Active(p)' = Active(p)
    BY DEF Active
<1>3. QED
    BY <1>1, <1>2, LedNow DEF LedHere

LEMMA LedAct ==
    ASSUME ReqOK, StoreOK, PairInv, Based, NEW u \in Users, Acts(u), NEW p \in groups,
           p \in groups', LedHere(p), Named(p) \cap Went(p) = {}, Failed(u) => req[u].p # p
    PROVE  LedHere(p)'
<1>1. Turns(u, req'[u]) /\ (~Send(u) => Moved(req[u], req'[u]))
    BY ActMoved DEF Based, Fit
<1>2. p # None
    BY NoneIsNobody DEF PairInv, Made
<1>3. req[u].p # p /\ ~Send(u) => req'[u].p # p
    BY <1>1, <1>2, IdleFields DEF Moved
<1>4. CASE Send(u)
    BY <1>4, LedSend
<1>5. CASE Step(u)
    BY <1>3, <1>5, LedStep, LedOther, LedSend
<1>6. CASE CallError(u)
    <2>1. faults' # faults /\ UNCHANGED <<edge, leader>>
        <3>1. faults' = faults + 1 /\ faults \in Nat
            BY <1>6 DEF CallError, StoreOK
        <3>2. QED
            BY <1>6, <3>1, ErrorFrame DEF rowVars
    <2>2. req'[u] = req[u] \/ (req[u].p # p /\ req'[u].p # p)
        <3>1. Moved(req[u], req'[u])
            BY <1>6, ErrorMoved DEF Based, Fit
        <3>2. QED
            BY <1>2, <2>1, <3>1, IdleFields DEF Failed, Moved
    <2>3. \A v \in Users : req'[v] = req[v] \/ (req[v].p # p /\ req'[v].p # p)
        BY <1>1, <2>2 DEF Turns
    <2>4. QED
        BY <2>1, <2>3, LedSame
<1>7. QED
    BY <1>4, <1>5, <1>6 DEF Acts

(* A party that has just been created. *)
LEMMA LedBorn ==
    ASSUME ReqOK, StoreOK, PairInv, Based, NEW u \in Users, Acts(u), NEW p \in groups',
           p \notin groups
    PROVE  LedHere(p)'
<1>1. /\ p \in Parties /\ creator[p] = None /\ Finish(u) /\ leader' = leader
    BY ActGroups DEF rowVars
<1>2. leader[p] = None
    BY <1>1 DEF Based
<1>3. \A v \in Users : req[v].p # p
    BY <1>1, NoneIsNobody DEF Based, Fit, Made
<1>4. \A v \in Users : req'[v].p # p
    BY <1>1, <1>3, FinishTurns, IdleFields, NoneIsNobody DEF Turns
<1>5. \A v \in Users, m \in Users : ~Names(req'[v], p, m)
    BY <1>4 DEF Names
<1>6. QED
    BY <1>1, <1>2, <1>5, LedNow

LEMMA LedNext ==
    ASSUME ReqOK, StoreOK, PairInv, Based, LedInv, [NextOverlap]_overlapVars
    PROVE  LedInv'
<1>0. [Next]_vars
    BY DEF NextOverlap, overlapVars
<1>1. CASE UNCHANGED overlapVars
    <2>1. UNCHANGED <<groups, astray, edge, leader, req>>
        BY <1>1 DEF overlapVars, vars
    <2>2. \A p \in groups \ astray : LedHere(p)'
        BY <2>1, LedSame DEF LedInv
    <2>3. QED
        BY <2>1, <2>2 DEF LedInv
<1>2. ASSUME Next, Note, NEW p \in groups' \ astray'
      PROVE  LedHere(p)'
    <2>0. p \in Parties
        <3>1. ASSUME NEW u \in Users, Acts(u), p \notin groups PROVE p \in Parties
            BY <1>2, <3>1, ActGroups
        <3>2. QED
            BY <1>0, <1>2, <3>1, NextShape DEF StoreOK
    <2>1. \/ LedByAdmin(p)'
          \/ /\ p \notin astray /\ Named(p) \cap Went(p) = {}
             /\ \A u \in Users : Failed(u) => req[u].p # p
        <3>1. astray' = {q \in Parties :
                 /\ \/ q \in astray
                    \/ Named(q) \cap Went(q) # {}
                    \/ \E u \in Users : Failed(u) /\ req[u].p = q
                 /\ ~LedByAdmin(q)'}
            BY <1>2 DEF Note
        <3>2. QED
            BY <1>2, <2>0, <3>1
    <2>2. CASE LedByAdmin(p)'
        BY <1>0, <1>2, <2>0, <2>2, LedNamed, NoneIsNobody
    <2>3. CASE /\ p \notin astray /\ Named(p) \cap Went(p) = {}
               /\ \A u \in Users : Failed(u) => req[u].p # p
        <3>1. CASE p \notin groups
            BY <1>0, <1>2, <3>1, LedBorn, NextShape
        <3>2. CASE p \in groups
            <4>1. LedHere(p)
                BY <2>3, <3>2 DEF LedInv
            <4>2. ASSUME NEW u \in Users, Acts(u) PROVE LedHere(p)'
                BY <1>2, <2>3, <3>2, <4>1, <4>2, LedAct
            <4>3. CASE UNCHANGED <<groups, creator, edge, rowVars, req, faults>>
                BY <4>1, <4>3, LedSame DEF rowVars
            <4>4. CASE /\ UNCHANGED <<groups, creator, edge, rowVars>>
                       /\ faults' # faults
                       /\ \A u \in Users : req'[u] = Idle
                <5>1. \A v \in Users : req'[v] = req[v] \/ (req[v].p # p /\ req'[v].p # p)
                    BY <2>0, <2>3, <4>4, IdleFields, NoneIsNobody DEF Failed
                <5>2. QED
                    BY <4>1, <4>4, <5>1, LedSame DEF rowVars
            <4>5. QED
                BY <1>0, <4>2, <4>3, <4>4, NextShape
        <3>3. QED
            BY <3>1, <3>2
    <2>4. QED
        BY <2>1, <2>2, <2>3
<1>3. QED
    BY <1>1, <1>2 DEF LedInv, NextOverlap

LEMMA Overlaps == SpecOverlap => [](ReqOK /\ StoreOK /\ PairInv /\ Based)
<1>1. InitOverlap => Init /\ PairInv /\ Based
    <2>1. Init => PairInv
        BY DEF Init, PairInv, PairOf, Idle, CodeLeadsToParty
    <2>2. QED
        BY <2>1, BasedInit DEF InitOverlap
<1>2. [NextOverlap]_overlapVars => [Next]_vars
    BY DEF NextOverlap, overlapVars
<1>3. SpecOverlap => Spec
    BY <1>1, <1>2, PTL DEF SpecOverlap, Spec
<1>4. ReqOK /\ StoreOK /\ PairInv /\ Based /\ [Next]_vars => PairInv' /\ Based'
    BY PairNext, BasedNext
<1>5. QED
    BY <1>1, <1>2, <1>3, <1>4, Typed, PTL DEF SpecOverlap

(* Whatever requests overlap, calls fail or restarts cut short: once no      *)
(* leave, kick or transfer of a party is under way its leader override names *)
(* an admin, unless the member went between the roster read that picked them *)
(* and the write, or a call of such a request failed.                        *)
THEOREM LeaderIsAdmin == SpecOverlap => []OverrideNamesAdmin
<1>1. InitOverlap => LedInv
    BY DEF InitOverlap, Init, LedInv
<1>2. /\ ReqOK /\ StoreOK /\ PairInv /\ Based /\ LedInv
      /\ [NextOverlap]_overlapVars
      => LedInv'
    BY LedNext
<1>3. Based /\ LedInv => OverrideNamesAdmin
    <2>1. ASSUME Based, LedInv, NEW p \in groups \ astray, leader[p] # None,
                 \A u \in Users : req[u].p = p => req[u].op \notin {"leave", "kick", "transfer"}
          PROVE  edge[p][leader[p]] = "admin"
        <3>1. \A u \in Users : \A m : ~Raises(req[u], p, m) /\ ~Departs(req[u], p, m)
            BY <2>1 DEF Based, Fit, Kinds, Leading, Transferring, Raises, Departs
        <3>2. QED
            BY <2>1, <3>1 DEF LedInv, LedHere
    <2>2. QED
        BY <2>1 DEF OverrideNamesAdmin
<1>4. QED
    BY <1>1, <1>2, <1>3, Overlaps, PTL DEF SpecOverlap

-----------------------------------------------------------------------------
(* OnePartyEach.  A player who is moving is in the party that takes them in  *)
(* and, at most, in parties that count nobody else and that the move is      *)
(* going to disband.                                                         *)

(* The parties of u, and those of them with no other member. *)
Own(u) == {q \in groups : u \in Active(q)}
Alone(u) == {q \in Own(u) : Active(q) = {u}}

(* What a request has still to disband. *)
Left(r) == IF r.pc \in Ending THEN r.solos \ {r.q} ELSE r.solos

Landed(r) == (r.op = "join" /\ r.pc \in Clearing \cup {"join.landed"}) \/ r.pc = "code.solos"
Counting(r) == r.pc \in {"join.count", "code.count"}
Leaving(r) == r.op \in Moving /\ r.pc \in {"disband.list"} \cup Disbanding
Making(r) == r.op = "create" /\ r.pc \in {"disband.list"} \cup Disbanding

AtMostOne(M) == \A p, q \in M : p = q

(* The parties M of the player of r, L of them without another member. *)
Situated(r, M, L) ==
    /\ Landed(r) \/ Counting(r) \/ Leaving(r) \/ AtMostOne(M)
    /\ r.pc = "create.count" => M \subseteq r.solos
    /\ Making(r) => M \subseteq Left(r)
    /\ r.pc = "create.commit" => M = {}
    /\ r.pc \in {"join.commit", "code.add"} => M \ {r.p} \subseteq L
    /\ Landed(r) => M \ {r.p} \subseteq L /\ AtMostOne(M \ {r.p})
    /\ Counting(r) => M \ {r.p} \subseteq L /\ M \subseteq r.solos \cup {r.p}
    /\ Leaving(r) => M \subseteq Left(r) \cup {r.p}

OneInv == \A u \in Users \ crossed : Situated(req[u], Own(u), Alone(u))

LEMMA OneNow ==
    ASSUME \A u \in Users \ crossed' : Situated(req'[u], Own(u)', Alone(u)')
    PROVE  OneInv'
BY DEF OneInv, Situated, Landed, Counting, Leaving, Making, Left, AtMostOne, Ending, Clearing,
       Disbanding, Moving

(* The labels at which it counts who else is in the player's parties. *)
LEMMA Shrink ==
    ASSUME NEW r, NEW M, NEW L, Situated(r, M, L), NEW N \in SUBSET M, NEW K,
           (r.pc \in {"join.commit", "code.add"} \/ Landed(r) \/ Counting(r))
              => (N \ {r.p}) \cap L \subseteq K
    PROVE  Situated(r, N, K)
BY DEF Situated, AtMostOne

LEMMA SituatedIdle ==
    ASSUME NEW s, s.op = "idle", s.pc = "idle", NEW M, NEW L, AtMostOne(M)
    PROVE  Situated(s, M, L)
BY DEF Situated, Landed, Counting, Leaving, Making, Clearing, Disbanding, Moving

(* Someone's party that does not count more than one member is theirs alone. *)
LEMMA LoneMember ==
    ASSUME NEW S, IsFiniteSet(S), NEW x \in S
    PROVE  /\ ~(Cardinality(S) > 1) => S = {x}
           /\ Cardinality(S) = 1 <=> S = {x}
<1>1. Cardinality(S) \in Nat
    BY FS_CardinalityType
<1>2. Cardinality(S) # 0
    BY FS_EmptySet
<1>3. Cardinality(S) = 1 => S = {x}
    BY FS_Singleton
<1>4. S = {x} => Cardinality(S) = 1
    BY FS_Singleton
<1>5. ~(Cardinality(S) > 1) => Cardinality(S) = 1
    BY <1>1, <1>2
<1>6. QED
    BY <1>3, <1>4, <1>5

(* What the counts of a request say of its player's parties. *)
LEMMA SoloCount ==
    ASSUME StoreOK, Based, NEW u \in Users, NEW q \in Own(u)
    PROVE  /\ ~(Cardinality(Active(q)) > 1) => q \in Alone(u)
           /\ q \in Alone(u) => Cardinality(Active(q)) = 1
<1>1. q \in Parties /\ u \in Active(q) /\ IsFiniteSet(Active(q))
    BY DEF Own, StoreOK, Based
<1>2. QED
    BY <1>1, LoneMember DEF Alone

LEMMA OwnMemberships ==
    ASSUME StoreOK, NEW u, NEW p
    PROVE  /\ Memberships(u, p) = Own(u) \ {p}
           /\ Memberships(u, None) = Own(u)
BY NoneIsNobody DEF Memberships, Own, StoreOK

LEMMA NotShared ==
    ASSUME StoreOK, Based, NEW u \in Users, NEW p, SharedParties(Memberships(u, p)) = {}
    PROVE  Own(u) \ {p} \subseteq Alone(u)
<1>1. ASSUME NEW q \in Own(u) \ {p} PROVE q \in Alone(u)
    <2>1. q \in Memberships(u, p)
        BY <1>1, OwnMemberships
    <2>2. ~(Cardinality(Active(q)) > 1)
        BY <2>1 DEF SharedParties
    <2>3. QED
        BY <1>1, <2>2, SoloCount
<1>2. QED
    BY <1>1

LEMMA SoloKept ==
    ASSUME StoreOK, Based, NEW u \in Users, NEW S
    PROVE  S \cap Alone(u) \subseteq SoloParties(S)
<1>1. ASSUME NEW q \in S, q \in Alone(u) PROVE q \in SoloParties(S)
    <2>1. Cardinality(Active(q)) = 1
        BY <1>1, SoloCount DEF Alone
    <2>2. QED
        BY <2>1 DEF SoloParties
<1>2. QED
    BY <1>1

(* Only an entry adds to somebody's parties. *)
LEMMA OwnShrinks ==
    ASSUME ReqOK, StoreOK, Based, NEW u \in Users, Acts(u), NEW v \in Users,
           v # u \/ ~Step(u) \/ req[u].pc \notin {"create.commit", "join.commit", "code.add"}
    PROVE  Own(v)' \subseteq Own(v)
<1>1. ASSUME NEW q \in groups', v \in Active(q)' PROVE q \in groups /\ v \in Active(q)
    <2>1. q \in Parties
        BY <1>1, ActGroups DEF StoreOK
    <2>2. v \notin Entered(q)
        BY <1>1, <2>1, ActEntered
    <2>3. v \in Active(q)
        BY <1>1, <2>2 DEF Entered
    <2>4. q \in groups
        BY <2>1, <2>3 DEF Based, Active
    <2>5. QED
        BY <2>3, <2>4
<1>2. QED
    BY <1>1 DEF Own

(* A party without another member stays one if nobody else enters. *)
LEMMA AloneStays ==
    ASSUME NEW v, NEW q \in Own(v)', q \in Alone(v), Entered(q) \ {v} = {}
    PROVE  q \in Alone(v)'
BY DEF Alone, Own, Entered

(* A count or a disband goes on with the parties it has left. *)
LEMMA SolosSituated ==
    ASSUME NEW r, NEW s, NEW x, Kinds(r), Kinds(s), Solos(r, s, x), NEW M, NEW L,
           r.op = "create" => M \subseteq x,
           r.op \in Moving => M \subseteq x \cup {r.p},
           r.op \in Moving \cup {"create", "disband"},
           r.op \notin Moving => AtMostOne(M)
    PROVE  Situated(s, M, L)
<1>1. CASE s = Idle
    <2>1. r.op # "create" /\ (r.op \in Moving => M \subseteq {r.p})
        BY <1>1, IdleFields DEF Solos, Goes
    <2>2. AtMostOne(M)
        BY <2>1 DEF AtMostOne
    <2>3. QED
        BY <1>1, <2>2, SituatedIdle, IdleFields
<1>2. CASE Goes(r, s, "disband.list", x)
    BY <1>2 DEF Goes, Situated, Landed, Counting, Leaving, Making, Left, Clearing, Disbanding,
                Ending, Moving
<1>3. CASE x = {} /\ r.op = "create" /\ Goes(r, s, "create.commit", {})
    BY <1>3 DEF Goes, Situated, Landed, Counting, Leaving, Making, Clearing, Disbanding, Moving,
                AtMostOne
<1>4. CASE x = {} /\ r.op = "joinByCode" /\ Goes(r, s, "clear.list", {})
    BY <1>4 DEF Goes, Situated, Landed, Counting, Leaving, Making, Clearing, Disbanding, Moving,
                AtMostOne
<1>5. QED
    BY <1>1, <1>2, <1>3, <1>4 DEF Solos

(* Any other request neither moves nor begins to. *)
Elsewhere(r) ==
    /\ r.pc \notin {"create.count", "create.commit", "join.commit", "code.joiner", "code.add",
                    "code.solos", "join.landed"}
    /\ ~Landed(r) /\ ~Counting(r) /\ ~Leaving(r) /\ ~Making(r)

LEMMA StayElsewhere ==
    ASSUME NEW r, NEW s, Kinds(r), Kinds(s), Moved(r, s), Flow(r.pc, s.pc), Elsewhere(r),
           NEW M, NEW L, Situated(r, M, L), NEW N \in SUBSET M, NEW K
    PROVE  Situated(s, N, K)
<1>1. AtMostOne(N)
    BY DEF Situated, Elsewhere, AtMostOne
<1>2. CASE s = Idle
    BY <1>1, <1>2, SituatedIdle, IdleFields
<1>3. CASE s # Idle
    <2>1. s.op = r.op /\ s.pc \notin Opening
        BY <1>3 DEF Moved
    <2>2. s.pc \notin {"create.count", "join.commit", "code.add", "join.count", "code.solos",
                       "code.count"}
        BY <2>1 DEF Elsewhere, Flow, Opening, Counting
    <2>3. ~Landed(s)
        BY <2>1, <2>2 DEF Elsewhere, Flow, Landed, Counting, Leaving, Kinds, Clearing, Disbanding,
                          Moving, BeforeGuard
    <2>4. ~Leaving(s) /\ ~Making(s)
        BY <2>1 DEF Elsewhere, Flow, Counting, Leaving, Making, Kinds, Clearing, Disbanding, Moving
    <2>5. s.pc # "create.commit"
        BY <2>1 DEF Elsewhere, Flow, Counting, Leaving, Making, Kinds, Clearing, Disbanding, Moving
    <2>6. QED
        BY <1>1, <2>2, <2>3, <2>4, <2>5 DEF Situated, Counting
<1>4. QED
    BY <1>2, <1>3

LEMMA DisbandSituated ==
    ASSUME NEW r, NEW s, NEW pc \in Disbanding, Goes(r, s, pc, r.solos), NEW M, NEW L,
           r.op \in Moving \cup {"create", "disband"},
           r.op = "create" => M \subseteq Left(s),
           r.op \in Moving => M \subseteq Left(s) \cup {r.p},
           r.op \notin Moving => AtMostOne(M)
    PROVE  Situated(s, M, L)
<1>1. s.op = r.op /\ s.p = r.p /\ s.pc \in Disbanding
    BY DEF Goes
<1>2. ~Landed(s) /\ ~Counting(s)
      /\ s.pc \notin {"create.count", "create.commit", "join.commit", "code.add"}
    BY <1>1 DEF Landed, Counting, Disbanding, Clearing
<1>3. (Leaving(s) <=> s.op \in Moving) /\ (Making(s) => s.op = "create")
    BY <1>1 DEF Leaving, Making
<1>4. QED
    BY <1>1, <1>2, <1>3 DEF Situated

(* A call that brings nobody into a party. *)
LEMMA StepKeepsOut ==
    ASSUME ReqOK, StoreOK, Based, NEW u \in Users, Step(u),
           req[u].pc \notin {"create.commit", "join.commit", "code.add"}
    PROVE  Own(u)' \subseteq Own(u) /\ Own(u)' \cap Alone(u) \subseteq Alone(u)'
<1>1. Own(u)' \subseteq Own(u)
    BY OwnShrinks DEF Acts
<1>2. ASSUME NEW q \in Own(u)', q \in Alone(u) PROVE q \in Alone(u)'
    <2>1. q \in Parties
        BY <1>1, <1>2 DEF Own, StoreOK
    <2>2. Entered(q) = {}
        BY <2>1, ActEntered DEF Acts
    <2>3. QED
        BY <1>2, <2>2, AloneStays
<1>3. QED
    BY <1>1, <1>2

LEMMA CreateSituated ==
    ASSUME ReqOK, StoreOK, Based, NEW u \in Users, Step(u), Situated(req[u], Own(u), Alone(u)),
           req[u].pc \in {"create.count", "create.commit"}, Kinds(req'[u])
    PROVE  Situated(req'[u], Own(u)', Alone(u)')
<1> DEFINE r == req[u]
           s == req'[u]
           M == Own(u)
<1>0. Kinds(r) /\ r.op = "create"
    BY DEF Based, Fit, Kinds
<1>1. CASE r.pc = "create.count"
    <2>1. CreateCount(u)
        BY <1>1, StepCall
    <2>2. Own(u)' \subseteq M
        BY <1>1, StepKeepsOut
    <2>3. AtMostOne(M) /\ M \subseteq r.solos
        BY <1>1 DEF Situated, Landed, Counting, Leaving, Clearing, Disbanding
    <2>4. AtMostOne(Own(u)')
        BY <2>2, <2>3 DEF AtMostOne
    <2>5. CASE s = Idle
        BY <2>4, <2>5, SituatedIdle, IdleFields
    <2>6. CASE SharedParties(r.solos) = {} /\ Solos(r, s, SoloParties(r.solos))
        <3>1. ASSUME NEW q \in M PROVE q \in SoloParties(r.solos)
            <4>1. ~(Cardinality(Active(q)) > 1)
                BY <2>3, <2>6, <3>1 DEF SharedParties
            <4>2. q \in Alone(u)
                BY <3>1, <4>1, SoloCount
            <4>3. QED
                BY <2>3, <3>1, <4>2, SoloKept
        <3>2. Own(u)' \subseteq SoloParties(r.solos)
            BY <2>2, <3>1
        <3>3. "create" \notin Moving
            BY DEF Moving
        <3> HIDE DEF M
        <3>4. QED
            BY <1>0, <2>4, <2>6, <3>2, <3>3, SolosSituated
    <2>7. QED
        BY <2>1, <2>5, <2>6, CreateCountTurns
<1>2. CASE r.pc = "create.commit"
    <2>1. CreateCommit(u) /\ M = {}
        BY <1>2, StepCall DEF Situated
    <2>2. PICK p \in Parties : /\ groups' = groups \cup {p}
                               /\ edge' = [edge EXCEPT ![p][u] = "admin"]
        BY <2>1 DEF CreateCommit
    <2>3. \A q \in groups' : q # p => q \in groups /\ Active(q)' = Active(q)
        BY <2>2 DEF StoreOK, Active
    <2>4. AtMostOne(Own(u)')
        BY <2>1, <2>3 DEF Own, AtMostOne
    <2>5. s = Idle
        BY <2>1, FinishTurns DEF CreateCommit, Turns
    <2>6. QED
        BY <2>4, <2>5, SituatedIdle, IdleFields
<1>3. QED
    BY <1>1, <1>2

LEMMA DisbandingSituated ==
    ASSUME ReqOK, StoreOK, Based, NEW u \in Users, Step(u), Situated(req[u], Own(u), Alone(u)),
           Leaving(req[u]) \/ Making(req[u]), Kinds(req'[u])
    PROVE  Situated(req'[u], Own(u)', Alone(u)')
<1> DEFINE r == req[u]
           s == req'[u]
           M == Own(u)
           N == Own(u)'
<1>0. /\ Kinds(r) /\ r.op \in Moving \cup {"create", "disband"} /\ r.op # "disband"
      /\ r.pc \in {"disband.list"} \cup Disbanding
    BY DEF Based, Fit, Leaving, Making, Moving
<1>1. N \subseteq M
    BY <1>0, StepKeepsOut DEF Disbanding
<1>2. /\ r.op = "create" => M \subseteq Left(r)
      /\ r.op \in Moving => M \subseteq Left(r) \cup {r.p}
      /\ r.op \notin Moving => AtMostOne(M)
    BY <1>0 DEF Situated, Leaving, Making, Landed, Counting, Clearing, Disbanding, Moving
<1>3. r.op \notin Moving => AtMostOne(N)
    BY <1>1, <1>2 DEF AtMostOne
<1> HIDE DEF M, N
<1>4. ASSUME NEW q, Solos(r, s, r.solos \ {q}), q \notin N, Left(r) \ {q} \subseteq r.solos
      PROVE  Situated(s, N, Alone(u)')
    <2>1. /\ r.op = "create" => N \subseteq r.solos \ {q}
          /\ r.op \in Moving => N \subseteq (r.solos \ {q}) \cup {r.p}
        BY <1>1, <1>2, <1>4
    <2>2. QED
        BY <1>0, <1>3, <1>4, <2>1, SolosSituated
<1>5. ASSUME NEW pc \in Disbanding, Goes(r, s, pc, r.solos), Left(r) \cap N \subseteq Left(s)
      PROVE  Situated(s, N, Alone(u)')
    <2>1. /\ r.op = "create" => N \subseteq Left(s)
          /\ r.op \in Moving => N \subseteq Left(s) \cup {r.p}
        BY <1>1, <1>2, <1>5
    <2>2. QED
        BY <1>0, <1>3, <1>5, <2>1, DisbandSituated
<1>6. ASSUME s = Idle, r.op = "create" PROVE Situated(s, N, Alone(u)')
    <2>1. "create" \notin Moving
        BY DEF Moving
    <2>2. QED
        BY <1>3, <1>6, <2>1, SituatedIdle, IdleFields
<1>7. ASSUME r.pc = "disband.list" PROVE Situated(s, N, Alone(u)')
    <2>1. DisbandList(u) /\ groups' = groups
        BY <1>7, StepCall DEF DisbandList, groupVars
    <2>2. Left(r) = r.solos
        BY <1>7 DEF Left, Ending
    <2>3. PICK q \in r.solos :
             \/ Goes(r, s, "disband.delete", r.solos)
             \/ r.op = "create" /\ s = Idle
             \/ q \notin groups /\ Solos(r, s, r.solos \ {q})
        BY <2>1, DisbandListTurns
    <2>4. CASE Goes(r, s, "disband.delete", r.solos)
        <3>1. Left(s) = r.solos /\ "disband.delete" \in Disbanding
            BY <2>4 DEF Left, Goes, Ending, Disbanding
        <3>2. QED
            BY <1>5, <2>2, <2>4, <3>1
    <2>5. CASE q \notin groups /\ Solos(r, s, r.solos \ {q})
        <3>1. q \notin N
            BY <2>1, <2>5 DEF N, Own
        <3>2. QED
            BY <1>4, <2>2, <2>5, <3>1
    <2>6. QED
        BY <1>6, <2>3, <2>4, <2>5
<1>8. ASSUME r.pc = "disband.delete" PROVE Situated(s, N, Alone(u)')
    <2>1. DisbandDelete(u)
        BY <1>8, StepCall
    <2>2. Left(r) = r.solos
        BY <1>8 DEF Left, Ending
    <2>3. r.q \notin N
        <3>1. r.q \notin groups'
            BY <2>1 DEF DisbandDelete
        <3>2. QED
            BY <3>1 DEF N, Own
    <2>4. CASE Same(r, s, "disband.rows")
        <3>1. Left(s) = r.solos \ {r.q} /\ "disband.rows" \in Disbanding
            BY <2>4 DEF Left, Same, Goes, Ending, Disbanding
        <3>2. QED
            BY <1>5, <2>2, <2>3, <2>4, <3>1 DEF Same
    <2>5. CASE r.op = "create" /\ s = Idle
        BY <1>6, <2>5
    <2>6. CASE Solos(r, s, r.solos \ {r.q})
        BY <1>4, <2>2, <2>3, <2>6
    <2>7. QED
        BY <2>1, <2>4, <2>5, <2>6, DisbandDeleteTurns
<1>9. ASSUME r.pc \in Ending PROVE Situated(s, N, Alone(u)')
    <2>1. Left(r) = r.solos \ {r.q}
        BY <1>9 DEF Left
    <2>2. CASE Solos(r, s, r.solos \ {r.q})
        <3>1. /\ r.op = "create" => N \subseteq r.solos \ {r.q}
              /\ r.op \in Moving => N \subseteq (r.solos \ {r.q}) \cup {r.p}
            BY <1>1, <1>2, <2>1
        <3>2. QED
            BY <1>0, <1>3, <2>2, <3>1, SolosSituated
    <2>3. ASSUME NEW pc \in Ending, Goes(r, s, pc, r.solos), s.q = r.q
          PROVE  Situated(s, N, Alone(u)')
        <3>1. Left(s) = r.solos \ {r.q} /\ pc \in Disbanding
            BY <2>3 DEF Left, Goes, Ending, Disbanding
        <3>2. QED
            BY <1>5, <2>1, <2>3, <3>1
    <2>4. CASE r.pc = "disband.rows"
        <3>1. Same(r, s, "disband.code")
            BY <2>4, StepCall, GotoTurns DEF DisbandRows
        <3>2. QED
            BY <2>3, <3>1 DEF Same, Ending
    <2>5. CASE r.pc = "disband.code"
        <3>1. \/ Solos(r, s, r.solos \ {r.q})
              \/ Goes(r, s, "disband.codeRows", r.solos) /\ s.q = r.q
            BY <2>5, StepCall, DisbandCodeTurns
        <3>2. QED
            BY <2>2, <2>3, <3>1 DEF Ending
    <2>6. CASE r.pc = "disband.codeRows"
        BY <2>2, <2>6, StepCall, DisbandCodeRowsTurns
    <2>7. QED
        BY <1>9, <2>4, <2>5, <2>6 DEF Ending
<1>10. QED
    BY <1>0, <1>7, <1>8, <1>9 DEF Disbanding, Ending, N

(* The player of u enters the party p, or asks to: the others stay as they were. *)
LEMMA EnterSituated ==
    ASSUME StoreOK, NEW u \in Users, NEW p, NEW x, edge' = [edge EXCEPT ![p][u] = x],
           groups' = groups, NEW r, Situated(r, Own(u), Alone(u)), r.p = p,
           r.pc \in {"join.commit", "code.add"}, NEW s, s.p = p,
           \/ s.op = "join" /\ s.pc = "clear.list"
           \/ s.op = "joinByCode" /\ s.pc = "code.solos"
    PROVE  Situated(s, Own(u)', Alone(u)')
<1>1. \A q \in groups \ {p} : Active(q)' = Active(q)
    BY DEF StoreOK, Active
<1>2. Own(u)' \ {p} = Own(u) \ {p} /\ Alone(u)' \ {p} = Alone(u) \ {p}
    BY <1>1 DEF Own, Alone
<1>3. AtMostOne(Own(u)) /\ Own(u) \ {p} \subseteq Alone(u)
    BY DEF Situated, Landed, Counting, Leaving, Clearing, Disbanding
<1>4. AtMostOne(Own(u)' \ {p}) /\ Own(u)' \ {p} \subseteq Alone(u)'
    BY <1>2, <1>3 DEF AtMostOne
<1>5. /\ Landed(s) /\ ~Counting(s) /\ ~Leaving(s) /\ ~Making(s)
      /\ s.pc \notin {"create.count", "create.commit", "join.commit", "code.add"}
    BY DEF Landed, Counting, Leaving, Making, Clearing, Disbanding, Moving
<1>6. QED
    BY <1>4, <1>5 DEF Situated

LEMMA JoinSituated ==
    ASSUME ReqOK, StoreOK, Based, NEW u \in Users, Step(u), Situated(req[u], Own(u), Alone(u)),
           req[u].pc \in {"join.commit", "code.add", "code.joiner"}
    PROVE  Situated(req'[u], Own(u)', Alone(u)')
<1> DEFINE r == req[u]
           s == req'[u]
           p == req[u].p
<1>0. /\ r.pc = "join.commit" => r.op = "join"
      /\ r.pc \in {"code.add", "code.joiner"} => r.op = "joinByCode"
    BY DEF Based, Fit, Kinds
<1>1. AtMostOne(Own(u)) /\ (r.pc # "code.joiner" => Own(u) \ {p} \subseteq Alone(u))
    BY DEF Situated, Landed, Counting, Leaving, Clearing, Disbanding
<1>2. ASSUME Finish(u), UNCHANGED <<groups, edge>> PROVE Situated(s, Own(u)', Alone(u)')
    <2>1. Own(u)' = Own(u)
        BY <1>2 DEF Own, Active
    <2>2. s = Idle
        BY <1>2, FinishTurns DEF Turns
    <2>3. QED
        BY <1>1, <2>1, <2>2, SituatedIdle, IdleFields
<1>3. ASSUME r.pc = "join.commit" PROVE Situated(s, Own(u)', Alone(u)')
    <2>1. JoinCommit(u) /\ groups' = groups
        BY <1>3, StepCall DEF JoinCommit
    <2>2. ASSUME NEW x, edge' = [edge EXCEPT ![p][u] = x], Goto(u, "clear.list")
          PROVE  Situated(s, Own(u)', Alone(u)')
        <3>1. s.op = "join" /\ s.pc = "clear.list" /\ s.p = p
            BY <1>0, <1>3, <2>2, GotoTurns DEF Same, Goes
        <3>2. QED
            BY <1>3, <2>1, <2>2, <3>1, EnterSituated
    <2>3. QED
        BY <1>2, <2>1, <2>2 DEF JoinCommit
<1>4. ASSUME r.pc = "code.add" PROVE Situated(s, Own(u)', Alone(u)')
    <2>1. CodeAdd(u) /\ groups' = groups
        BY <1>4, StepCall DEF CodeAdd
    <2>2. ASSUME NEW x, edge' = [edge EXCEPT ![p][u] = x], Goto(u, "code.solos")
          PROVE  Situated(s, Own(u)', Alone(u)')
        <3>1. s.op = "joinByCode" /\ s.pc = "code.solos" /\ s.p = p
            BY <1>0, <1>4, <2>2, GotoTurns DEF Same, Goes
        <3>2. QED
            BY <1>4, <2>1, <2>2, <3>1, EnterSituated
    <2>3. QED
        BY <1>2, <2>1, <2>2 DEF CodeAdd
<1>5. ASSUME r.pc = "code.joiner" PROVE Situated(s, Own(u)', Alone(u)')
    <2>1. CodeJoiner(u) /\ UNCHANGED <<groups, edge>>
        BY <1>5, StepCall DEF CodeJoiner, groupVars
    <2>2. ASSUME SharedParties(Memberships(u, p)) = {}, Goto(u, "code.add")
          PROVE  Situated(s, Own(u)', Alone(u)')
        <3>1. s.op = "joinByCode" /\ s.pc = "code.add" /\ s.p = p
            BY <1>0, <1>5, <2>2, GotoTurns DEF Same, Goes
        <3>2. Own(u) \ {p} \subseteq Alone(u)
            BY <2>2, NotShared
        <3>3. Own(u)' = Own(u) /\ Alone(u)' = Alone(u)
            BY <2>1 DEF Own, Alone, Active
        <3>4. /\ ~Landed(s) /\ ~Counting(s) /\ ~Leaving(s) /\ ~Making(s)
              /\ s.pc \notin {"create.count", "create.commit"}
            BY <3>1 DEF Landed, Counting, Leaving, Making, Clearing, Disbanding, Moving
        <3>5. QED
            BY <1>1, <3>1, <3>2, <3>3, <3>4 DEF Situated
    <2>3. QED
        BY <1>2, <2>1, <2>2 DEF CodeJoiner, Check
<1>6. QED
    BY <1>3, <1>4, <1>5

LEMMA LandedSituated ==
    ASSUME ReqOK, StoreOK, Based, NEW u \in Users, Step(u), Situated(req[u], Own(u), Alone(u)),
           Landed(req[u]) \/ Counting(req[u]), Kinds(req'[u])
    PROVE  Situated(req'[u], Own(u)', Alone(u)')
<1> DEFINE r == req[u]
           s == req'[u]
           p == req[u].p
           M == Own(u)
           N == Own(u)'
           L == Alone(u)
           K == Alone(u)'
           Goal == Situated(s, N, K)
<1>0. Kinds(r) /\ r.op \in Moving
    BY DEF Based, Fit, Kinds, Landed, Counting, Moving
<1>1. N \subseteq M /\ N \cap L \subseteq K
    BY StepKeepsOut DEF Landed, Counting, Clearing
<1>2. M \ {p} \subseteq L
    BY DEF Situated
<1>3. N \ {p} \subseteq K
    BY <1>1, <1>2
<1> HIDE DEF N, K, Goal
<1>4. ASSUME Landed(r), Goes(r, s, "clear.delete", r.solos) \/ Goes(r, s, "join.landed", r.solos),
             r.op = "join"
      PROVE  Goal
    <2>1. Landed(s) /\ ~Counting(s) /\ ~Leaving(s) /\ ~Making(s) /\ s.p = p
        BY <1>4 DEF Goes, Landed, Counting, Leaving, Making, Clearing, Disbanding
    <2>2. s.pc \notin {"create.count", "create.commit", "join.commit", "code.add"}
        BY <1>4 DEF Goes
    <2>3. AtMostOne(N \ {p})
        BY <1>1, <1>4 DEF Situated, AtMostOne
    <2>4. QED
        BY <1>3, <2>1, <2>2, <2>3 DEF Situated, Goal
<1>5. ASSUME NEW pc \in {"join.count", "code.count"}, Goes(r, s, pc, Memberships(u, p))
      PROVE  Goal
    <2>1. s.solos = M \ {p} /\ s.p = p /\ s.pc = pc
        BY <1>5, OwnMemberships DEF Goes
    <2>2. Counting(s) /\ ~Landed(s) /\ ~Leaving(s) /\ ~Making(s)
        BY <2>1 DEF Landed, Counting, Leaving, Making, Clearing, Disbanding
    <2>3. N \subseteq s.solos \cup {p}
        BY <1>1, <2>1
    <2>4. QED
        BY <1>3, <1>5, <2>1, <2>2, <2>3 DEF Situated, Goal
<1>6. ASSUME r.pc = "clear.list", Landed(r) PROVE Goal
    <2>1. r.op = "join" /\ Goes(r, s, "clear.delete", r.solos)
        BY <1>6, StepCall, ClearListTurns DEF Landed
    <2>2. QED
        BY <1>4, <1>6, <2>1
<1>7. ASSUME r.pc = "clear.delete", Landed(r) PROVE Goal
    <2>1. r.op = "join" /\ Goes(r, s, "join.landed", r.solos)
        BY <1>7, StepCall, ClearDeleteTurns DEF Landed
    <2>2. QED
        BY <1>4, <1>7, <2>1
<1>8. ASSUME r.pc = "join.landed" PROVE Goal
    <2>1. \/ p \notin M /\ s = Idle
          \/ Goes(r, s, "join.count", Memberships(u, p))
        BY <1>8, StepCall, JoinLandedTurns, OwnMemberships
    <2>2. ASSUME p \notin M, s = Idle PROVE Goal
        <3>1. Landed(r)
            BY <1>0, <1>8 DEF Landed, Kinds
        <3>2. AtMostOne(N)
            BY <1>1, <2>2, <3>1 DEF Situated, AtMostOne
        <3>3. QED
            BY <2>2, <3>2, SituatedIdle, IdleFields DEF Goal
    <2>3. QED
        BY <1>5, <2>1, <2>2
<1>9. ASSUME r.pc = "code.solos" PROVE Goal
    BY <1>5, <1>9, StepCall, CodeSolosTurns
<1>10. ASSUME Counting(r) PROVE Goal
    <2>1. JoinCount(u) \/ CodeCount(u)
        BY <1>10, StepCall DEF Counting
    <2>2. Solos(r, s, SoloParties(r.solos))
        BY <2>1, CountTurns DEF JoinCount, CodeCount
    <2>3. M \subseteq r.solos \cup {p}
        BY <1>10 DEF Situated
    <2>4. M \ {p} \subseteq SoloParties(r.solos)
        BY <1>2, <2>3, SoloKept
    <2>5. N \subseteq SoloParties(r.solos) \cup {p}
        BY <1>1, <2>4
    <2>6. r.op # "create" /\ r.op # "disband"
        BY <1>0 DEF Moving
    <2>7. QED
        BY <1>0, <2>2, <2>5, <2>6, SolosSituated DEF Goal
<1>11. Goal
    BY <1>6, <1>7, <1>8, <1>9, <1>10 DEF Landed, Clearing
<1>12. QED
    BY <1>11 DEF Goal, N, K

LEMMA OneStep ==
    ASSUME ReqOK, StoreOK, Based, NEW u \in Users, Step(u), Situated(req[u], Own(u), Alone(u))
    PROVE  Situated(req'[u], Own(u)', Alone(u)')
<1>1. Kinds(req[u]) /\ Kinds(req'[u]) /\ Moved(req[u], req'[u]) /\ Flow(req[u].pc, req'[u].pc)
    BY KindsStep, StepMoved, StepFlow DEF Based, Fit
<1>2. CASE Elsewhere(req[u])
    <2>1. Own(u)' \subseteq Own(u)
        BY <1>2, StepKeepsOut DEF Elsewhere
    <2>2. QED
        BY <1>1, <1>2, <2>1, StayElsewhere
<1>3. CASE ~Elsewhere(req[u])
    <2>1. req[u].pc \in {"code.solos", "join.landed"} => Landed(req[u])
        BY <1>1 DEF Kinds, Landed
    <2>2. QED
        BY <1>1, <1>3, <2>1, CreateSituated, DisbandingSituated, JoinSituated, LandedSituated
           DEF Elsewhere
<1>4. QED
    BY <1>2, <1>3

(* A request that makes no call, while nobody enters its player's own party. *)
LEMMA WaitSituated ==
    ASSUME StoreOK, Based, NEW v \in Users, Situated(req[v], Own(v), Alone(v)),
           req'[v] = req[v], v \notin Crossing, Own(v)' \subseteq Own(v)
    PROVE  Situated(req'[v], Own(v)', Alone(v)')
<1>1. Kinds(req[v])
    BY DEF Based, Fit
<1>2. ASSUME req[v].pc \in {"join.commit", "code.add"} \/ Landed(req[v]) \/ Counting(req[v]),
             NEW q \in Own(v)' \ {req[v].p}, q \in Alone(v)
      PROVE  q \in Alone(v)'
    <2>1. MovingIn(v)
        BY <1>1, <1>2 DEF Kinds, MovingIn, Landed, Counting, Clearing
    <2>2. q \in Memberships(v, req[v].p)
        BY <1>2, OwnMemberships
    <2>3. Entered(q) \ {v} = {}
        BY <2>1, <2>2 DEF Crossing
    <2>4. QED
        BY <1>2, <2>3, AloneStays
<1>3. QED
    BY <1>2, Shrink

(* A new request of a player who is in one party at most. *)
LEMMA SendSituated ==
    ASSUME ReqOK, StoreOK, Based, NEW u \in Users, Send(u), Situated(req[u], Own(u), Alone(u))
    PROVE  Situated(req'[u], Own(u)', Alone(u)')
<1> DEFINE s == req'[u]
<1>1. <<s.op, s.pc>> \in Sent /\ req[u].pc = "idle" /\ groups' = groups
    BY SendTurns
<1>2. AtMostOne(Own(u))
    BY <1>1 DEF Situated, Landed, Counting, Leaving, Clearing, Disbanding
<1>3. Own(u)' \subseteq Own(u)
    BY <1>1, OwnShrinks DEF Acts
<1>4. AtMostOne(Own(u)')
    BY <1>2, <1>3 DEF AtMostOne
<1>5. /\ s.pc \in {"create.count", "join.commit"} => edge' = edge
      /\ s.pc = "join.commit" => SharedParties(Memberships(u, s.p)) = {}
      /\ s.pc = "create.count" => s.solos = Memberships(u, None)
    BY SendFacts
<1>6. s.pc = "join.commit" => Own(u)' \ {s.p} \subseteq Alone(u)'
    <2>1. ASSUME s.pc = "join.commit" PROVE Own(u)' \ {s.p} \subseteq Alone(u)'
        <3>1. Own(u) \ {s.p} \subseteq Alone(u)
            BY <1>5, <2>1, NotShared
        <3>2. Own(u)' = Own(u) /\ Alone(u)' = Alone(u)
            BY <1>1, <1>5, <2>1 DEF Own, Alone, Active
        <3>3. QED
            BY <3>1, <3>2
    <2>2. QED
        BY <2>1
<1>7. s.pc = "create.count" => Own(u)' \subseteq s.solos
    BY <1>3, <1>5, OwnMemberships
<1>8. /\ ~Landed(s) /\ ~Counting(s) /\ ~Leaving(s) /\ ~Making(s)
      /\ s.pc \notin {"create.commit", "code.add"}
    BY <1>1 DEF Sent, Landed, Counting, Leaving, Making, Clearing, Disbanding, Moving
<1>9. QED
    BY <1>4, <1>6, <1>7, <1>8 DEF Situated

(* A player who is at rest, in one party at most. *)
LEMMA RestSituated ==
    ASSUME ReqOK', StoreOK', Based', NEW u \in Users, InOneParty(u)'
    PROVE  Situated(req'[u], Own(u)', Alone(u)')
<1>1. req'[u].pc = "idle" /\ Cardinality(Memberships(u, None)') <= 1
    BY DEF InOneParty, At
<1>2. req'[u].op = "idle"
    BY <1>1 DEF Based, Fit, Kinds
<1>3. Memberships(u, None)' = Own(u)'
    BY NoneIsNobody DEF Memberships, Own, StoreOK
<1>4. IsFiniteSet(Own(u)')
    <2>1. Own(u)' \subseteq groups' /\ IsFiniteSet(groups')
        BY DEF Based, Own
    <2>2. QED
        BY <2>1, FS_Subset
<1>5. AtMostOne(Own(u)')
    <2>1. Cardinality(Own(u)') \in {0, 1}
        BY <1>1, <1>3, <1>4, FS_CardinalityType
    <2>2. Own(u)' = {} \/ \E x : Own(u)' = {x}
        BY <1>4, <2>1, FS_EmptySet, FS_Singleton
    <2>3. QED
        BY <2>2 DEF AtMostOne
<1>6. QED
    BY <1>1, <1>2, <1>5, SituatedIdle

LEMMA OneNext ==
    ASSUME ReqOK, StoreOK, Based, OneInv, [NextOverlap]_overlapVars, ReqOK', StoreOK', Based'
    PROVE  OneInv'
<1>0. [Next]_vars
    BY DEF NextOverlap, overlapVars
<1>1. CASE UNCHANGED overlapVars
    <2>1. UNCHANGED <<groups, edge, req, crossed>>
        BY <1>1 DEF overlapVars, vars
    <2>2. \A u \in Users : Own(u)' = Own(u) /\ Alone(u)' = Alone(u)
        BY <2>1 DEF Own, Alone, Active
    <2>3. QED
        BY <2>1, <2>2, OneNow DEF OneInv
<1>2. ASSUME Next, Note, NEW u \in Users \ crossed'
      PROVE  Situated(req'[u], Own(u)', Alone(u)')
    <2>1. InOneParty(u)' \/ (u \notin crossed /\ u \notin Crossing /\ ~Failed(u))
        <3>1. crossed' = {v \in crossed \cup Crossing \cup {w \in Users : Failed(w)} : ~InOneParty(v)'}
            BY <1>2 DEF Note
        <3>2. QED
            BY <1>2, <3>1
    <2>2. CASE InOneParty(u)'
        BY <2>2, RestSituated
    <2>3. ASSUME u \notin crossed, u \notin Crossing, ~Failed(u)
          PROVE  Situated(req'[u], Own(u)', Alone(u)')
        <3>1. Situated(req[u], Own(u), Alone(u))
            BY <1>2, <2>3 DEF OneInv
        <3>2. ASSUME req'[u] = req[u], UNCHANGED <<groups, edge>>
              PROVE  Situated(req'[u], Own(u)', Alone(u)')
            <4>1. Own(u)' = Own(u) /\ Alone(u)' = Alone(u)
                BY <3>2 DEF Own, Alone, Active
            <4>2. QED
                BY <3>1, <3>2, <4>1
        <3>3. ASSUME NEW v \in Users, Acts(v) PROVE Situated(req'[u], Own(u)', Alone(u)')
            <4>1. CASE v # u
                <5>1. req'[u] = req[u]
                    BY <3>3, <4>1, ActMoved DEF Turns, Based, Fit
                <5>2. Own(u)' \subseteq Own(u)
                    BY <3>3, <4>1, OwnShrinks
                <5>3. QED
                    BY <2>3, <3>1, <5>1, <5>2, WaitSituated
            <4>2. CASE v = u /\ Step(u)
                BY <3>1, <4>2, OneStep
            <4>3. CASE v = u /\ Send(u)
                BY <3>1, <4>3, SendSituated
            <4>4. CASE v = u /\ CallError(u)
                <5>1. req'[u] = req[u]
                    BY <2>3, <4>4 DEF Failed, CallError, StoreOK
                <5>2. QED
                    BY <3>2, <4>4, <5>1, ErrorFrame
            <4>5. QED
                BY <3>3, <4>1, <4>2, <4>3, <4>4 DEF Acts
        <3>4. CASE UNCHANGED <<groups, creator, edge, rowVars, req, faults>>
            BY <3>2, <3>4
        <3>5. CASE /\ UNCHANGED <<groups, creator, edge, rowVars>>
                   /\ faults' # faults
            BY <2>3, <3>2, <3>5 DEF Failed
        <3>6. QED
            BY <1>0, <3>3, <3>4, <3>5, NextShape
    <2>4. QED
        BY <2>1, <2>2, <2>3
<1>3. QED
    BY <1>1, <1>2, OneNow DEF NextOverlap

(* Whatever requests overlap, calls fail or restarts cut short: a player     *)
(* without a request in flight is in one party at most, unless somebody      *)
(* joined the player's own party while the player moved to another one, or a *)
(* call of that move failed.                                                 *)
THEOREM OneParty == SpecOverlap => []OnePartyEach
<1>1. InitOverlap => OneInv
    <2>1. ASSUME InitOverlap, NEW u \in Users PROVE Situated(req[u], Own(u), Alone(u))
        <3>1. req[u] = Idle /\ Own(u) = {}
            BY <2>1 DEF InitOverlap, Init, Own
        <3>2. QED
            BY <3>1, SituatedIdle, IdleFields DEF AtMostOne
    <2>2. QED
        BY <2>1 DEF OneInv
<1>2. /\ ReqOK /\ StoreOK /\ Based /\ OneInv
      /\ [NextOverlap]_overlapVars
      /\ ReqOK' /\ StoreOK' /\ Based'
      => OneInv'
    BY OneNext
<1>3. StoreOK /\ Based /\ OneInv => OnePartyEach
    <2>1. ASSUME StoreOK, Based, OneInv, NEW u \in Users \ crossed, At(u, "idle")
          PROVE  Cardinality(Memberships(u, None)) <= 1
        <3>1. AtMostOne(Own(u))
            BY <2>1 DEF OneInv, Situated, Landed, Counting, Leaving, Clearing, Disbanding, At
        <3>2. Memberships(u, None) = Own(u)
            BY <2>1, OwnMemberships
        <3>3. CASE Own(u) = {}
            BY <3>2, <3>3, FS_EmptySet
        <3>4. ASSUME NEW p \in Own(u) PROVE Cardinality(Own(u)) <= 1
            <4>1. Own(u) = {p}
                BY <3>1, <3>4 DEF AtMostOne
            <4>2. QED
                BY <4>1, FS_Singleton
        <3>5. QED
            BY <3>2, <3>3, <3>4
    <2>2. QED
        BY <2>1 DEF OnePartyEach
<1>4. QED
    BY <1>1, <1>2, <1>3, Overlaps, PTL DEF SpecOverlap

-----------------------------------------------------------------------------
(* NoRowOutlives.  A row that should not be there is one that some request   *)
(* has still to delete; and while a code is being handed out or looked up,   *)
(* the request that does it knows every code that leads to the party.        *)

(* r has still to delete m's ready row in p. *)
Owes(r, p, m) ==
    \/ r.pc = "leave.rows" /\ r.p = p /\ r.t = m
    \/ r.op = "kick" /\ r.pc \in Leading \cup {"kick.rows"} /\ r.p = p /\ r.t = m
    \/ r.pc = "disband.rows" /\ r.q = p /\ m \in r.roster

(* r is between the two rows of a code of p, or has looked the code up. *)
Pairing(r, p) == r.pc = "getCode.reverse" /\ r.p = p
Looking(r, p) == r.pc \in {"code.group", "code.stale"} /\ r.p = p

(* r has still to delete p's code. *)
Uncodes(r, p, c) ==
    /\ r.q = p
    /\ r.pc \in {"disband.rows", "disband.code"} \/ (r.pc = "disband.codeRows" /\ r.c = c)

Allowed(p) ==
    \A u \in Users : /\ Writing(u, p) => p \in groups
                     /\ Readying(u, p) => u \in Active(p)

OwnedRows(p) ==
    /\ \A m \in ready[p] : m \in Active(p) \/ \E u \in Users : Owes(req[u], p, m)
    /\ (p \notin groups /\ (leader[p] # None \/ p \in settings))
       => \E u \in Users : req[u].pc = "disband.rows" /\ req[u].q = p

OneCode(p) ==
    /\ \A c \in Codes : forward[c] = p =>
         reverse[p] = c \/ \E u \in Users : Pairing(req[u], p) /\ req[u].c = c
    /\ \A u \in Users : Pairing(req[u], p) =>
         /\ reverse[p] = None
         /\ \A v \in Users : Pairing(req[v], p) => v = u
         /\ \A c \in Codes : forward[c] = p => c = req[u].c

KnownCode(p) ==
    \A u \in Users : Looking(req[u], p) =>
        /\ p \in groups => forward[req[u].c] = p
        /\ reverse[p] \in {None, req[u].c}
        /\ \A c \in Codes : forward[c] = p => c = req[u].c

EndedCode(p) ==
    /\ (p \notin groups /\ reverse[p] # None) => \E u \in Users : Uncodes(req[u], p, reverse[p])
    /\ \A u \in Users : req[u].pc = "disband.codeRows" /\ req[u].q = p
         => reverse[p] \in {None, req[u].c}

RowsOf(p) == Allowed(p) /\ OwnedRows(p) /\ OneCode(p) /\ KnownCode(p) /\ EndedCode(p)

RowsInv == \A p \in Parties \ outrun : RowsOf(p)

(* No write about p is outrun in this step. *)
InTime(p) == ~Ended(p) /\ ~Recoded(p) /\ \A u \in Went(p) : ~Readying(u, p)

-----------------------------------------------------------------------------
(* What the requests about a party do in a step of one of them. *)

LEMMA GroupStays ==
    ASSUME ReqOK, StoreOK, NEW u \in Users, Acts(u), NEW p \in groups
    PROVE  p \in groups' \/ /\ Step(u) /\ req[u].pc = "disband.delete" /\ req[u].q = p
                            /\ UNCHANGED rowVars /\ Same(req[u], req'[u], "disband.rows")
BY ActGroups, GotoTurns

LEMMA AllowedNext ==
    ASSUME ReqOK, StoreOK, Based, NEW u \in Users, Send(u) \/ Step(u), NEW p \in Parties,
           Allowed(p), InTime(p)
    PROVE  \A v \in Users : /\ Writing(v, p)' => p \in groups'
                            /\ Readying(v, p)' => v \in Active(p)'
<1> DEFINE r == req[u]
           s == req'[u]
<1>0. Turns(u, s) /\ Kinds(r) /\ Kinds(s) /\ (~Send(u) => Moved(r, s)) /\ Acts(u)
    BY ActMoved DEF Acts, Based, Fit
<1>1. ASSUME NEW v \in Users, v # u
      PROVE  /\ Writing(v, p)' => p \in groups'
             /\ Readying(v, p)' => v \in Active(p)'
    <2>1. req'[v] = req[v]
        BY <1>0, <1>1 DEF Turns
    <2>2. Writing(v, p)' => p \in groups'
        BY <2>1 DEF Allowed, InTime, Ended, Writing
    <2>3. Readying(v, p)' => v \in Active(p)'
        BY <2>1 DEF Allowed, InTime, Readying, Went, At
    <2>4. QED
        BY <2>2, <2>3
<1>2. Readying(u, p)' => u \in Active(p)'
    <2>1. ASSUME Readying(u, p)' PROVE u \in Active(p)'
        <3>1. s.pc = "ready.write" /\ s.p = p
            BY <2>1 DEF Readying, At
        <3>2. Send(u)
            BY <1>0, <3>1 DEF Moved, Opening
        <3>3. u \in Active(p) /\ edge' = edge
            BY <3>1, <3>2, SendFacts
        <3>4. QED
            BY <3>3 DEF Active
    <2>2. QED
        BY <2>1
<1>3. Writing(u, p)' => p \in groups'
    <2>1. ASSUME Writing(u, p)' PROVE p \in groups'
        <3>1. /\ s.p = p
              /\ s.pc \in {"settings.write", "lead.write", "transfer.write", "getCode.read",
                           "getCode.forward", "getCode.reverse"}
            BY <2>1 DEF Writing
        <3>2. CASE Send(u)
            BY <3>1, <3>2, SendFacts, SendTurns DEF Sent
        <3>3. CASE Step(u)
            <4>1. r.p = p /\ Flow(r.pc, s.pc) /\ s.pc \notin {"settings.write", "getCode.read"}
                BY <1>0, <3>1, <3>3, StepFlow, StepCall, SendTurns, IdleFields
                   DEF Moved, Opening
            <4>2. \/ s.pc = "lead.write" /\ r.pc = "lead.roster"
                  \/ s.pc = "transfer.write" /\ r.pc = "transfer.roster"
                  \/ s.pc = "getCode.forward" /\ r.pc = "getCode.read"
                  \/ s.pc = "getCode.reverse" /\ r.pc = "getCode.forward"
                BY <3>1, <4>1 DEF Flow
            <4>3. p \in groups
                <5>1. CASE r.pc \in {"getCode.read", "getCode.forward"}
                    BY <4>1, <5>1 DEF Allowed, Writing
                <5>2. CASE s.pc = "lead.write" /\ r.pc = "lead.roster"
                    <6>1. LeadRoster(u)
                        BY <3>3, <5>2, StepCall
                    <6>2. s.next \in Active(p) \/ s = Idle \/ s.pc = "kick.rows"
                        BY <4>1, <6>1, LeadRosterTurns DEF Goes
                    <6>3. QED
                        BY <5>2, <6>2, IdleFields DEF Based, Active
                <5>3. CASE s.pc = "transfer.write" /\ r.pc = "transfer.roster"
                    <6>1. TransferRoster(u)
                        BY <3>3, <5>3, StepCall
                    <6>2. u \in Active(p)
                        BY <4>1, <5>3, <6>1, FinishTurns, IdleFields DEF TransferRoster, Check, Turns
                    <6>3. QED
                        BY <6>2 DEF Based, Active
                <5>4. QED
                    BY <4>2, <5>1, <5>2, <5>3
            <4>4. QED
                BY <1>0, <4>2, <4>3, GroupStays
        <3>4. QED
            BY <3>2, <3>3
    <2>2. QED
        BY <2>1
<1>4. QED
    BY <1>1, <1>2, <1>3

(* A kick goes on, whoever leads next. *)
LEMMA KickGoesOn ==
    ASSUME ReqOK, StoreOK, NEW u \in Users, Step(u), req[u].op = "kick", req[u].pc \in Leading
    PROVE  req'[u].pc \in Leading \cup {"kick.rows"}
<1> DEFINE r == req[u]
           s == req'[u]
<1>1. CASE r.pc = "lead.resolve"
    BY <1>1, StepCall, LeadResolveTurns DEF Same, Goes, Leading
<1>2. CASE r.pc = "lead.roster"
    BY <1>2, StepCall, LeadRosterTurns DEF Goes, Leading
<1>3. CASE r.pc = "lead.write"
    BY <1>3, StepCall, GotoTurns DEF LeadWrite, Same, Goes, Leading
<1>4. CASE r.pc = "lead.promote"
    BY <1>4, StepCall, LeadPromoteTurns DEF Goes
<1>5. QED
    BY <1>1, <1>2, <1>3, <1>4 DEF Leading

LEMMA ReadyNext ==
    ASSUME ReqOK, StoreOK, Based, NEW u \in Users, Send(u) \/ Step(u), NEW p \in Parties,
           Allowed(p), OwnedRows(p), InTime(p), NEW m \in ready'[p]
    PROVE  m \in Active(p)' \/ \E v \in Users : Owes(req'[v], p, m)
<1> DEFINE r == req[u]
           s == req'[u]
<1>0. Turns(u, s) /\ Kinds(r) /\ Kinds(s) /\ Acts(u) /\ Fit(r, u)
    BY ActMoved DEF Acts, Based, Fit
<1>2. ASSUME m \in Active(p) PROVE m \in Active(p)' \/ Owes(s, p, m)
    <2>1. ASSUME m \in Went(p) PROVE Owes(s, p, m)
        <3>1. CASE Step(u) /\ r.pc = "disband.delete" /\ r.q = p /\ p \notin groups'
            <4>1. p \in groups
                BY <1>2 DEF Based, Active
            <4>2. Same(r, s, "disband.rows")
                BY <1>0, <3>1, <4>1, GroupStays
            <4>3. Active(p) \subseteq r.roster
                BY <3>1, <4>1, <4>2 DEF InTime, Ended, At, Same, Goes
            <4>4. QED
                BY <1>2, <3>1, <4>2, <4>3 DEF Owes, Same, Goes
        <3>2. CASE Step(u) /\ r.pc = "kick.commit" /\ r.p = p /\ m = r.t /\ s.pc = "lead.resolve"
            <4>1. s.op = "kick" /\ s.p = p /\ s.t = m
                BY <1>0, <3>2, StepMoved, IdleFields DEF Moved, Kinds
            <4>2. QED
                BY <3>2, <4>1 DEF Owes, Leading
        <3>3. CASE Send(u) /\ s.pc = "leave.rows" /\ s.p = p /\ m = u /\ s.t = u
            BY <3>3 DEF Owes
        <3>4. QED
            BY <1>0, <2>1, <3>1, <3>2, <3>3, ActWent
    <2>2. QED
        BY <1>2, <2>1 DEF Went
<1>3. ASSUME NEW v \in Users, Owes(req[v], p, m), m \in ready[p]
      PROVE  Owes(req'[v], p, m)
    <2>1. CASE v # u
        BY <1>0, <1>3, <2>1 DEF Turns
    <2>2. CASE v = u
        <3>1. Step(u)
            BY <1>3, <2>2, SendTurns DEF Owes, Leading
        <3>2. ~(r.pc = "leave.rows" /\ r.p = p /\ r.t = m)
            BY <1>0, <3>1, StepReady DEF Fit
        <3>3. /\ ~(r.pc = "kick.rows" /\ r.p = p /\ r.t = m)
              /\ ~(r.pc = "disband.rows" /\ r.q = p /\ m \in r.roster)
            BY <3>1, StepReady
        <3>4. r.op = "kick" /\ r.pc \in Leading /\ r.p = p /\ r.t = m
            BY <1>3, <2>2, <3>2, <3>3 DEF Owes
        <3>5. s.pc \in Leading \cup {"kick.rows"}
            BY <3>1, <3>4, KickGoesOn
        <3>6. s.op = "kick" /\ s.p = p /\ s.t = m
            BY <3>1, <3>4, <3>5, StepMoved, IdleFields DEF Moved, Leading
        <3>7. QED
            BY <2>2, <3>5, <3>6 DEF Owes
    <2>3. QED
        BY <2>1, <2>2
<1>4. CASE m \in ready[p]
    BY <1>2, <1>3, <1>4 DEF OwnedRows
<1>5. CASE m \notin ready[p]
    <2>1. Step(u)
        BY <1>5, SendTurns DEF rowVars
    <2>2. r.pc = "ready.write" /\ r.op = "ready" /\ r.p = p /\ m = u
        BY <1>5, <2>1, StepReady
    <2>3. m \in Active(p)
        BY <2>2 DEF Allowed, Readying, At
    <2>4. QED
        BY <1>2, <2>3
<1>6. QED
    BY <1>4, <1>5

LEMMA SweptNext ==
    ASSUME ReqOK, StoreOK, Based, NEW u \in Users, Send(u) \/ Step(u), NEW p \in Parties,
           Allowed(p), OwnedRows(p), p \notin groups', leader'[p] # None \/ p \in settings'
    PROVE  \E v \in Users : req'[v].pc = "disband.rows" /\ req'[v].q = p
<1> DEFINE r == req[u]
           s == req'[u]
<1>0. Turns(u, s) /\ Acts(u)
    BY ActMoved DEF Acts, Based, Fit
<1>1. CASE p \in groups
    BY <1>0, <1>1, GroupStays DEF Allowed, OwnedRows, Same, Goes, InTime, Ended, Same
<1>2. CASE p \notin groups
    <2>1. ~Writing(u, p)
        BY <1>2 DEF Allowed
    <2>2. Step(u) => leader'[p] = leader[p] \/ leader'[p] = None
        <3>1. r.p = p => r.pc \notin {"lead.write", "transfer.write"}
            BY <2>1 DEF Writing
        <3>2. QED
            BY <3>1, StepLeader
    <2>3. Step(u) => (p \in settings' => p \in settings)
        <3>1. r.p = p => r.pc # "settings.write"
            BY <2>1 DEF Writing
        <3>2. QED
            BY <3>1, StepSettings
    <2>4. Send(u) => leader' = leader /\ settings' = settings
        BY SendTurns DEF rowVars
    <2>5. leader[p] # None \/ p \in settings
        BY <2>2, <2>3, <2>4
    <2>6. PICK v \in Users : req[v].pc = "disband.rows" /\ req[v].q = p
        BY <1>2, <2>5 DEF OwnedRows
    <2>7. CASE v = u
        <3>1. Step(u)
            BY <2>6, <2>7, SendTurns
        <3>2. DisbandRows(u)
            BY <2>6, <2>7, <3>1, StepCall
        <3>3. leader'[p] = None /\ p \notin settings'
            BY <2>6, <2>7, <3>2 DEF DisbandRows, StoreOK
        <3>4. QED
            BY <3>3
    <2>8. CASE v # u
        BY <1>0, <2>6, <2>8 DEF Turns
    <2>9. QED
        BY <2>7, <2>8
<1>3. QED
    BY <1>1, <1>2

(* What a step makes of the code rows, seen from the party p. *)
LEMMA CodeMoves ==
    ASSUME ReqOK, StoreOK, PairInv, Based, NEW u \in Users, Send(u) \/ Step(u),
           NEW p \in Parties, Allowed(p)
    PROVE  LET r == req[u]
               s == req'[u] IN
           /\ reverse'[p] \in {reverse[p], None} \/ (Pairing(r, p) /\ reverse'[p] = r.c)
           /\ \A c \in Codes : forward'[c] = p =>
                forward[c] = p \/ (r.pc = "getCode.forward" /\ Pairing(s, p) /\ s.c = c)
           /\ Pairing(r, p) => reverse'[p] = r.c /\ forward' = forward /\ Step(u)
           /\ Looking(s, p) =>
                /\ reverse' = reverse /\ forward' = forward
                /\ \/ Looking(r, p) /\ r.c = s.c
                   \/ s.c \in Codes /\ forward[s.c] = p
           /\ Pairing(s, p) => r.pc = "getCode.forward" /\ r.p = p /\ reverse' = reverse /\ Step(u)
<1> DEFINE r == req[u]
           s == req'[u]
<1>0. Turns(u, s) /\ Acts(u) /\ (~Send(u) => Moved(r, s)) /\ Kinds(s)
    BY ActMoved DEF Acts, Based, Fit
<1>1. CASE Send(u)
    <2>1. /\ reverse' = reverse /\ forward' = forward /\ <<s.op, s.pc>> \in Sent /\ r.pc = "idle"
          /\ s.pc = "code.group" => s.c \in Codes /\ forward[s.c] = s.p
        BY <1>1, SendTurns, SendFacts DEF rowVars
    <2>2. QED
        BY <2>1 DEF Sent, Pairing, Looking
<1>2. CASE Step(u)
    <2>0. /\ Flow(r.pc, s.pc) /\ s.pc \notin Opening /\ (s = Idle \/ s.p = r.p)
          /\ s.pc # "idle" => s.p = r.p
        BY <1>2, StepFlow, StepMoved, IdleFields DEF Moved
    <2>1. Pairing(r, p) => reverse'[p] = r.c /\ forward' = forward
        <3>1. ASSUME Pairing(r, p) PROVE reverse'[p] = r.c /\ forward' = forward
            <4>1. GetCodeReverse(u)
                BY <1>2, <3>1, StepCall DEF Pairing
            <4>2. QED
                BY <3>1, <4>1 DEF GetCodeReverse, Pairing, StoreOK
        <3>2. QED
            BY <3>1
    <2>2. Pairing(s, p) => r.pc = "getCode.forward" /\ r.p = p
        BY <2>0 DEF Pairing, Flow
    <2>3. Looking(s, p) => r.pc = "code.group" /\ r.p = p /\ s.pc = "code.stale"
        BY <2>0 DEF Looking, Flow, Opening
    <2>4. Looking(s, p) => s.c = r.c /\ reverse' = reverse /\ forward' = forward
        <3>1. ASSUME Looking(s, p) PROVE s.c = r.c /\ reverse' = reverse /\ forward' = forward
            <4>1. CodeGroup(u) /\ s.pc = "code.stale"
                BY <1>2, <2>3, <3>1, StepCall
            <4>2. Goto(u, "code.stale") \/ Goto(u, "code.roster") \/ Finish(u)
                BY <4>1 DEF CodeGroup, Check
            <4>3. s.c = r.c
                BY <4>1, <4>2, GotoTurns, FinishTurns, IdleFields DEF Turns, Same, Goes
            <4>4. QED
                BY <4>1, <4>3 DEF CodeGroup, rowVars
        <3>2. QED
            BY <3>1
    <2>5. \/ forward' = forward /\ reverse' = reverse
          \/ /\ r.pc = "getCode.forward" /\ s.pc = "getCode.reverse" /\ s.c \in Codes
             /\ forward[s.c] = None /\ forward' = [forward EXCEPT ![s.c] = r.p]
             /\ reverse' = reverse
          \/ /\ r.pc = "getCode.reverse" /\ forward' = forward
             /\ reverse' = [reverse EXCEPT ![r.p] = r.c]
          \/ r.pc = "code.stale" /\ DeleteCodePair(r.c, r.p)
          \/ r.pc = "disband.codeRows" /\ DeleteCodePair(r.c, r.q)
        BY <1>2, StepCodes
    <2>6. reverse'[p] \in {reverse[p], None} \/ (Pairing(r, p) /\ reverse'[p] = r.c)
        BY <2>5 DEF Pairing, DeleteCodePair, StoreOK
    <2>7. \A c \in Codes : forward'[c] = p =>
             forward[c] = p \/ (r.pc = "getCode.forward" /\ Pairing(s, p) /\ s.c = c)
        <3>1. s.pc = "getCode.reverse" => s.p = r.p
            BY <2>0
        <3>2. QED
            BY <2>5, <3>1, NoneIsNobody DEF Pairing, DeleteCodePair, StoreOK
    <2>8. Pairing(s, p) => reverse' = reverse
        BY <2>2, <2>5
    <2>9. QED
        BY <1>2, <2>1, <2>2, <2>3, <2>4, <2>6, <2>7, <2>8 DEF Looking
<1>3. QED
    BY <1>1, <1>2

(* A code is only deleted for a party that is gone, by a request that knows it. *)
LEMMA CodesDeleted ==
    ASSUME ReqOK, StoreOK, PairInv, Based, NEW u \in Users, Send(u) \/ Step(u), NEW p \in Parties
    PROVE  /\ reverse'[p] = None /\ reverse[p] # None
              => /\ Step(u) /\ forward'[req[u].c] = None
                 /\ \/ Looking(req[u], p)
                    \/ req[u].pc = "disband.codeRows" /\ req[u].q = p
           /\ \A c \in Codes : forward[c] = p /\ p \in groups => forward'[c] = p
<1> DEFINE r == req[u]
           s == req'[u]
<1>1. CASE Send(u)
    BY <1>1, SendTurns DEF rowVars
<1>2. CASE Step(u)
    <2>1. \/ forward' = forward /\ reverse' = reverse
          \/ /\ r.pc = "getCode.forward" /\ s.pc = "getCode.reverse" /\ s.c \in Codes
             /\ forward[s.c] = None /\ forward' = [forward EXCEPT ![s.c] = r.p]
             /\ reverse' = reverse
          \/ /\ r.pc = "getCode.reverse" /\ forward' = forward
             /\ reverse' = [reverse EXCEPT ![r.p] = r.c]
          \/ r.pc = "code.stale" /\ DeleteCodePair(r.c, r.p)
          \/ r.pc = "disband.codeRows" /\ DeleteCodePair(r.c, r.q)
        BY <1>2, StepCodes
    <2>2. /\ r.pc \in {"code.stale", "disband.codeRows", "getCode.reverse"} => r.c \in Codes
          /\ r.pc = "code.stale" => r.p \notin groups /\ forward[r.c] \in {r.p, None}
          /\ r.pc = "disband.codeRows" => r.q \notin groups /\ forward[r.c] \in {r.q, None}
        BY DEF PairInv, PairOf, Leads, Dead
    <2>3. p # None
        BY NoneIsNobody
    <2>4. \A c \in Codes : forward[c] = p /\ p \in groups => forward'[c] = p
        BY <2>1, <2>2, <2>3 DEF DeleteCodePair, StoreOK
    <2>5. reverse'[p] = None /\ reverse[p] # None
             => /\ forward'[r.c] = None
                /\ \/ Looking(r, p)
                   \/ r.pc = "disband.codeRows" /\ r.q = p
        BY <2>1, <2>2, <2>3, NoneIsNobody DEF DeleteCodePair, StoreOK, Looking
    <2>6. QED
        BY <1>2, <2>4, <2>5
<1>3. QED
    BY <1>1, <1>2

LEMMA OneCodeNext ==
    ASSUME ReqOK, StoreOK, PairInv, Based, NEW u \in Users, Send(u) \/ Step(u),
           NEW p \in Parties, Allowed(p), OneCode(p), KnownCode(p), EndedCode(p), InTime(p)
    PROVE  /\ \A c \in Codes : forward'[c] = p =>
                reverse'[p] = c \/ \E v \in Users : Pairing(req'[v], p) /\ req'[v].c = c
           /\ \A v \in Users : Pairing(req'[v], p) =>
                /\ reverse'[p] = None
                /\ \A w \in Users : Pairing(req'[w], p) => w = v
                /\ \A c \in Codes : forward'[c] = p => c = req'[v].c
<1> DEFINE r == req[u]
           s == req'[u]
<1>0. Turns(u, s)
    BY ActMoved DEF Acts, Based, Fit
<1>1. /\ reverse'[p] \in {reverse[p], None} \/ (Pairing(r, p) /\ reverse'[p] = r.c)
      /\ \A c \in Codes : forward'[c] = p =>
           forward[c] = p \/ (r.pc = "getCode.forward" /\ Pairing(s, p) /\ s.c = c)
      /\ Pairing(r, p) => reverse'[p] = r.c
      /\ Pairing(s, p) => r.pc = "getCode.forward" /\ r.p = p /\ reverse' = reverse
    BY CodeMoves
<1>2. reverse'[p] = None /\ reverse[p] # None
         => /\ forward'[r.c] = None
            /\ Looking(r, p) \/ (r.pc = "disband.codeRows" /\ r.q = p)
    BY CodesDeleted
<1>3. p # None /\ None \notin Codes
    BY NoneIsNobody
<1>4. ASSUME NEW c \in Codes, forward'[c] = p
      PROVE  reverse'[p] = c \/ \E v \in Users : Pairing(req'[v], p) /\ req'[v].c = c
    <2>1. CASE Pairing(s, p) /\ s.c = c
        BY <2>1
    <2>2. ASSUME forward[c] = p
          PROVE  reverse'[p] = c \/ \E v \in Users : Pairing(req'[v], p) /\ req'[v].c = c
        <3>1. CASE reverse[p] = c
            <4>1. ~Pairing(r, p)
                BY <1>3, <3>1 DEF OneCode
            <4>2. ASSUME reverse'[p] = None PROVE FALSE
                <5>1. /\ forward'[r.c] = None
                      /\ Looking(r, p) \/ (r.pc = "disband.codeRows" /\ r.q = p)
                    BY <1>2, <1>3, <1>4, <3>1, <4>2
                <5>2. c = r.c
                    <6>1. CASE Looking(r, p)
                        BY <1>4, <2>2, <6>1 DEF KnownCode
                    <6>2. CASE r.pc = "disband.codeRows" /\ r.q = p
                        BY <1>3, <1>4, <3>1, <6>2 DEF EndedCode
                    <6>3. QED
                        BY <5>1, <6>1, <6>2
                <5>3. QED
                    BY <1>3, <1>4, <5>1, <5>2
            <4>3. QED
                BY <1>1, <3>1, <4>1, <4>2
        <3>2. ASSUME NEW v \in Users, Pairing(req[v], p), req[v].c = c
              PROVE  reverse'[p] = c \/ (Pairing(req'[v], p) /\ req'[v].c = c)
            BY <1>0, <1>1, <3>2 DEF Turns
        <3>3. QED
            BY <2>2, <3>1, <3>2 DEF OneCode
    <2>3. QED
        BY <1>1, <1>4, <2>1, <2>2
<1>5. ASSUME Pairing(s, p)
      PROVE  /\ reverse[p] = None /\ reverse'[p] = None
             /\ \A w \in Users \ {u} : ~Pairing(req[w], p)
             /\ \A c \in Codes : forward'[c] = p => c = s.c
    <2>1. r.pc = "getCode.forward" /\ r.p = p /\ s.pc = "getCode.reverse" /\ reverse' = reverse
        BY <1>1, <1>5 DEF Pairing
    <2>2. reverse[p] = None /\ \A w \in Users \ {u} : ~Pairing(req[w], p)
        BY <2>1 DEF InTime, Recoded, At, Pairing
    <2>3. ~Pairing(r, p)
        BY <2>1 DEF Pairing
    <2>4. \A c \in Codes : forward[c] # p
        BY <1>3, <2>2, <2>3 DEF OneCode
    <2>5. QED
        BY <1>1, <2>1, <2>2, <2>4
<1>6. ASSUME NEW v \in Users, Pairing(req'[v], p), v # u
      PROVE  /\ reverse'[p] = None
             /\ \A w \in Users : Pairing(req'[w], p) => w = v
             /\ \A c \in Codes : forward'[c] = p => c = req'[v].c
    <2>1. Pairing(req[v], p) /\ req'[v] = req[v]
        BY <1>0, <1>6 DEF Turns
    <2>2. /\ reverse[p] = None
          /\ \A w \in Users : Pairing(req[w], p) => w = v
          /\ \A c \in Codes : forward[c] = p => c = req[v].c
        BY <2>1 DEF OneCode
    <2>3. ~Pairing(r, p) /\ ~Pairing(s, p)
        BY <1>5, <1>6, <2>1, <2>2
    <2>4. QED
        BY <1>0, <1>1, <2>1, <2>2, <2>3 DEF Turns
<1>7. ASSUME NEW v \in Users, Pairing(req'[v], p)
      PROVE  /\ reverse'[p] = None
             /\ \A w \in Users : Pairing(req'[w], p) => w = v
             /\ \A c \in Codes : forward'[c] = p => c = req'[v].c
    <2>1. CASE v = u
        <3>1. \A w \in Users \ {u} : ~Pairing(req'[w], p)
            BY <1>0, <1>5, <1>7, <2>1 DEF Turns
        <3>2. QED
            BY <1>5, <1>7, <2>1, <3>1
    <2>2. QED
        BY <1>6, <1>7, <2>1
<1>8. QED
    BY <1>4, <1>7

LEMMA KnownCodeNext ==
    ASSUME ReqOK, StoreOK, PairInv, Based, NEW u \in Users, Send(u) \/ Step(u),
           NEW p \in Parties, Allowed(p), OneCode(p), KnownCode(p), InTime(p),
           NEW v \in Users, Looking(req'[v], p)
    PROVE  /\ p \in groups' => forward'[req'[v].c] = p
           /\ reverse'[p] \in {None, req'[v].c}
           /\ \A c \in Codes : forward'[c] = p => c = req'[v].c
<1> DEFINE r == req[u]
           s == req'[u]
           d == req'[v].c
<1>0. Turns(u, s) /\ Acts(u)
    BY ActMoved DEF Acts, Based, Fit
<1>1. /\ reverse'[p] \in {reverse[p], None} \/ (Pairing(r, p) /\ reverse'[p] = r.c)
      /\ \A c \in Codes : forward'[c] = p =>
           forward[c] = p \/ (r.pc = "getCode.forward" /\ Pairing(s, p) /\ s.c = c)
      /\ Looking(s, p) =>
           /\ reverse' = reverse /\ forward' = forward
           /\ \/ Looking(r, p) /\ r.c = s.c
              \/ s.c \in Codes /\ forward[s.c] = p
      /\ Pairing(s, p) => r.pc = "getCode.forward" /\ r.p = p
    BY CodeMoves
<1>2. p # None /\ None \notin Codes
    BY NoneIsNobody
<1>3. d \in Codes /\ /\ p \in groups => forward[d] = p
                     /\ reverse[p] \in {None, d}
                     /\ \A c \in Codes : forward[c] = p => c = d
    <2>1. CASE \E w \in Users : Looking(req[w], p) /\ req[w].c = d
        <3>1. PICK w \in Users : Looking(req[w], p) /\ req[w].c = d
            BY <2>1
        <3>2. d \in Codes
            BY <3>1 DEF Looking, PairInv, PairOf, Leads
        <3>3. QED
            BY <3>1, <3>2 DEF KnownCode
    <2>2. CASE d \in Codes /\ forward[d] = p
        BY <2>2 DEF OneCode
    <2>3. QED
        BY <1>0, <1>1, <2>1, <2>2 DEF Turns
<1>4. p \in groups' => p \in groups
    <2>1. ASSUME p \in groups', p \notin groups PROVE FALSE
        <3>1. creator[p] = None /\ Step(u) /\ req[u].pc = "create.commit" /\ Finish(u)
            BY <1>0, <2>1, ActGroups
        <3>2. \A w \in Users : req[w].p # p
            BY <1>2, <3>1 DEF Based, Fit, Made
        <3>3. \A w \in Users : req'[w].p # p
            BY <1>0, <1>2, <3>1, <3>2, FinishTurns, IdleFields DEF Turns
        <3>4. QED
            BY <3>3 DEF Looking
    <2>2. QED
        BY <2>1
<1>5. p \in groups' => forward'[d] = p
    BY <1>3, <1>4, CodesDeleted
<1>6. reverse'[p] \in {None, d}
    <2>1. ASSUME Pairing(r, p) PROVE r.c = d
        <3>1. p \in groups
            BY <2>1 DEF Allowed, Writing, Pairing
        <3>2. QED
            BY <1>3, <2>1, <3>1 DEF OneCode
    <2>2. QED
        BY <1>1, <1>3, <2>1
<1>7. ~Pairing(s, p)
    <2>1. ASSUME Pairing(s, p) PROVE FALSE
        <3>1. r.pc = "getCode.forward" /\ r.p = p /\ s.pc = "getCode.reverse"
            BY <1>1, <2>1 DEF Pairing
        <3>2. p \in groups
            BY <3>1 DEF Allowed, Writing
        <3>3. forward[d] = p
            BY <1>3, <3>2
        <3>4. reverse[p] = None /\ \A w \in Users \ {u} : ~Pairing(req[w], p)
            BY <3>1 DEF InTime, Recoded, At, Pairing
        <3>5. ~Pairing(r, p)
            BY <3>1 DEF Pairing
        <3>6. QED
            BY <1>2, <1>3, <3>3, <3>4, <3>5 DEF OneCode
    <2>2. QED
        BY <2>1
<1>8. QED
    BY <1>1, <1>3, <1>5, <1>6, <1>7

LEMMA EndedCodeNext ==
    ASSUME ReqOK, StoreOK, PairInv, Based, NEW u \in Users, Send(u) \/ Step(u),
           NEW p \in Parties, Allowed(p), EndedCode(p)
    PROVE  /\ (p \notin groups' /\ reverse'[p] # None)
                => \E v \in Users : Uncodes(req'[v], p, reverse'[p])
           /\ \A v \in Users : req'[v].pc = "disband.codeRows" /\ req'[v].q = p
                => reverse'[p] \in {None, req'[v].c}
<1> DEFINE r == req[u]
           s == req'[u]
<1>0. Turns(u, s) /\ Acts(u) /\ (~Send(u) => Moved(r, s))
    BY ActMoved DEF Acts, Based, Fit
<1>1. reverse'[p] \in {reverse[p], None} \/ (Pairing(r, p) /\ reverse'[p] = r.c)
    BY CodeMoves
<1>2. p \notin groups => reverse'[p] \in {reverse[p], None}
    BY <1>1 DEF Allowed, Writing, Pairing
<1>3. ASSUME p \notin groups', reverse'[p] # None
      PROVE  \E v \in Users : Uncodes(req'[v], p, reverse'[p])
    <2>1. CASE p \in groups
        BY <1>0, <1>3, <2>1, GroupStays DEF Uncodes, Same, Goes
    <2>2. CASE p \notin groups
        <3>1. reverse'[p] = reverse[p] /\ reverse[p] # None
            BY <1>2, <1>3, <2>2
        <3>2. PICK v \in Users : Uncodes(req[v], p, reverse[p])
            BY <2>2, <3>1 DEF EndedCode
        <3>3. CASE v # u
            BY <1>0, <3>1, <3>2, <3>3 DEF Turns
        <3>4. CASE v = u
            <4>1. Step(u)
                BY <3>2, <3>4, SendTurns DEF Uncodes
            <4>2. CASE r.pc = "disband.rows"
                <5>1. Goto(u, "disband.code")
                    BY <4>1, <4>2, StepCall DEF DisbandRows
                <5>2. s.pc = "disband.code" /\ s.q = p
                    BY <3>2, <3>4, <5>1, GotoTurns DEF Same, Goes, Uncodes
                <5>3. QED
                    BY <5>2 DEF Uncodes
            <4>3. CASE r.pc = "disband.code"
                <5>1. DisbandCode(u) /\ r.q = p
                    BY <3>2, <3>4, <4>1, <4>3, StepCall DEF Uncodes
                <5>2. s.pc = "disband.codeRows" /\ s.c = reverse[p] /\ s.q = p
                    BY <3>1, <5>1, DisbandCodeTurns DEF Goes
                <5>3. QED
                    BY <3>1, <5>2 DEF Uncodes
            <4>4. CASE r.pc = "disband.codeRows"
                <5>1. DisbandCodeRows(u) /\ r.q = p
                    BY <3>2, <3>4, <4>1, <4>4, StepCall DEF Uncodes
                <5>2. reverse'[p] = None
                    BY <5>1 DEF DisbandCodeRows, DeleteCodePair, StoreOK
                <5>3. QED
                    BY <1>3, <5>2
            <4>5. QED
                BY <3>2, <3>4, <4>2, <4>3, <4>4 DEF Uncodes
        <3>5. QED
            BY <3>3, <3>4
    <2>3. QED
        BY <2>1, <2>2
<1>4. ASSUME NEW v \in Users, req'[v].pc = "disband.codeRows", req'[v].q = p
      PROVE  reverse'[p] \in {None, req'[v].c}
    <2>1. CASE v # u
        <3>1. req'[v] = req[v]
            BY <1>0, <2>1 DEF Turns
        <3>2. p \notin groups /\ reverse[p] \in {None, req[v].c}
            BY <1>4, <3>1 DEF EndedCode, PairInv, PairOf, Dead
        <3>3. QED
            BY <1>2, <3>1, <3>2
    <2>2. CASE v = u
        <3>1. Step(u)
            BY <1>4, <2>2, SendTurns DEF Sent
        <3>2. r.pc = "disband.code"
            BY <1>4, <2>2, <3>1, StepFlow DEF Flow
        <3>3. DisbandCode(u)
            BY <3>1, <3>2, StepCall
        <3>4. s.c = reverse[r.q] /\ s.q = r.q /\ reverse' = reverse
            BY <1>4, <2>2, <3>3, DisbandCodeTurns, IdleFields DEF Solos, Goes, DisbandCode, rowVars
        <3>5. QED
            BY <1>4, <2>2, <3>4
    <2>3. QED
        BY <2>1, <2>2
<1>5. QED
    BY <1>3, <1>4

(* The rows of p after a step, told from the requests after it. *)
LEMMA RowsNow ==
    ASSUME NEW p,
           \A v \in Users : /\ Writing(v, p)' => p \in groups'
                            /\ Readying(v, p)' => v \in Active(p)',
           \A m \in ready'[p] : m \in Active(p)' \/ \E v \in Users : Owes(req'[v], p, m),
           (p \notin groups' /\ (leader'[p] # None \/ p \in settings'))
              => \E v \in Users : req'[v].pc = "disband.rows" /\ req'[v].q = p,
           \A c \in Codes : forward'[c] = p =>
              reverse'[p] = c \/ \E v \in Users : Pairing(req'[v], p) /\ req'[v].c = c,
           \A v \in Users : Pairing(req'[v], p) =>
              /\ reverse'[p] = None
              /\ \A w \in Users : Pairing(req'[w], p) => w = v
              /\ \A c \in Codes : forward'[c] = p => c = req'[v].c,
           \A v \in Users : Looking(req'[v], p) =>
              /\ p \in groups' => forward'[req'[v].c] = p
              /\ reverse'[p] \in {None, req'[v].c}
              /\ \A c \in Codes : forward'[c] = p => c = req'[v].c,
           (p \notin groups' /\ reverse'[p] # None)
              => \E v \in Users : Uncodes(req'[v], p, reverse'[p]),
           \A v \in Users : (req'[v].pc = "disband.codeRows" /\ req'[v].q = p)
              => reverse'[p] \in {None, req'[v].c}
    PROVE  RowsOf(p)'
<1>1. Allowed(p)'
    BY DEF Allowed
<1>2. OwnedRows(p)'
    BY DEF OwnedRows, Owes, Leading
<1>3. OneCode(p)'
    BY DEF OneCode, Pairing
<1>4. KnownCode(p)'
    BY DEF KnownCode, Looking
<1>5. EndedCode(p)'
    BY DEF EndedCode, Uncodes
<1>6. QED
    BY <1>1, <1>2, <1>3, <1>4, <1>5 DEF RowsOf

LEMMA RowsAct ==
    ASSUME ReqOK, StoreOK, PairInv, Based, NEW u \in Users, Send(u) \/ Step(u),
           NEW p \in Parties, RowsOf(p), InTime(p)
    PROVE  RowsOf(p)'
<1>0. Allowed(p) /\ OwnedRows(p) /\ OneCode(p) /\ KnownCode(p) /\ EndedCode(p)
    BY DEF RowsOf
<1>1. \A v \in Users : /\ Writing(v, p)' => p \in groups'
                       /\ Readying(v, p)' => v \in Active(p)'
    BY <1>0, AllowedNext
<1>2. \A m \in ready'[p] : m \in Active(p)' \/ \E v \in Users : Owes(req'[v], p, m)
    BY <1>0, ReadyNext
<1>3. (p \notin groups' /\ (leader'[p] # None \/ p \in settings'))
         => \E v \in Users : req'[v].pc = "disband.rows" /\ req'[v].q = p
    BY <1>0, SweptNext
<1>4. /\ \A c \in Codes : forward'[c] = p =>
              reverse'[p] = c \/ \E v \in Users : Pairing(req'[v], p) /\ req'[v].c = c
      /\ \A v \in Users : Pairing(req'[v], p) =>
              /\ reverse'[p] = None
              /\ \A w \in Users : Pairing(req'[w], p) => w = v
              /\ \A c \in Codes : forward'[c] = p => c = req'[v].c
    BY <1>0, OneCodeNext
<1>5. \A v \in Users : Looking(req'[v], p) =>
              /\ p \in groups' => forward'[req'[v].c] = p
              /\ reverse'[p] \in {None, req'[v].c}
              /\ \A c \in Codes : forward'[c] = p => c = req'[v].c
    BY <1>0, KnownCodeNext
<1>6. /\ (p \notin groups' /\ reverse'[p] # None)
              => \E v \in Users : Uncodes(req'[v], p, reverse'[p])
      /\ \A v \in Users : (req'[v].pc = "disband.codeRows" /\ req'[v].q = p)
              => reverse'[p] \in {None, req'[v].c}
    BY <1>0, EndedCodeNext
<1>7. QED
    BY <1>1, <1>2, <1>3, <1>4, <1>5, <1>6, RowsNow

(* Requests about other parties change nothing. *)
LEMMA RowsSame ==
    ASSUME NEW p \in Parties, RowsOf(p), UNCHANGED <<groups, edge, rowVars>>,
           \A v \in Users : \/ req'[v] = req[v]
                            \/ /\ req[v].p # p /\ req[v].q # p
                               /\ req'[v].p # p /\ req'[v].q # p
    PROVE  RowsOf(p)'
<1>0. Allowed(p) /\ OwnedRows(p) /\ OneCode(p) /\ KnownCode(p) /\ EndedCode(p)
    BY DEF RowsOf
<1>1. /\ leader' = leader /\ ready' = ready /\ settings' = settings /\ forward' = forward
      /\ reverse' = reverse
    BY DEF rowVars
<1>2. Active(p)' = Active(p)
    BY DEF Active
<1>3. \A v \in Users : req[v].p = p \/ req[v].q = p => req'[v] = req[v]
    OBVIOUS
<1>4. \A v \in Users : req'[v].p = p \/ req'[v].q = p => req'[v] = req[v]
    OBVIOUS
<1>5. \A v \in Users : /\ Writing(v, p)' => p \in groups'
                       /\ Readying(v, p)' => v \in Active(p)'
    BY <1>0, <1>2, <1>4 DEF Allowed, Writing, Readying, At
<1>6. \A m \in ready'[p] : m \in Active(p)' \/ \E v \in Users : Owes(req'[v], p, m)
    <2>1. \A v \in Users : \A m : Owes(req[v], p, m) => Owes(req'[v], p, m)
        BY <1>3 DEF Owes
    <2>2. QED
        BY <1>0, <1>1, <1>2, <2>1 DEF OwnedRows
<1>7. (p \notin groups' /\ (leader'[p] # None \/ p \in settings'))
         => \E v \in Users : req'[v].pc = "disband.rows" /\ req'[v].q = p
    BY <1>0, <1>1, <1>3 DEF OwnedRows
<1>8. \A v \in Users : Pairing(req'[v], p) <=> Pairing(req[v], p)
    BY <1>3, <1>4 DEF Pairing
<1>9. /\ \A c \in Codes : forward'[c] = p =>
              reverse'[p] = c \/ \E v \in Users : Pairing(req'[v], p) /\ req'[v].c = c
      /\ \A v \in Users : Pairing(req'[v], p) =>
              /\ reverse'[p] = None
              /\ \A w \in Users : Pairing(req'[w], p) => w = v
              /\ \A c \in Codes : forward'[c] = p => c = req'[v].c
    <2>1. \A v \in Users : Pairing(req[v], p) => req'[v] = req[v]
        BY <1>3 DEF Pairing
    <2>2. QED
        BY <1>0, <1>1, <1>8, <2>1 DEF OneCode
<1>10. \A v \in Users : Looking(req'[v], p) =>
              /\ p \in groups' => forward'[req'[v].c] = p
              /\ reverse'[p] \in {None, req'[v].c}
              /\ \A c \in Codes : forward'[c] = p => c = req'[v].c
    <2>1. \A v \in Users : Looking(req'[v], p) => req'[v] = req[v]
        BY <1>4 DEF Looking
    <2>2. QED
        BY <1>0, <1>1, <2>1 DEF KnownCode
<1>11. /\ (p \notin groups' /\ reverse'[p] # None)
              => \E v \in Users : Uncodes(req'[v], p, reverse'[p])
       /\ \A v \in Users : (req'[v].pc = "disband.codeRows" /\ req'[v].q = p)
              => reverse'[p] \in {None, req'[v].c}
    <2>1. \A v \in Users : \A c : Uncodes(req[v], p, c) => Uncodes(req'[v], p, c)
        BY <1>3 DEF Uncodes
    <2>2. QED
        BY <1>0, <1>1, <1>4, <2>1 DEF EndedCode
<1>12. QED
    BY <1>5, <1>6, <1>7, <1>9, <1>10, <1>11, RowsNow

(* A party with nothing wrong about it. *)
LEMMA RowsTidied ==
    ASSUME NEW p \in Parties, Tidied(p)'
    PROVE  RowsOf(p)'
<1>1. /\ \A v \in Users : req'[v].p # p /\ req'[v].q # p
      /\ \A m \in ready'[p] : m \in Active(p)'
      /\ \A c \in Codes : forward'[c] = p => reverse'[p] = c
      /\ p \notin groups' => leader'[p] = None /\ p \notin settings' /\ reverse'[p] = None
    BY DEF Tidied
<1>2. QED
    BY <1>1, RowsNow DEF Writing, Readying, Pairing, Looking

(* A call that fails, when it is not about p. *)
LEMMA ErrorElsewhere ==
    ASSUME ReqOK, StoreOK, NEW u \in Users, CallError(u), NEW p \in Parties,
           req[u].p # p, req[u].q # p
    PROVE  req'[u].p # p /\ req'[u].q # p
<1> DEFINE r == req[u]
<1>1. r \in Request /\ p # None
    BY FieldType, NoneIsNobody
<1>2. PICK x \in IF r.pc = "disband.list" THEN r.solos ELSE {r.q} :
         Become(u, OnError([r EXCEPT !.q = x]))
    BY DEF CallError
<1>3. req'[u] = OnError([r EXCEPT !.q = x])
    BY <1>2, BecomeTurns DEF Turns
<1>4. \A m \in Request : m.p # p => ThenDisbanded(m).q # p /\ ThenDisbanded(m).p # p
    BY <1>1, IdleFields DEF ThenDisbanded, ThenSolos, Request
<1>5. CASE r.pc = "disband.list"
    BY <1>1, <1>2, <1>3, <1>4, <1>5, IdleFields DEF OnError, ThenDisbandError, Request
<1>6. CASE r.pc # "disband.list"
    BY <1>1, <1>2, <1>3, <1>4, <1>6, IdleFields
       DEF OnError, ThenDisbandError, ThenCleared, ThenTransferred, Request
<1>7. QED
    BY <1>5, <1>6

LEMMA RowsNext ==
    ASSUME ReqOK, StoreOK, PairInv, Based, RowsInv, [NextOverlap]_overlapVars
    PROVE  RowsInv'
<1>0. [Next]_vars
    BY DEF NextOverlap, overlapVars
<1>1. CASE UNCHANGED overlapVars
    <2>1. UNCHANGED <<groups, edge, rowVars>> /\ req' = req /\ outrun' = outrun
        BY <1>1 DEF overlapVars, vars, rowVars
    <2>2. \A p \in Parties \ outrun : RowsOf(p)'
        BY <2>1, RowsSame DEF RowsInv
    <2>3. QED
        BY <2>1, <2>2 DEF RowsInv
<1>2. ASSUME Next, Note, NEW p \in Parties \ outrun'
      PROVE  RowsOf(p)'
    <2>1. \/ Tidied(p)'
          \/ /\ p \notin outrun /\ InTime(p)
             /\ \A u \in Users : Failed(u) => req[u].p # p /\ req[u].q # p
        <3>1. outrun' = {q \in Parties :
                 /\ \/ q \in outrun
                    \/ Ended(q) \/ Recoded(q)
                    \/ \E u \in Went(q) : Readying(u, q)
                    \/ \E u \in Users : Failed(u) /\ q \in {req[u].p, req[u].q}
                 /\ ~Tidied(q)'}
            BY <1>2 DEF Note
        <3>2. QED
            BY <1>2, <3>1 DEF InTime
    <2>2. CASE Tidied(p)'
        BY <1>2, <2>2, RowsTidied
    <2>3. ASSUME p \notin outrun, InTime(p),
                 \A u \in Users : Failed(u) => req[u].p # p /\ req[u].q # p
          PROVE  RowsOf(p)'
        <3>1. RowsOf(p)
            BY <1>2, <2>3 DEF RowsInv
        <3>2. ASSUME NEW u \in Users, Send(u) \/ Step(u) PROVE RowsOf(p)'
            BY <1>2, <2>3, <3>1, <3>2, RowsAct
        <3>3. ASSUME NEW u \in Users, CallError(u) PROVE RowsOf(p)'
            <4>1. UNCHANGED <<groups, edge, rowVars>>
                BY <3>3, ErrorFrame
            <4>2. \A v \in Users \ {u} : req'[v] = req[v]
                BY <3>3, ErrorMoved DEF Turns, Based, Fit
            <4>3. faults' # faults
                BY <3>3 DEF CallError, StoreOK
            <4>4. CASE req'[u] = req[u]
                BY <1>2, <3>1, <4>1, <4>2, <4>4, RowsSame
            <4>5. CASE req'[u] # req[u]
                <5>1. req[u].p # p /\ req[u].q # p
                    BY <2>3, <4>3, <4>5 DEF Failed
                <5>2. req'[u].p # p /\ req'[u].q # p
                    BY <1>2, <3>3, <5>1, ErrorElsewhere
                <5>3. QED
                    BY <1>2, <3>1, <4>1, <4>2, <5>1, <5>2, RowsSame
            <4>6. QED
                BY <4>4, <4>5
        <3>4. CASE UNCHANGED <<groups, creator, edge, rowVars, req, faults>>
            BY <1>2, <3>1, <3>4, RowsSame DEF rowVars
        <3>5. CASE /\ UNCHANGED <<groups, creator, edge, rowVars>>
                   /\ faults' # faults
                   /\ \A u \in Users : req'[u] = Idle
            <4>1. p # None
                BY <1>2, NoneIsNobody
            <4>2. \A v \in Users : \/ req'[v] = req[v]
                                   \/ /\ req[v].p # p /\ req[v].q # p
                                      /\ req'[v].p # p /\ req'[v].q # p
                BY <2>3, <3>5, <4>1, IdleFields DEF Failed
            <4>3. QED
                BY <1>2, <3>1, <3>5, <4>2, RowsSame DEF rowVars
        <3>6. QED
            BY <1>0, <3>2, <3>3, <3>4, <3>5, NextShape DEF Acts
    <2>4. QED
        BY <2>1, <2>2, <2>3
<1>3. QED
    BY <1>1, <1>2 DEF RowsInv, NextOverlap

(* Whatever requests overlap, calls fail or restarts cut short: once no      *)
(* request is about a party, its ready rows are its members', one code at    *)
(* most leads to it, and of a party that is gone nothing is left, unless a   *)
(* write was made on a check that the end of the party, a departure or a     *)
(* second code has outrun, or a call of a request about it failed.           *)
THEOREM RowsGoWithParty == SpecOverlap => []NoRowOutlives
<1>1. InitOverlap => RowsInv
    <2>1. ASSUME InitOverlap, NEW p \in Parties PROVE RowsOf(p)
        <3>1. /\ \A u \in Users : req[u] = Idle
              /\ leader[p] = None /\ ready[p] = {} /\ p \notin settings /\ reverse[p] = None
              /\ \A c \in Codes : forward[c] # p
            BY <2>1, NoneIsNobody DEF InitOverlap, Init
        <3>2. QED
            BY <3>1, IdleFields
               DEF RowsOf, Allowed, OwnedRows, OneCode, KnownCode, EndedCode, Writing, Readying,
                   At, Pairing, Looking
    <2>2. QED
        BY <2>1 DEF RowsInv
<1>2. /\ ReqOK /\ StoreOK /\ PairInv /\ Based /\ RowsInv
      /\ [NextOverlap]_overlapVars
      => RowsInv'
    BY RowsNext
<1>3. RowsInv => NoRowOutlives
    <2>1. ASSUME RowsInv, NEW p \in Parties \ outrun,
                 \A u \in Users : p \notin {req[u].p, req[u].q}
          PROVE  /\ ready[p] \subseteq Active(p)
                 /\ \A c \in Codes : forward[c] = p => p \in groups /\ reverse[p] = c
                 /\ p \notin groups => leader[p] = None /\ p \notin settings /\ reverse[p] = None
        <3>1. OwnedRows(p) /\ OneCode(p) /\ EndedCode(p)
            BY <2>1 DEF RowsInv, RowsOf
        <3>2. \A u \in Users : /\ ~Pairing(req[u], p)
                               /\ \A m : ~Owes(req[u], p, m)
                               /\ \A c : ~Uncodes(req[u], p, c)
            BY <2>1 DEF Pairing, Owes, Uncodes
        <3>3. ready[p] \subseteq Active(p)
            BY <3>1, <3>2 DEF OwnedRows
        <3>4. p \notin groups => leader[p] = None /\ p \notin settings /\ reverse[p] = None
            BY <2>1, <3>1, <3>2 DEF OwnedRows, EndedCode
        <3>5. \A c \in Codes : forward[c] = p => p \in groups /\ reverse[p] = c
            BY <3>1, <3>2, <3>4, NoneIsNobody DEF OneCode
        <3>6. QED
            BY <3>3, <3>4, <3>5
    <2>2. QED
        BY <2>1 DEF NoRowOutlives
<1>4. QED
    BY <1>1, <1>2, <1>3, Overlaps, PTL DEF SpecOverlap

=============================================================================
