------------------------------- MODULE Party -------------------------------
(***************************************************************************)
(* The party component of the Nakama runtime plugin: party.go,             *)
(* party_disband.go, party_group_guards.go, party_kick.go,                 *)
(* party_ready_gate.go and party_start_guard.go.                           *)
(*                                                                         *)
(* A party is a Nakama group whose name starts with "party-".  Its leader  *)
(* override, ready flags, settings and invite code are storage rows beside *)
(* the group.  Nothing ties these writes together: every RPC and hook is a *)
(* sequence of separate Nakama calls, and calls of different requests      *)
(* interleave.  Here a request is a record with a program counter, and one *)
(* action is one Nakama call (or a run of reads with no write between).    *)
(*                                                                         *)
(* Notifications, logging, rate limits, session checks and the block-list  *)
(* reads change none of this state and are left out; a refusal before the  *)
(* first write is a request that does not begin.                           *)
(***************************************************************************)
EXTENDS Naturals, FiniteSets

CONSTANTS
    Users,          \* the players
    Parties,        \* the group ids Nakama may hand out; none is used twice
    Codes,          \* the invite codes
    None,           \* absence of a user, party or code
    Ops,            \* the kinds of request the players issue
    MaxCount,       \* max_count of a party group
    MaxInFlight,    \* bound: requests running at the same time
    MaxFaults       \* bound: failed Nakama calls and runtime restarts

OpNames == {"create", "invite", "add", "join", "joinByCode", "leave", "kick",
            "transfer", "disband", "ready", "unready", "settings", "getCode",
            "start", "abort"}

ASSUME PartyAssumption ==
    /\ None \notin Users \cup Parties \cup Codes
    /\ Ops \subseteq OpNames
    /\ MaxCount \in Nat \ {0}
    /\ MaxInFlight \in Nat
    /\ MaxFaults \in Nat

VARIABLES
    (* Nakama's groups *)
    groups,         \* the party groups that exist
    creator,        \* creator_id of each group ever created, else None
    edge,           \* the state of each user's edge to each group
    (* storage rows *)
    leader,         \* party_leader: the leader override, or None
    ready,          \* party_ready: the users with a ready row
    settings,       \* parties with a party_mode / level / cheat prefs row
    forward,        \* party_invite_codes "code:C": the party, or None
    reverse,        \* party_invite_codes "party:P": the code, or None
    (* runtime memory *)
    guard,          \* partyStartGuard: parties with a live start entry
    req,            \* the request each player has in flight
    faults          \* failed calls and restarts so far

groupVars == <<groups, creator, edge>>
codeVars  == <<forward, reverse>>
rowVars   == <<leader, ready, settings, forward, reverse>>
vars      == <<groups, creator, edge, leader, ready, settings, forward, reverse,
               guard, req, faults>>

-----------------------------------------------------------------------------
(* Edges and what the runtime reads off them.  "admin" and "member" are the *)
(* states 0/1 and 2; an invitation and a join request are both state 3.     *)

EdgeStates == {"none", "invited", "requested", "member", "admin"}

Active(p) == {u \in Users : edge[p][u] \in {"member", "admin"}}

Listed(p) == {u \in Users : edge[p][u] # "none"}

HasRoom(p) == Cardinality(Active(p)) < MaxCount

(* The override when there is one, else the immutable creator. *)
ResolveLeader(p) == IF leader[p] # None THEN leader[p] ELSE creator[p]

Memberships(u, except) == {p \in groups \ {except} : u \in Active(p)}

(* The parties of a membership list that count one active member, and those  *)
(* that count more.                                                          *)
SoloParties(ps) == {p \in ps : Cardinality(Active(p)) = 1}

SharedParties(ps) == {p \in ps : Cardinality(Active(p)) > 1}

-----------------------------------------------------------------------------
(* Requests. *)

Labels == {"idle", "create.count", "create.commit", "invite.roster", "invite.target",
           "invite.add", "invite.rows", "add.target", "add.commit", "join.commit",
           "join.landed", "join.count", "code.group", "code.stale", "code.roster",
           "code.joiner", "code.add", "code.solos", "code.count", "leave.rows",
           "kick.roster", "kick.commit", "kick.rows",
           "transfer.roster", "transfer.write", "transfer.promote",
           "lead.resolve", "lead.roster", "lead.write", "lead.promote",
           "disband.list", "disband.delete", "disband.rows", "disband.code",
           "disband.codeRows", "ready.write", "settings.write", "getCode.read",
           "getCode.forward", "getCode.reverse", "start.roster", "start.ready",
           "start.guard", "abort.roster", "clear.list", "clear.delete"}

Request == [op     : OpNames \cup {"idle"},
            pc     : Labels,
            p      : Parties \cup {None},   \* the party the request names
            t      : Users \cup {None},     \* its target, or who departed
            next   : Users \cup {None},     \* the leader resolved or picked
            c      : Codes \cup {None},     \* the code read or drawn
            roster : SUBSET Users,          \* the last roster read
            solos  : SUBSET Parties,        \* parties listed, then left to disband
            q      : Parties \cup {None}]   \* the one being disbanded

Idle == [op |-> "idle", pc |-> "idle", p |-> None, t |-> None, next |-> None,
         c |-> None, roster |-> {}, solos |-> {}, q |-> None]

InFlight == {u \in Users : req[u].pc # "idle"}

(* A player drives one request at a time. *)
Begin(u, r) ==
    /\ r.op \in Ops
    /\ req[u].pc = "idle"
    /\ Cardinality(InFlight) < MaxInFlight
    /\ req' = [req EXCEPT ![u] = r]

New(op, pc, p, t) == [Idle EXCEPT !.op = op, !.pc = pc, !.p = p, !.t = t]

At(u, pc) == req[u].pc = pc

Become(u, r) == req' = [req EXCEPT ![u] = r]

Goto(u, pc) == Become(u, [req[u] EXCEPT !.pc = pc])

Finish(u) == Become(u, Idle)

(* Go on when the check passes, end the request when it refuses. *)
Check(u, ok, pc) == IF ok THEN Goto(u, pc) ELSE Finish(u)

(* Where a request goes on when a shared helper returns. *)
(* Mutant: party_join_by_code returns without resetting readiness. *)
ThenSolosNoReset(r) ==
    CASE r.solos # {}         -> [r EXCEPT !.pc = "disband.list"]
      [] r.solos = {} /\ r.op = "create" -> [r EXCEPT !.pc = "create.commit"]
      [] OTHER                -> Idle

ThenSolos(r) ==
    CASE r.solos # {}         -> [r EXCEPT !.pc = "disband.list"]
      [] r.solos = {} /\ r.op = "create"     -> [r EXCEPT !.pc = "create.commit"]
      [] r.solos = {} /\ r.op = "joinByCode" -> [r EXCEPT !.pc = "clear.list"]
      [] OTHER                -> Idle

ThenDisbanded(r) ==
    ThenSolos([r EXCEPT !.solos = @ \ {r.q}, !.q = None, !.c = None, !.roster = {}])

ThenDisbandError(r) == IF r.op = "create" THEN Idle ELSE ThenDisbanded(r)

ThenCleared(r) ==
    IF r.op = "join" THEN [r EXCEPT !.pc = "join.landed", !.roster = {}] ELSE Idle

ThenTransferred(r) ==
    IF r.op = "kick" THEN [r EXCEPT !.pc = "kick.rows", !.next = None] ELSE Idle

-----------------------------------------------------------------------------
(* disbandPartyGroup, shared by party_disband, the before-create guard, the *)
(* after-join hook and party_join_by_code.                                  *)

DisbandList(u) ==
    /\ At(u, "disband.list")
    /\ \E q \in req[u].solos :
         Become(u, IF q \in groups
                   THEN [req[u] EXCEPT !.pc = "disband.delete", !.q = q,
                                       !.roster = Listed(q)]
                   ELSE ThenDisbandError([req[u] EXCEPT !.q = q]))
    /\ UNCHANGED <<groupVars, rowVars, guard, faults>>

DisbandDelete(u) ==
    LET q == req[u].q IN
    /\ At(u, "disband.delete")
    /\ IF q \in groups
       THEN /\ groups' = groups \ {q}
            /\ edge' = [edge EXCEPT ![q] = [v \in Users |-> "none"]]
            /\ Goto(u, "disband.rows")
       ELSE /\ Become(u, ThenDisbandError(req[u]))
            /\ UNCHANGED <<groups, edge>>
    /\ UNCHANGED <<creator, rowVars, guard, faults>>

(* Mutant: the disband forgets the leader override. *)
DisbandRowsKeepLeader(u) ==
    LET q == req[u].q IN
    /\ At(u, "disband.rows")
    /\ ready' = [ready EXCEPT ![q] = @ \ req[u].roster]
    /\ settings' = settings \ {q}
    /\ Goto(u, "disband.code")
    /\ UNCHANGED <<groupVars, leader, codeVars, guard, faults>>

DisbandRows(u) ==
    LET q == req[u].q IN
    /\ At(u, "disband.rows")
    /\ ready' = [ready EXCEPT ![q] = @ \ req[u].roster]
    /\ leader' = [leader EXCEPT ![q] = None]
    /\ settings' = settings \ {q}
    /\ Goto(u, "disband.code")
    /\ UNCHANGED <<groupVars, codeVars, guard, faults>>

DisbandCode(u) ==
    LET c == reverse[req[u].q] IN
    /\ At(u, "disband.code")
    /\ Become(u, IF c = None THEN ThenDisbanded(req[u])
                 ELSE [req[u] EXCEPT !.pc = "disband.codeRows", !.c = c])
    /\ UNCHANGED <<groupVars, rowVars, guard, faults>>

(* deleteStalePartyInviteCode: both rows of the pair in one call. *)
DeleteCodePair(c, p) ==
    /\ forward' = [forward EXCEPT ![c] = None]
    /\ reverse' = [reverse EXCEPT ![p] = None]

DisbandCodeRows(u) ==
    /\ At(u, "disband.codeRows")
    /\ DeleteCodePair(req[u].c, req[u].q)
    /\ Become(u, ThenDisbanded(req[u]))
    /\ UNCHANGED <<groupVars, leader, ready, settings, guard, faults>>

(* clearPartyReadyRows: list the roster, then delete the rows of those in it. *)
ClearList(u) ==
    /\ At(u, "clear.list")
    /\ Become(u, [req[u] EXCEPT !.pc = "clear.delete", !.roster = Listed(req[u].p)])
    /\ UNCHANGED <<groupVars, rowVars, guard, faults>>

(* Mutant: a start leaves the ready rows. *)
ClearDeleteJoinsOnly(u) ==
    /\ At(u, "clear.delete")
    /\ ready' = IF req[u].op = "start" THEN ready
                ELSE [ready EXCEPT ![req[u].p] = @ \ req[u].roster]
    /\ Become(u, ThenCleared(req[u]))
    /\ UNCHANGED <<groupVars, leader, settings, codeVars, guard, faults>>

ClearDelete(u) ==
    /\ At(u, "clear.delete")
    /\ ready' = [ready EXCEPT ![req[u].p] = @ \ req[u].roster]
    /\ Become(u, ThenCleared(req[u]))
    /\ UNCHANGED <<groupVars, leader, settings, codeVars, guard, faults>>

(* Mutant: auto-transfer looks at the creator only. *)
LeadResolveCreator(u) ==
    LET r == req[u] IN
    /\ At(u, "lead.resolve")
    /\ Become(u, IF r.p \in groups /\ creator[r.p] = r.t
                 THEN [r EXCEPT !.pc = "lead.roster"] ELSE ThenTransferred(r))
    /\ UNCHANGED <<groupVars, rowVars, guard, faults>>

(* autoTransferIfLeaderDeparted, for the user in t. *)
LeadResolve(u) ==
    LET r == req[u] IN
    /\ At(u, "lead.resolve")
    /\ Become(u, IF r.p \in groups /\ ResolveLeader(r.p) = r.t
                 THEN [r EXCEPT !.pc = "lead.roster"] ELSE ThenTransferred(r))
    /\ UNCHANGED <<groupVars, rowVars, guard, faults>>

LeadRoster(u) ==
    LET r == req[u]
        remaining == Active(r.p) \ {r.t} IN
    /\ At(u, "lead.roster")
    /\ \/ /\ r.p \notin groups
          /\ Become(u, ThenTransferred(r))
          /\ UNCHANGED leader
       \/ \E v \in remaining :
            /\ Become(u, [r EXCEPT !.pc = "lead.write", !.next = v])
            /\ UNCHANGED leader
       \/ /\ r.p \in groups /\ remaining = {}
          /\ leader' = [leader EXCEPT ![r.p] = None]
          /\ Become(u, ThenTransferred(r))
    /\ UNCHANGED <<groupVars, ready, settings, codeVars, guard, faults>>

(* GroupUsersPromote raises a member to admin and ignores anyone else. *)
Promote(p, v) == edge' = [edge EXCEPT ![p][v] = IF @ = "member" THEN "admin" ELSE @]

LeadWrite(u) ==
    /\ At(u, "lead.write")
    /\ leader' = [leader EXCEPT ![req[u].p] = req[u].next]
    /\ Goto(u, "lead.promote")
    /\ UNCHANGED <<groupVars, ready, settings, codeVars, guard, faults>>

(* Mutant: the new leader is not promoted. *)
LeadPromoteSkipped(u) ==
    /\ At(u, "lead.promote")
    /\ Become(u, ThenTransferred(req[u]))
    /\ UNCHANGED <<groupVars, rowVars, guard, faults>>

LeadPromote(u) ==
    /\ At(u, "lead.promote")
    /\ Promote(req[u].p, req[u].next)
    /\ Become(u, ThenTransferred(req[u]))
    /\ UNCHANGED <<groups, creator, rowVars, guard, faults>>

-----------------------------------------------------------------------------
(* Creating a party: beforeCreateGroupPartyGuard, then Nakama's create. *)

Create(u) ==
    /\ Begin(u, [New("create", "create.count", None, None)
                   EXCEPT !.solos = Memberships(u, None)])
    /\ UNCHANGED <<groupVars, rowVars, guard, faults>>

CreateCount(u) ==
    LET r == req[u] IN
    /\ At(u, "create.count")
    /\ Become(u, IF SharedParties(r.solos) = {}
                 THEN ThenSolos([r EXCEPT !.solos = SoloParties(@)]) ELSE Idle)
    /\ UNCHANGED <<groupVars, rowVars, guard, faults>>

CreateCommit(u) ==
    /\ At(u, "create.commit")
    /\ \E p \in Parties :
         /\ creator[p] = None
         /\ creator' = [creator EXCEPT ![p] = u]
         /\ groups' = groups \cup {p}
         /\ edge' = [edge EXCEPT ![p][u] = "admin"]
    /\ Finish(u)
    /\ UNCHANGED <<rowVars, guard, faults>>

-----------------------------------------------------------------------------
(* party_invite: any active member invites; the add is done as the leader. *)

Invite(u, p, t) ==
    /\ p \in groups
    /\ t # u
    /\ HasRoom(p)
    /\ Begin(u, New("invite", "invite.roster", p, t))
    /\ UNCHANGED <<groupVars, rowVars, guard, faults>>

InviteRoster(u) ==
    /\ At(u, "invite.roster")
    /\ Check(u, u \in Active(req[u].p), "invite.target")
    /\ UNCHANGED <<groupVars, rowVars, guard, faults>>

InviteTarget(u) ==
    /\ At(u, "invite.target")
    /\ Become(u, IF SharedParties(Memberships(req[u].t, req[u].p)) = {}
                 THEN [req[u] EXCEPT !.pc = "invite.add", !.next = ResolveLeader(req[u].p)]
                 ELSE Idle)
    /\ UNCHANGED <<groupVars, rowVars, guard, faults>>

(* GroupUsersAdd by an admin of a closed group leaves an invitation. *)
AddAs(p, t) ==
    edge' = [edge EXCEPT ![p][t] = IF @ \in {"none", "requested"} THEN "invited" ELSE @]

InviteAdd(u) ==
    LET p == req[u].p
        l == req[u].next IN
    /\ At(u, "invite.add")
    /\ IF p \in groups /\ l # None /\ edge[p][l] = "admin"
       THEN AddAs(p, req[u].t) /\ Goto(u, "invite.rows")
       ELSE Finish(u) /\ UNCHANGED edge
    /\ UNCHANGED <<groups, creator, rowVars, guard, faults>>

InviteRows(u) ==
    /\ At(u, "invite.rows")
    /\ ready' = [ready EXCEPT ![req[u].p] = @ \ {req[u].t}]
    /\ Finish(u)
    /\ UNCHANGED <<groupVars, leader, settings, codeVars, guard, faults>>

(* The leader's raw add_group_users: the before-add guard, then the add. *)
Add(u, p, t) ==
    /\ p \in groups
    /\ ResolveLeader(p) = u
    /\ Begin(u, New("add", "add.target", p, t))
    /\ UNCHANGED <<groupVars, rowVars, guard, faults>>

AddTarget(u) ==
    /\ At(u, "add.target")
    /\ Check(u, SharedParties(Memberships(req[u].t, req[u].p)) = {}, "add.commit")
    /\ UNCHANGED <<groupVars, rowVars, guard, faults>>

AddCommit(u) ==
    LET p == req[u].p IN
    /\ At(u, "add.commit")
    /\ IF p \in groups /\ edge[p][u] = "admin"
       THEN AddAs(p, req[u].t) ELSE UNCHANGED edge
    /\ Finish(u)
    /\ UNCHANGED <<groups, creator, rowVars, guard, faults>>

-----------------------------------------------------------------------------
(* Accepting an invite: the before-join guard, Nakama's join, and the       *)
(* after-join hook, which resets readiness and ends the joiner's solo       *)
(* parties.                                                                 *)

Join(u, p) ==
    /\ p \in groups
    /\ SharedParties(Memberships(u, p)) = {}
    /\ Begin(u, New("join", "join.commit", p, None))
    /\ UNCHANGED <<groupVars, rowVars, guard, faults>>

JoinCommit(u) ==
    LET p == req[u].p IN
    /\ At(u, "join.commit")
    /\ \/ /\ p \in groups /\ edge[p][u] = "invited" /\ HasRoom(p)
          /\ edge' = [edge EXCEPT ![p][u] = "member"]
          /\ Goto(u, "clear.list")
       \/ /\ p \in groups /\ edge[p][u] \in {"none", "requested"}
          /\ edge' = [edge EXCEPT ![p][u] = "requested"]
          /\ Goto(u, "clear.list")
       \/ /\ p \notin groups \/ u \in Active(p) \/ ~HasRoom(p)
          /\ Finish(u)
          /\ UNCHANGED edge
    /\ UNCHANGED <<groups, creator, rowVars, guard, faults>>

JoinLanded(u) ==
    LET p == req[u].p IN
    /\ At(u, "join.landed")
    /\ Become(u, IF p \in Memberships(u, None)
                 THEN [req[u] EXCEPT !.pc = "join.count", !.solos = Memberships(u, p)]
                 ELSE Idle)
    /\ UNCHANGED <<groupVars, rowVars, guard, faults>>

JoinCount(u) ==
    /\ At(u, "join.count")
    /\ Become(u, ThenSolos([req[u] EXCEPT !.solos = SoloParties(@)]))
    /\ UNCHANGED <<groupVars, rowVars, guard, faults>>

-----------------------------------------------------------------------------
(* party_join_by_code. *)

JoinByCode(u, c) ==
    /\ forward[c] # None
    /\ Begin(u, [New("joinByCode", "code.group", forward[c], None) EXCEPT !.c = c])
    /\ UNCHANGED <<groupVars, rowVars, guard, faults>>

CodeGroup(u) ==
    LET p == req[u].p IN
    /\ At(u, "code.group")
    /\ IF p \notin groups THEN Goto(u, "code.stale")
                          ELSE Check(u, HasRoom(p), "code.roster")
    /\ UNCHANGED <<groupVars, rowVars, guard, faults>>

CodeStale(u) ==
    /\ At(u, "code.stale")
    /\ DeleteCodePair(req[u].c, req[u].p)
    /\ Finish(u)
    /\ UNCHANGED <<groupVars, leader, ready, settings, guard, faults>>

CodeRoster(u) ==
    /\ At(u, "code.roster")
    /\ Check(u, u \notin Listed(req[u].p), "code.joiner")
    /\ UNCHANGED <<groupVars, rowVars, guard, faults>>

(* Mutant: a joiner who shares a party is let into a second one. *)
CodeJoinerUnchecked(u) ==
    /\ At(u, "code.joiner")
    /\ Goto(u, "code.add")
    /\ UNCHANGED <<groupVars, rowVars, guard, faults>>

CodeJoiner(u) ==
    /\ At(u, "code.joiner")
    /\ Check(u, SharedParties(Memberships(u, req[u].p)) = {}, "code.add")
    /\ UNCHANGED <<groupVars, rowVars, guard, faults>>

(* GroupUsersAdd with server authority makes the caller a member at once. *)
CodeAdd(u) ==
    LET p == req[u].p IN
    /\ At(u, "code.add")
    /\ IF p \in groups /\ HasRoom(p) /\ u \notin Active(p)
       THEN /\ edge' = [edge EXCEPT ![p][u] = "member"]
            /\ Goto(u, "code.solos")
       ELSE Finish(u) /\ UNCHANGED edge
    /\ UNCHANGED <<groups, creator, rowVars, guard, faults>>

CodeSolos(u) ==
    /\ At(u, "code.solos")
    /\ Become(u, [req[u] EXCEPT !.pc = "code.count", !.c = None,
                                !.solos = Memberships(u, req[u].p)])
    /\ UNCHANGED <<groupVars, rowVars, guard, faults>>

CodeCount(u) ==
    /\ At(u, "code.count")
    /\ Become(u, ThenSolos([req[u] EXCEPT !.solos = SoloParties(@)]))
    /\ UNCHANGED <<groupVars, rowVars, guard, faults>>

-----------------------------------------------------------------------------
(* Leaving (or declining): Nakama's leave, then the after-leave hook. *)

Leave(u, p) ==
    /\ p \in groups
    /\ u \in Listed(p)
    /\ Begin(u, New("leave", "leave.rows", p, u))
    /\ edge' = [edge EXCEPT ![p][u] = "none"]
    /\ UNCHANGED <<groups, creator, rowVars, guard, faults>>

LeaveRows(u) ==
    /\ At(u, "leave.rows")
    /\ ready' = [ready EXCEPT ![req[u].p] = @ \ {u}]
    /\ Goto(u, "lead.resolve")
    /\ UNCHANGED <<groupVars, leader, settings, codeVars, guard, faults>>

(* Kicking: the before-kick hook, Nakama's kick, then the after-kick hook. *)
Kick(u, p, t) ==
    /\ p \in groups
    /\ ResolveLeader(p) = u
    /\ t # u
    /\ Begin(u, New("kick", "kick.roster", p, t))
    /\ UNCHANGED <<groupVars, rowVars, guard, faults>>

KickRoster(u) ==
    /\ At(u, "kick.roster")
    /\ Check(u, req[u].t \in Listed(req[u].p), "kick.commit")
    /\ UNCHANGED <<groupVars, rowVars, guard, faults>>

KickCommit(u) ==
    LET p == req[u].p IN
    /\ At(u, "kick.commit")
    /\ IF p \in groups /\ edge[p][u] = "admin"
       THEN /\ edge' = [edge EXCEPT ![p][req[u].t] = "none"]
            /\ Goto(u, "lead.resolve")
       ELSE Finish(u) /\ UNCHANGED edge
    /\ UNCHANGED <<groups, creator, rowVars, guard, faults>>

KickRows(u) ==
    /\ At(u, "kick.rows")
    /\ ready' = [ready EXCEPT ![req[u].p] = @ \ {req[u].t}]
    /\ Finish(u)
    /\ UNCHANGED <<groupVars, leader, settings, codeVars, guard, faults>>

-----------------------------------------------------------------------------
(* party_transfer_leadership and party_disband: the caller must lead. *)

Transfer(u, p, t) ==
    /\ p \in groups
    /\ t # u
    /\ ResolveLeader(p) = u
    /\ Begin(u, New("transfer", "transfer.roster", p, t))
    /\ UNCHANGED <<groupVars, rowVars, guard, faults>>

TransferRoster(u) ==
    /\ At(u, "transfer.roster")
    /\ Check(u, {u, req[u].t} \subseteq Active(req[u].p), "transfer.write")
    /\ UNCHANGED <<groupVars, rowVars, guard, faults>>

TransferWrite(u) ==
    /\ At(u, "transfer.write")
    /\ leader' = [leader EXCEPT ![req[u].p] = req[u].t]
    /\ Goto(u, "transfer.promote")
    /\ UNCHANGED <<groupVars, ready, settings, codeVars, guard, faults>>

TransferPromote(u) ==
    /\ At(u, "transfer.promote")
    /\ Promote(req[u].p, req[u].t)
    /\ Finish(u)
    /\ UNCHANGED <<groups, creator, rowVars, guard, faults>>

Disband(u, p) ==
    /\ p \in groups
    /\ ResolveLeader(p) = u
    /\ Begin(u, ThenSolos([New("disband", "idle", p, None) EXCEPT !.solos = {p}]))
    /\ UNCHANGED <<groupVars, rowVars, guard, faults>>

-----------------------------------------------------------------------------
(* party_set_ready; party_set_mode / _prefs / _level_prefs / _cheat_prefs;  *)
(* party_get_invite_code.                                                   *)

SetReady(u, p, op) ==
    /\ p \in groups
    /\ u \in Active(p)
    /\ Begin(u, New(op, "ready.write", p, None))
    /\ UNCHANGED <<groupVars, rowVars, guard, faults>>

(* Mutant: the row is written without its owner's id. *)
ReadyWriteNoOwner(u) ==
    LET p == req[u].p IN
    /\ At(u, "ready.write")
    /\ ready' = [ready EXCEPT ![p] = @ \cup {req[u].t}]
    /\ Finish(u)
    /\ UNCHANGED <<groupVars, leader, settings, codeVars, guard, faults>>

ReadyWrite(u) ==
    LET p == req[u].p IN
    /\ At(u, "ready.write")
    /\ ready' = [ready EXCEPT ![p] = IF req[u].op = "ready" THEN @ \cup {u} ELSE @ \ {u}]
    /\ Finish(u)
    /\ UNCHANGED <<groupVars, leader, settings, codeVars, guard, faults>>

SetSettings(u, p) ==
    /\ p \in groups
    /\ ResolveLeader(p) = u
    /\ Begin(u, New("settings", "settings.write", p, None))
    /\ UNCHANGED <<groupVars, rowVars, guard, faults>>

SettingsWrite(u) ==
    /\ At(u, "settings.write")
    /\ settings' = settings \cup {req[u].p}
    /\ Finish(u)
    /\ UNCHANGED <<groupVars, leader, ready, codeVars, guard, faults>>

GetCode(u, p) ==
    /\ p \in groups
    /\ u \in Active(p)
    /\ Begin(u, New("getCode", "getCode.read", p, None))
    /\ UNCHANGED <<groupVars, rowVars, guard, faults>>

GetCodeRead(u) ==
    /\ At(u, "getCode.read")
    /\ Check(u, reverse[req[u].p] = None, "getCode.forward")
    /\ UNCHANGED <<groupVars, rowVars, guard, faults>>

(* A drawn code is random among 32^6: of the codes without a forward row it *)
(* is not one that a running request or a leftover reverse row still names.  *)
Drawable(c) ==
    /\ \A v \in Users : req[v].c # c
    /\ \A p \in Parties : reverse[p] # c

(* Mutant: the forward write overwrites another party's row. *)
GetCodeForwardOverwrites(u) ==
    /\ At(u, "getCode.forward")
    /\ \E c \in Codes :
         /\ forward' = [forward EXCEPT ![c] = req[u].p]
         /\ Become(u, [req[u] EXCEPT !.pc = "getCode.reverse", !.c = c])
    /\ UNCHANGED <<groupVars, leader, ready, settings, reverse, guard, faults>>

(* Version "*": a code whose row exists is refused and another one is drawn. *)
GetCodeForward(u) ==
    /\ At(u, "getCode.forward")
    /\ \E c \in Codes :
         /\ Drawable(c)
         /\ forward[c] = None
         /\ forward' = [forward EXCEPT ![c] = req[u].p]
         /\ Become(u, [req[u] EXCEPT !.pc = "getCode.reverse", !.c = c])
    /\ UNCHANGED <<groupVars, leader, ready, settings, reverse, guard, faults>>

(* partyInviteCodeMaxAttempts draws in a row hit existing rows. *)
GetCodeExhausted(u) ==
    /\ At(u, "getCode.forward")
    /\ \E c \in Codes : forward[c] # None
    /\ Finish(u)
    /\ UNCHANGED <<groupVars, rowVars, guard, faults>>

GetCodeReverse(u) ==
    /\ At(u, "getCode.reverse")
    /\ reverse' = [reverse EXCEPT ![req[u].p] = req[u].c]
    /\ Finish(u)
    /\ UNCHANGED <<groupVars, leader, ready, settings, forward, guard, faults>>

-----------------------------------------------------------------------------
(* party_start_matchmaking and party_abort_matchmaking. *)

Start(u, p) ==
    /\ p \in groups
    /\ Begin(u, New("start", "start.roster", p, None))
    /\ UNCHANGED <<groupVars, rowVars, guard, faults>>

StartRoster(u) ==
    LET members == Active(req[u].p) IN
    /\ At(u, "start.roster")
    /\ Become(u, IF u \in members
                 THEN [req[u] EXCEPT !.pc = "start.ready", !.roster = members]
                 ELSE Idle)
    /\ UNCHANGED <<groupVars, rowVars, guard, faults>>

(* allMembersReady: one batched read of the listed members' rows. *)
StartReady(u) ==
    /\ At(u, "start.ready")
    /\ Check(u, req[u].roster \subseteq ready[req[u].p], "start.guard")
    /\ UNCHANGED <<groupVars, rowVars, guard, faults>>

(* Mutant: tryStart records without looking. *)
StartGuardBlind(u) ==
    /\ At(u, "start.guard")
    /\ Goto(u, "clear.list")
    /\ guard' = guard \cup {req[u].p}
    /\ UNCHANGED <<groupVars, rowVars, faults>>

(* partyStartGuard.tryStart, under its mutex. *)
StartGuard(u) ==
    LET p == req[u].p IN
    /\ At(u, "start.guard")
    /\ Check(u, p \notin guard, "clear.list")
    /\ guard' = guard \cup {p}
    /\ UNCHANGED <<groupVars, rowVars, faults>>

Abort(u, p) ==
    /\ p \in groups
    /\ Begin(u, New("abort", "abort.roster", p, None))
    /\ UNCHANGED <<groupVars, rowVars, guard, faults>>

AbortRoster(u) ==
    LET p == req[u].p IN
    /\ At(u, "abort.roster")
    /\ guard' = IF u \in Active(p) THEN guard \ {p} ELSE guard
    /\ Finish(u)
    /\ UNCHANGED <<groupVars, rowVars, faults>>

(* The 20 s start window ends.  A request's calls take far less, so none on *)
(* the party that was running when the window opened still is.              *)
GuardExpire(p) ==
    /\ p \in guard
    /\ \A u \in Users : req[u].p # p
    /\ guard' = guard \ {p}
    /\ UNCHANGED <<groupVars, rowVars, req, faults>>

-----------------------------------------------------------------------------
(* Faults: a Nakama call that errors, and a runtime restart. *)

OnError(r) ==
    CASE r.pc \in {"disband.list", "disband.delete"}       -> ThenDisbandError(r)
      [] r.pc = "disband.rows"                             -> [r EXCEPT !.pc = "disband.code"]
      [] r.pc \in {"disband.code", "disband.codeRows"}     -> ThenDisbanded(r)
      [] r.pc \in {"clear.list", "clear.delete"}           -> ThenCleared(r)
      [] r.pc \in {"lead.resolve", "lead.roster", "lead.write", "lead.promote"}
                                                           -> ThenTransferred(r)
      [] r.pc = "leave.rows"                               -> [r EXCEPT !.pc = "lead.resolve"]
      [] r.pc \in {"code.solos", "code.count"}             -> [r EXCEPT !.pc = "clear.list"]
      [] OTHER                                             -> Idle

CallError(u) ==
    LET r == req[u] IN
    /\ r.pc \notin {"idle", "start.guard"}
    /\ faults < MaxFaults
    /\ faults' = faults + 1
    /\ \E q \in IF r.pc = "disband.list" THEN r.solos ELSE {r.q} :
         Become(u, OnError([r EXCEPT !.q = q]))
    /\ UNCHANGED <<groupVars, rowVars, guard>>

RuntimeRestart ==
    /\ faults < MaxFaults
    /\ faults' = faults + 1
    /\ req' = [u \in Users |-> Idle]
    /\ guard' = {}
    /\ UNCHANGED <<groupVars, rowVars>>

-----------------------------------------------------------------------------
Init ==
    /\ groups = {}
    /\ creator = [p \in Parties |-> None]
    /\ edge = [p \in Parties |-> [u \in Users |-> "none"]]
    /\ leader = [p \in Parties |-> None]
    /\ ready = [p \in Parties |-> {}]
    /\ settings = {}
    /\ forward = [c \in Codes |-> None]
    /\ reverse = [p \in Parties |-> None]
    /\ guard = {}
    /\ req = [u \in Users |-> Idle]
    /\ faults = 0

(* A player sends a request. *)
Send(u) ==
    \/ Create(u)
    \/ \E c \in Codes : JoinByCode(u, c)
    \/ \E p \in Parties :
         \/ Join(u, p) \/ Leave(u, p) \/ Disband(u, p)
         \/ SetReady(u, p, "ready") \/ SetReady(u, p, "unready")
         \/ SetSettings(u, p) \/ GetCode(u, p) \/ Start(u, p) \/ Abort(u, p)
         \/ \E t \in Users :
              Invite(u, p, t) \/ Add(u, p, t) \/ Kick(u, p, t) \/ Transfer(u, p, t)

(* The runtime makes the next call of the request in flight. *)
Step(u) ==
    \/ DisbandList(u) \/ DisbandDelete(u) \/ DisbandRows(u) \/ DisbandCode(u)
    \/ DisbandCodeRows(u) \/ ClearList(u) \/ ClearDelete(u)
    \/ LeadResolve(u) \/ LeadRoster(u) \/ LeadWrite(u) \/ LeadPromote(u)
    \/ CreateCount(u) \/ CreateCommit(u)
    \/ InviteRoster(u) \/ InviteTarget(u) \/ InviteAdd(u) \/ InviteRows(u)
    \/ AddTarget(u) \/ AddCommit(u)
    \/ JoinCommit(u) \/ JoinLanded(u) \/ JoinCount(u)
    \/ CodeGroup(u) \/ CodeStale(u) \/ CodeRoster(u) \/ CodeJoiner(u) \/ CodeAdd(u)
    \/ CodeSolos(u) \/ CodeCount(u)
    \/ LeaveRows(u) \/ KickRoster(u) \/ KickCommit(u) \/ KickRows(u)
    \/ TransferRoster(u) \/ TransferWrite(u) \/ TransferPromote(u)
    \/ ReadyWrite(u) \/ SettingsWrite(u)
    \/ GetCodeRead(u) \/ GetCodeForward(u) \/ GetCodeExhausted(u) \/ GetCodeReverse(u)
    \/ StartRoster(u) \/ StartReady(u) \/ StartGuard(u) \/ AbortRoster(u)

Next ==
    \/ \E u \in Users : Send(u) \/ Step(u) \/ CallError(u)
    \/ \E p \in Parties : GuardExpire(p)
    \/ RuntimeRestart

Spec == Init /\ [][Next]_vars

-----------------------------------------------------------------------------
(* Every variable keeps its type. *)
TypeOK ==
    /\ groups \subseteq Parties
    /\ creator \in [Parties -> Users \cup {None}]
    /\ edge \in [Parties -> [Users -> EdgeStates]]
    /\ leader \in [Parties -> Users \cup {None}]
    /\ ready \in [Parties -> SUBSET Users]
    /\ settings \subseteq Parties
    /\ forward \in [Codes -> Parties \cup {None}]
    /\ reverse \in [Parties -> Codes \cup {None}]
    /\ guard \subseteq Parties
    /\ req \in [Users -> Request]
    /\ faults \in 0 .. MaxFaults

(* The join-by-code comment, "one that gained a member since the check above *)
(* is no longer the joiner's alone to end": moving a player into another     *)
(* party never deletes a group that has other active members.                *)
MoveSparesOthers ==
    [][\A u \in Users :
         (At(u, "disband.delete") /\ req[u].op # "disband" /\ req'[u] # req[u])
         => \A p \in groups \ groups' : Active(p) \subseteq {u}]_vars

(* The code a live party hands out leads back to that party, at every moment *)
(* and whatever requests, failures and restarts are going on.                *)
CodeLeadsToParty ==
    \A p \in groups : reverse[p] # None => forward[reverse[p]] = p

(* partyStartGuard "keeps one live start per party": two starts of a party   *)
(* are never past the guard together.                                        *)
OneStartPastGuard ==
    \A u, v \in Users :
        (/\ u # v /\ req[u].op = "start" /\ req[v].op = "start"
         /\ req[u].p = req[v].p)
        => ~({req[u].pc, req[v].pc} \subseteq {"clear.list", "clear.delete"})

=============================================================================
