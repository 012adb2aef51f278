------------------------------ MODULE Account ------------------------------
(***************************************************************************)
(* The life of an account: the deletion request of account.go, the hourly  *)
(* pass of account_cron.go, the sign-in, cancellation and purge of         *)
(* privacy.go, the naming of account_validation.go and display_name.go,    *)
(* the friend codes of friend_code.go and the recent-players rows of       *)
(* recent_players.go.                                                      *)
(*                                                                         *)
(* A request in flight and the cron are processes with a program counter   *)
(* and one action per database statement or Nakama call, so that they      *)
(* interleave where the code lets them.  Every such call may fail; a       *)
(* restart kills all of them.  One statement is atomic.                    *)
(***************************************************************************)
EXTENDS Integers, FiniteSets

CONSTANTS
    Users,          \* accounts that exist at first
    Leaving,        \* those whose players ask for a deletion
    NCodes,         \* friend codes that can be drawn
    NSlots,         \* requests that can be in flight at once
    None,           \* no user, no code
    Rewritten,      \* kinds of rows a player's other requests write again
    Clamps,         \* sign-ins of providers whose hook clamps the stored name, or not
    MaxEvents       \* bound: requests, failed calls and restarts

ASSUME AccountAssumption ==
    /\ Leaving \subseteq Users /\ Clamps \subseteq BOOLEAN
    /\ None \notin Users \cup Nat
    /\ NCodes \in Nat /\ NSlots \in Nat /\ MaxEvents \in Nat

(* What an account leaves in the database.  Nakama deletes the Owned kinds  *)
(* with the account; notifications sent to others it does not.              *)
Owned == {"social", "storage", "activity"}
Kinds == Owned \cup {"sent"}

ASSUME RewrittenAssumption == Rewritten \subseteq Kinds

VARIABLES
    accounts,       \* accounts that exist
    name,           \* display names: none, its own, "[deleted]", "[deleted" (clamped)
    profile,        \* accounts with an avatar or other profile data
    session,        \* none, a session older than the last request, or a fresh one
    queue,          \* deletion queue rows: none, waiting or due
    copies,         \* queue rows that still carry a copy of the profile
    traces,         \* kinds of rows each account has
    forward,        \* friend code -> user rows
    reverse,        \* user -> friend code rows
    recent,         \* recent_players rows: <<owner, other player>>
    proc,           \* the requests and the cron
    todo,           \* what the cron's pass listed and has not handled yet
    answer,         \* the last answer about a deletion each player got
    handed,         \* friend codes handed out since the last purge
    retired,        \* friend codes once deleted
    overtaken,      \* what older requests were still going to do at a cancellation,
                    \* or to answer at the failure of a later request
    dropped,        \* queue row deleted by the cron though the account lives
    strays,         \* users with a code call that was overtaken or cut short
    tainted,        \* users whose last purge failed somewhere or was overlapped
    events          \* requests, failures and restarts so far

accountVars == <<accounts, name, profile, session>>
codeVars == <<forward, reverse, handed, retired, strays>>
queueVars == <<queue, copies, answer, overtaken, dropped>>
vars == <<accountVars, codeVars, queueVars, traces, recent, proc, todo, tainted, events>>

Codes == 1 .. NCodes
Slots == 1 .. NSlots
Cron == 0
Procs == Slots \cup {Cron}
Ops == {"none", "delete", "close", "code", "match", "signin", "refresh", "cron"}
PurgeLabels == {"code.read", "code.delete", "refs", "sent", "account"}
Labels == PurgeLabels \cup
    {"idle", "queue", "scrub", "social", "storage", "activity", "logout", "sockets", "code.look", "code.forward", "code.reverse",
     "users", "write", "check", "refresh", "name.read", "name.write", "enforce",
     "pick", "minimize", "recent", "unqueue"}

Process == [op : Ops, pc : Labels, u : Users \cup {None},
            code : Codes \cup {None},           \* the code read or drawn
            name : {"keep", "own", "clamped"},  \* the name about to be written
            clamps : BOOLEAN,                   \* the provider's hook clamps names
            us : SUBSET Users,                  \* the players of an ended match
            named : SUBSET Users,               \* those of them its rows may name
            missed : SUBSET Kinds]              \* kinds a cascade failed to delete

Idle == [op |-> "none", pc |-> "idle", u |-> None, code |-> None, name |-> "keep",
         clamps |-> FALSE, us |-> {}, named |-> {},
         missed |-> {}]

At(p, pc) == proc[p].pc = pc
Goto(p, pc) == proc' = [proc EXCEPT ![p].pc = pc]
Stop(p) == proc' = [proc EXCEPT ![p] = Idle]
InBound == events < MaxEvents /\ events' = events + 1

Fault == InBound

Purging(u) == \E p \in Procs : proc[p].u = u /\ proc[p].pc \in PurgeLabels
CodeCalls(u) == {p \in Slots : proc[p].op = "code" /\ proc[p].u = u}
Writing(u) == CodeCalls(u) # {} \/ \E p \in Slots : u \in proc[p].us

-----------------------------------------------------------------------------
(* Requests begin. *)

Begin(p, r) ==
    /\ p \in Slots /\ At(p, "idle")
    /\ \A q \in 1 .. p - 1 : ~At(q, "idle")       \* slots are alike: the first free one
    /\ InBound
    /\ proc' = [proc EXCEPT ![p] = r]

(* RPCs of a player with a session. *)
DeleteBegin(p, u) ==
    /\ session[u] # "none" /\ u \in Leaving
    /\ Begin(p, [Idle EXCEPT !.op = "delete", !.u = u, !.pc = "queue"])
    /\ UNCHANGED <<accountVars, codeVars, queueVars, traces, recent, todo, tainted>>

CodeBegin(p, u) ==
    /\ session[u] # "none"
    /\ Begin(p, [Idle EXCEPT !.op = "code", !.u = u, !.pc = "code.look"])
    /\ tainted' = IF Purging(u) THEN tainted \cup {u} ELSE tainted
    /\ UNCHANGED <<accountVars, codeVars, queueVars, traces, recent, todo>>

(* A game server reports a match of the players us.  A player may have been *)
(* deleted since the match began.                                           *)
MatchBegin(p, us) ==
    /\ Cardinality(us) >= 2
    /\ Begin(p, [Idle EXCEPT !.op = "match", !.us = us, !.pc = "users"])
    /\ tainted' = tainted \cup {u \in us : Purging(u)}
    /\ UNCHANGED <<accountVars, codeVars, queueVars, traces, recent, todo>>

(* Nakama signs the player in: it refills an empty avatar from the          *)
(* provider's profile before the after-authenticate hook runs.              *)
SignInBegin(p, u, clamps) ==
    /\ u \in accounts \cap Leaving
    /\ Begin(p, [Idle EXCEPT !.op = "signin", !.u = u, !.clamps = clamps,
                             !.pc = "name.read"])
    /\ session' = [session EXCEPT ![u] = "fresh"]
    /\ profile' = profile \cup {u}
    /\ UNCHANGED <<accounts, name, codeVars, queueVars, traces, recent, todo, tainted>>

RefreshBegin(p, u) ==
    /\ session[u] # "none" /\ u \in Leaving
    /\ Begin(p, [Idle EXCEPT !.op = "refresh", !.u = u, !.pc = "check"])
    /\ UNCHANGED <<accountVars, codeVars, queueVars, traces, recent, todo, tainted>>

(* Requests whose code is elsewhere: one that writes a row of a kind the    *)
(* deletion clears, and Nakama's own UpdateAccount, whose hook refuses the  *)
(* reserved name.                                                           *)
PlayerWrites(u) ==
    /\ session[u] # "none" /\ u \in Leaving
    /\ \E k \in Rewritten \ traces[u] :
         /\ traces' = [traces EXCEPT ![u] = @ \cup {k}]
         /\ tainted' = IF Purging(u) /\ k = "sent" THEN tainted \cup {u} ELSE tainted
    /\ InBound
    /\ UNCHANGED <<accountVars, codeVars, queueVars, recent, proc, todo>>

UpdateAccount(u) ==
    /\ session[u] # "none" /\ u \in Leaving
    /\ name' = [name EXCEPT ![u] = "own"]
    /\ InBound
    /\ UNCHANGED <<accounts, profile, session, codeVars, queueVars, traces, recent, proc,
                   todo, tainted>>

-----------------------------------------------------------------------------
(* The deletion request. *)

(* The queue row is the one write a request fails on: it replaces a row     *)
(* that is there.                                                           *)
QueueDeletion(p) ==
    LET u == proc[p].u IN
    /\ At(p, "queue")
    /\ \/ /\ u \in accounts
          /\ Goto(p, "scrub")
          /\ queue' = [queue EXCEPT ![u] = "waiting"]
          /\ copies' = copies \ {u}
          /\ answer' = [answer EXCEPT ![u] = "none"]
          /\ session' = [session EXCEPT ![u] = IF @ = "none" THEN @ ELSE "old"]
          /\ overtaken' = overtaken \ ({u} \X {"name", "answer", "session"})
          /\ dropped' = dropped \ {u}
          /\ UNCHANGED events
       \/ /\ IF u \in accounts THEN Fault ELSE UNCHANGED events
          /\ Stop(p)
          /\ answer' = [answer EXCEPT ![u] = "none"]
          /\ UNCHANGED <<queue, copies, overtaken, dropped, session>>
    /\ UNCHANGED <<accounts, name, profile, codeVars, traces, recent, todo, tainted>>

(* The request's own scrub does not look at the queue row. *)
ScrubProfile(p) ==
    LET u == proc[p].u IN
    /\ At(p, "scrub")
    /\ Goto(p, "social")
    /\ \/ /\ name' = IF u \in accounts THEN [name EXCEPT ![u] = "deleted"] ELSE name
          /\ profile' = profile \ {u}
          /\ UNCHANGED events
       \/ Fault /\ UNCHANGED <<name, profile>>
    /\ UNCHANGED <<accounts, session, codeVars, queueVars, traces, recent, todo, tainted>>

(* A best-effort step of the cascade deletes the player's rows of some      *)
(* kinds, or fails and is logged.                                           *)
Clears(p, at, kinds, next) ==
    LET u == proc[p].u IN
    /\ At(p, at)
    /\ \/ /\ Goto(p, next)
          /\ traces' = [traces EXCEPT ![u] = @ \ kinds]
          /\ UNCHANGED events
       \/ /\ Fault
          /\ proc' = [proc EXCEPT ![p].pc = next, ![p].missed = @ \cup kinds]
          /\ UNCHANGED traces
    /\ UNCHANGED <<accountVars, codeVars, queueVars, recent, todo>>

(* The friends, the groups, the presence rows and the board records: a call *)
(* each, and any of them may fail.                                          *)
DeleteSocial(p) == Clears(p, "social", {"social"}, "storage") /\ UNCHANGED tainted
DeleteActivity(p) == Clears(p, "activity", {"activity"}, "logout") /\ UNCHANGED tainted

(* A purge begins; a call that is already about to write a row naming the   *)
(* player may write it after the purge has passed.                          *)
PurgeBegins(u) == tainted' = IF Writing(u) THEN tainted \cup {u} ELSE tainted \ {u}

(* All rows the player owns but the queue row, their own recent-players     *)
(* list among them.                                                         *)
ScrubStorage(p) ==
    LET u == proc[p].u IN
    /\ At(p, "storage")
    /\ \/ /\ Goto(p, "code.read")
          /\ traces' = [traces EXCEPT ![u] = @ \ {"storage"}]
          /\ recent' = {r \in recent : r[1] # u}
          /\ UNCHANGED events
       \/ /\ Fault
          /\ proc' = [proc EXCEPT ![p].pc = "code.read", ![p].missed = @ \cup {"storage"}]
          /\ UNCHANGED <<traces, recent>>
    /\ PurgeBegins(u)
    /\ UNCHANGED <<accountVars, codeVars, queueVars, todo>>

(* A request of the player's has revoked the sessions and has yet to answer. *)
LoggedOut(u) == \E p \in Slots : proc[p].u = u /\ At(p, "sockets")

LogOut(p) ==
    LET u == proc[p].u IN
    /\ At(p, "logout")
    /\ \/ /\ Goto(p, "sockets")
          /\ session' = [session EXCEPT ![u] = "none"]
          /\ UNCHANGED <<answer, overtaken, events>>
       \/ /\ Fault /\ Stop(p)
          /\ answer' = [answer EXCEPT ![u] = "none"]
          /\ overtaken' = IF LoggedOut(u) THEN overtaken \cup {<<u, "session">>} ELSE overtaken
          /\ UNCHANGED session
    /\ UNCHANGED <<accounts, name, profile, codeVars, queue, copies, dropped, traces, recent,
                   todo, tainted>>

Disconnect(p) ==
    LET u == proc[p].u IN
    /\ At(p, "sockets")
    /\ Stop(p)
    /\ \/ answer' = [answer EXCEPT ![u] = "scheduled"] /\ UNCHANGED events
       \/ Fault /\ answer' = [answer EXCEPT ![u] = "none"]
    /\ UNCHANGED <<accountVars, codeVars, queue, copies, overtaken, dropped, traces, recent,
                   todo, tainted>>

(* What requests older than a cancellation are still going to do: store the *)
(* name of a pending deletion, answer that the deletion is scheduled.       *)
Late(u) ==
    LET mine == {p \in Slots : proc[p].u = u} IN
    {what \in {"name", "answer"} :
       \/ /\ what = "name"
          /\ name[u] = "clamped" \/ \E p \in mine : At(p, "scrub") \/ proc[p].name = "clamped"
       \/ what = "answer" /\ \E p \in mine : proc[p].op = "delete" /\ ~At(p, "queue")}

(* cancel_account_deletion, one transaction.  A request that finds no row   *)
(* is refused and changes nothing.                                          *)
Cancel(u) ==
    /\ session[u] # "none" /\ queue[u] # "none"
    /\ InBound
    /\ queue' = [queue EXCEPT ![u] = "none"]
    /\ copies' = copies \ {u}
    /\ name' = IF name[u] = "deleted" THEN [name EXCEPT ![u] = "none"] ELSE name
    /\ answer' = [answer EXCEPT ![u] = "kept"]
    /\ overtaken' = overtaken \cup {u} \X Late(u)
    /\ UNCHANGED <<accounts, profile, session, codeVars, dropped, traces, recent, proc, todo,
                   tainted>>

GraceEnds(u) ==
    /\ queue[u] = "waiting"
    /\ queue' = [queue EXCEPT ![u] = "due"]
    /\ UNCHANGED <<accountVars, codeVars, copies, answer, overtaken, dropped, traces, recent,
                   proc, todo, tainted, events>>

-----------------------------------------------------------------------------
(* purgeUserReferences, inside a request, a pass or an immediate deletion. *)

CodeRead(p) ==
    LET u == proc[p].u IN
    /\ At(p, "code.read")
    /\ \/ /\ proc' = [proc EXCEPT ![p].pc = "code.delete", ![p].code = reverse[u]]
          /\ UNCHANGED <<events, tainted>>
       \/ Fault /\ Goto(p, "refs") /\ tainted' = tainted \cup {u}
    /\ UNCHANGED <<accountVars, codeVars, queueVars, traces, recent, todo>>

(* One batch: the player's row, and the row of the code that was read. *)
CodeDelete(p) ==
    LET u == proc[p].u
        c == proc[p].code IN
    /\ At(p, "code.delete")
    /\ proc' = [proc EXCEPT ![p].pc = "refs", ![p].code = None]
    /\ \/ /\ reverse' = [reverse EXCEPT ![u] = None]
          /\ forward' = IF c = None THEN forward ELSE [forward EXCEPT ![c] = None]
          /\ handed' = [handed EXCEPT ![u] = {}]
          /\ retired' = retired \cup ({c} \ {None})
          /\ strays' = IF reverse[u] \notin {c, None} THEN strays \cup {u} ELSE strays
          /\ UNCHANGED <<events, tainted>>
       \/ Fault /\ tainted' = tainted \cup {u} /\ UNCHANGED codeVars
    /\ UNCHANGED <<accountVars, queueVars, traces, recent, todo>>

(* Mutant: the rows of the player's own list go instead. *)
DeleteOwnRefs(p) ==
    LET u == proc[p].u IN
    /\ At(p, "refs")
    /\ Goto(p, "sent")
    /\ recent' = {r \in recent : r[1] # u}
    /\ UNCHANGED <<accountVars, codeVars, queueVars, traces, todo, tainted, events>>

DeleteRefs(p) ==
    LET u == proc[p].u IN
    /\ At(p, "refs")
    /\ Goto(p, "sent")
    /\ \/ recent' = {r \in recent : r[2] # u} /\ UNCHANGED <<events, tainted>>
       \/ Fault /\ tainted' = tainted \cup {u} /\ UNCHANGED recent
    /\ UNCHANGED <<accountVars, codeVars, queueVars, traces, todo>>

AfterPurge(op) ==
    CASE op = "delete" -> "activity"
      [] op = "cron" -> "account"
      [] op = "close" -> "idle"

DeleteSent(p) ==
    LET u == proc[p].u
        next == AfterPurge(proc[p].op) IN
    /\ At(p, "sent")
    /\ \/ /\ IF next = "idle" THEN Stop(p) ELSE Goto(p, next)
          /\ traces' = [traces EXCEPT ![u] = @ \ {"sent"}]
          /\ UNCHANGED <<events, tainted>>
       \/ /\ Fault
          /\ IF next = "idle" THEN Stop(p)
             ELSE proc' = [proc EXCEPT ![p].pc = next, ![p].missed = @ \cup {"sent"}]
          /\ tainted' = tainted \cup {u}
          /\ UNCHANGED traces
    /\ UNCHANGED <<accountVars, codeVars, queueVars, recent, todo>>

(* Nakama deletes an account with every row it owns, and ends its sessions. *)
Erase(u) ==
    /\ accounts' = accounts \ {u}
    /\ name' = [name EXCEPT ![u] = "none"]
    /\ profile' = profile \ {u}
    /\ session' = [session EXCEPT ![u] = "none"]
    /\ queue' = [queue EXCEPT ![u] = "none"]
    /\ copies' = copies \ {u}
    /\ traces' = [traces EXCEPT ![u] = @ \ Owned]
    /\ recent' = {r \in recent : r[1] # u}

(* The player's own immediate deletion: Nakama erases the account, and the  *)
(* after-hook purges what names it.                                         *)
Close(p, u) ==
    /\ session[u] # "none" /\ u \in Leaving
    /\ Begin(p, [Idle EXCEPT !.op = "close", !.u = u, !.pc = "code.read"])
    /\ Erase(u)
    /\ PurgeBegins(u)
    /\ UNCHANGED <<codeVars, answer, overtaken, dropped, todo>>

-----------------------------------------------------------------------------
(* get_friend_code. *)

(* Mutant: a row that holds no code is taken for one that does. *)
CodeLookEmpty(p) ==
    LET u == proc[p].u IN
    /\ At(p, "code.look")
    /\ handed' = [handed EXCEPT ![u] = @ \cup {reverse[u]}]
    /\ Stop(p)
    /\ UNCHANGED <<accountVars, forward, reverse, retired, strays, queueVars, traces, recent,
                   todo, tainted, events>>

CodeLook(p) ==
    LET u == proc[p].u IN
    /\ At(p, "code.look")
    /\ \/ /\ reverse[u] # None
          /\ handed' = [handed EXCEPT ![u] = @ \cup {reverse[u]}]
          /\ Stop(p)
          /\ UNCHANGED events
       \/ reverse[u] = None /\ Goto(p, "code.forward") /\ UNCHANGED <<events, handed>>
       \/ Fault /\ Stop(p) /\ UNCHANGED handed
    /\ UNCHANGED <<accountVars, forward, reverse, retired, strays, queueVars, traces, recent,
                   todo, tainted>>

(* Mutant: the write has no version check and takes a code that is in use. *)
CodeForwardTakes(p) ==
    LET u == proc[p].u IN
    /\ At(p, "code.forward")
    /\ \E c \in Codes \ retired :
         /\ forward' = [forward EXCEPT ![c] = u]
         /\ proc' = [proc EXCEPT ![p].pc = "code.reverse", ![p].code = c]
    /\ strays' = IF reverse[u] # None \/ \E q \in CodeCalls(u) : At(q, "code.reverse")
                 THEN strays \cup {u} ELSE strays
    /\ UNCHANGED <<accountVars, reverse, handed, retired, queueVars, traces, recent, todo,
                   tainted, events>>

(* A code that was never drawn: there are 32^8, and one is not drawn twice.  *)
FreeCode(c) == forward[c] = None /\ c \notin retired

(* A code is drawn and its row written if there is none; a code that is in  *)
(* use is drawn again.  Codes are alike: the first free one is drawn.       *)
CodeForward(p) ==
    LET u == proc[p].u IN
    /\ At(p, "code.forward")
    /\ \/ /\ \E c \in Codes :
               /\ FreeCode(c) /\ \A d \in 1 .. c - 1 : ~FreeCode(d)
               /\ forward' = [forward EXCEPT ![c] = u]
               /\ proc' = [proc EXCEPT ![p].pc = "code.reverse", ![p].code = c]
          /\ strays' = IF reverse[u] # None \/ \E q \in CodeCalls(u) : At(q, "code.reverse")
                       THEN strays \cup {u} ELSE strays
          /\ UNCHANGED events
       \/ Fault /\ Stop(p) /\ UNCHANGED <<forward, strays>>
       \/ /\ \A c \in Codes : ~FreeCode(c)             \* bound: no code is left
          /\ Stop(p)
          /\ UNCHANGED <<forward, strays, events>>
    /\ UNCHANGED <<accountVars, reverse, handed, retired, queueVars, traces, recent, todo,
                   tainted>>

CodeReverse(p) ==
    LET u == proc[p].u
        c == proc[p].code IN
    /\ At(p, "code.reverse")
    /\ Stop(p)
    /\ \/ /\ reverse' = [reverse EXCEPT ![u] = c]
          /\ handed' = [handed EXCEPT ![u] = @ \cup {c}]
          /\ UNCHANGED <<strays, events>>
       \/ Fault /\ strays' = strays \cup {u} /\ UNCHANGED <<reverse, handed>>
    /\ UNCHANGED <<accountVars, forward, retired, queueVars, traces, recent, todo, tainted>>

-----------------------------------------------------------------------------
(* The recent-players rows of an ended match. *)

MatchUsers(p) ==
    /\ At(p, "users")
    /\ \/ /\ proc' = [proc EXCEPT ![p].pc = "write",
                                  ![p].named = {u \in proc[p].us \cap accounts :
                                                  name[u] # "deleted"}]
          /\ UNCHANGED events
       \/ Fault /\ Stop(p)
    /\ UNCHANGED <<accountVars, codeVars, queueVars, traces, recent, todo, tainted>>

(* One batch: a player of the match who is gone owns no row, and the whole  *)
(* batch fails.                                                             *)
MatchWrite(p) ==
    LET rows == {r \in proc[p].us \X proc[p].named : r[1] # r[2]} IN
    /\ At(p, "write")
    /\ Stop(p)
    /\ IF \A r \in rows : r[1] \in accounts
       THEN \/ recent' = recent \cup rows /\ UNCHANGED events
            \/ Fault /\ UNCHANGED recent
       ELSE UNCHANGED <<recent, events>>
    /\ UNCHANGED <<accountVars, codeVars, queueVars, traces, todo, tainted>>

-----------------------------------------------------------------------------
(* Sign-in and session refresh. *)

(* The before-hook: an account with a queued deletion is refused, a failed  *)
(* read lets it through.                                                    *)
RefreshCheck(p) ==
    /\ At(p, "check")
    /\ \/ /\ IF queue[proc[p].u] # "none" THEN Stop(p) ELSE Goto(p, "refresh")
          /\ UNCHANGED events
       \/ Fault /\ Goto(p, "refresh")
    /\ UNCHANGED <<accountVars, codeVars, queueVars, traces, recent, todo, tainted>>

(* Nakama refuses a token that was revoked. *)
Refresh(p) ==
    /\ At(p, "refresh")
    /\ IF session[proc[p].u] = "none" THEN Stop(p) ELSE Goto(p, "name.read")
    /\ UNCHANGED <<accountVars, codeVars, queueVars, traces, recent, todo, tainted, events>>

(* The name an after-hook is going to store.  clampDisplayName takes the    *)
(* reserved name's last character away; no name at all becomes a generated  *)
(* one.                                                                     *)
NewName(u, clamps) ==
    CASE name[u] = "none" -> "own"
      [] name[u] = "deleted" /\ clamps -> "clamped"
      [] OTHER -> "keep"

NameRead(p) ==
    LET u == proc[p].u
        new == NewName(u, proc[p].clamps) IN
    /\ At(p, "name.read")
    /\ \/ /\ u \in accounts /\ new # "keep"
          /\ proc' = [proc EXCEPT ![p].pc = "name.write", ![p].name = new]
          /\ UNCHANGED events
       \/ (u \notin accounts \/ new = "keep") /\ Goto(p, "enforce") /\ UNCHANGED events
       \/ Fault /\ Goto(p, "enforce")
    /\ UNCHANGED <<accountVars, codeVars, queueVars, traces, recent, todo, tainted>>

NameWrite(p) ==
    LET u == proc[p].u IN
    /\ At(p, "name.write")
    /\ proc' = [proc EXCEPT ![p].pc = "enforce", ![p].name = "keep"]
    /\ \/ /\ name' = IF u \in accounts THEN [name EXCEPT ![u] = proc[p].name] ELSE name
          /\ UNCHANGED events
       \/ Fault /\ UNCHANGED name
    /\ UNCHANGED <<accounts, profile, session, codeVars, queueVars, traces, recent, todo,
                   tainted>>

AfterEnforce(p) == IF p = Cron THEN Goto(p, "minimize") ELSE Stop(p)

(* Mutant: the pending check is made before, in a statement of its own. *)
EnforceUnchecked(p) ==
    LET u == proc[p].u IN
    /\ At(p, "enforce")
    /\ AfterEnforce(p)
    /\ name' = IF u \in accounts THEN [name EXCEPT ![u] = "deleted"] ELSE name
    /\ profile' = profile \ {u}
    /\ UNCHANGED <<accounts, session, codeVars, queueVars, traces, recent, todo, tainted, events>>

(* Mutant: only the name is re-applied. *)
EnforceName(p) ==
    LET u == proc[p].u IN
    /\ At(p, "enforce")
    /\ AfterEnforce(p)
    /\ name' = IF queue[u] # "none" THEN [name EXCEPT ![u] = "deleted"] ELSE name
    /\ UNCHANGED <<accounts, profile, session, codeVars, queueVars, traces, recent, todo,
                   tainted, events>>

(* enforcePendingDeletionProfile: the pending check and the scrub are one   *)
(* statement.                                                               *)
EnforceProfile(p) ==
    LET u == proc[p].u IN
    /\ At(p, "enforce")
    /\ AfterEnforce(p)
    /\ \/ /\ IF queue[u] # "none"
             THEN /\ name' = [name EXCEPT ![u] = "deleted"]
                  /\ profile' = profile \ {u}
             ELSE UNCHANGED <<name, profile>>
          /\ UNCHANGED events
       \/ Fault /\ UNCHANGED <<name, profile>>
    /\ UNCHANGED <<accounts, session, codeVars, queueVars, traces, recent, todo, tainted>>

-----------------------------------------------------------------------------
(* The account cron. *)

(* A pass lists the whole queue; it runs at boot and every hour.  One that   *)
(* finds it empty changes nothing.                                           *)
ListQueue ==
    /\ At(Cron, "idle")
    /\ \E u \in Users : queue[u] # "none"
    /\ \/ /\ todo' = queue
          /\ proc' = [proc EXCEPT ![Cron] = [Idle EXCEPT !.op = "cron", !.pc = "pick"]]
          /\ UNCHANGED events
       \/ Fault /\ UNCHANGED <<todo, proc>>
    /\ UNCHANGED <<accountVars, codeVars, queueVars, traces, recent, tainted>>

PickTo(u, pc) ==
    /\ At(Cron, "pick")
    /\ proc' = [proc EXCEPT ![Cron].pc = pc, ![Cron].u = u]
    /\ todo' = [todo EXCEPT ![u] = "none"]

(* Mutant: every listed account is deleted. *)
PickDeleteAny(u) ==
    /\ todo[u] # "none"
    /\ PickTo(u, "code.read")
    /\ PurgeBegins(u)
    /\ UNCHANGED <<accountVars, codeVars, queueVars, traces, recent, events>>

PickDelete(u) ==
    /\ todo[u] = "due"
    /\ PickTo(u, "code.read")
    /\ PurgeBegins(u)
    /\ UNCHANGED <<accountVars, codeVars, queueVars, traces, recent, events>>

PickKeepClear(u) ==
    /\ todo[u] = "waiting"
    /\ PickTo(u, "enforce")
    /\ UNCHANGED <<accountVars, codeVars, queueVars, traces, recent, tainted, events>>

PassEnds ==
    /\ At(Cron, "pick")
    /\ \A u \in Users : todo[u] = "none"
    /\ Stop(Cron)
    /\ UNCHANGED <<accountVars, codeVars, queueVars, traces, recent, todo, tainted, events>>

(* minimizeDeletionQueueRow *)
Minimize ==
    /\ At(Cron, "minimize")
    /\ Goto(Cron, "recent")
    /\ \/ copies' = copies \ {proc[Cron].u} /\ UNCHANGED events
       \/ Fault /\ UNCHANGED copies
    /\ UNCHANGED <<accountVars, codeVars, queue, answer, overtaken, dropped, traces, recent,
                   todo, tainted>>

KeepRefsClear ==
    /\ At(Cron, "recent")
    /\ proc' = [proc EXCEPT ![Cron].pc = "pick", ![Cron].u = None]
    /\ \/ recent' = {r \in recent : r[2] # proc[Cron].u} /\ UNCHANGED events
       \/ Fault /\ UNCHANGED recent
    /\ UNCHANGED <<accountVars, codeVars, queueVars, traces, todo, tainted>>

(* AccountDeleteId; a failure is logged and the pass goes on. *)
DeleteAccount ==
    LET u == proc[Cron].u IN
    /\ At(Cron, "account")
    /\ Goto(Cron, "unqueue")
    /\ \/ Erase(u) /\ UNCHANGED events
       \/ Fault /\ UNCHANGED <<accountVars, queue, copies, traces, recent>>
    /\ UNCHANGED <<codeVars, answer, overtaken, dropped, todo, tainted>>

(* The queue row goes even when the account could not be deleted. *)
Unqueue ==
    LET u == proc[Cron].u IN
    /\ At(Cron, "unqueue")
    /\ proc' = [proc EXCEPT ![Cron].pc = "pick", ![Cron].u = None]
    /\ \/ /\ queue' = [queue EXCEPT ![u] = "none"]
          /\ copies' = copies \ {u}
          /\ dropped' = IF u \in accounts THEN dropped \cup {u} ELSE dropped
          /\ UNCHANGED events
       \/ Fault /\ UNCHANGED <<queue, copies, dropped>>
    /\ UNCHANGED <<accountVars, codeVars, answer, overtaken, traces, recent, todo, tainted>>

Restart ==
    /\ \E p \in Procs : ~At(p, "idle")
    /\ Fault
    /\ proc' = [p \in Procs |-> Idle]
    /\ todo' = [u \in Users |-> "none"]
    /\ tainted' = tainted \cup {u \in Users : Purging(u)}
    /\ strays' = strays \cup {u \in Users : \E p \in CodeCalls(u) : At(p, "code.reverse")}
    /\ answer' = [u \in Users |-> IF \E p \in Slots : proc[p].op = "delete" /\ proc[p].u = u
                                  THEN "none" ELSE answer[u]]
    /\ UNCHANGED <<accountVars, forward, reverse, handed, retired, queue, copies, overtaken,
                   dropped, traces, recent>>

-----------------------------------------------------------------------------
(* Every account starts with rows of every kind.  An account may have been  *)
(* queued before the project stopped keeping a copy of the profile there.   *)
Init ==
    /\ accounts = Users
    /\ queue \in [Users -> {"none", "waiting"}]
    /\ \A u \in Users \ Leaving : queue[u] = "none"
    /\ copies = {u \in Users : queue[u] = "waiting"}
    /\ name = [u \in Users |-> IF u \in copies THEN "deleted" ELSE "own"]
    /\ profile = Users \ copies
    /\ session = [u \in Users |-> "fresh"]
    /\ traces = [u \in Users |-> IF u \in copies THEN {} ELSE Kinds]
    /\ forward = [c \in Codes |-> None]
    /\ reverse = [u \in Users |-> None]
    /\ recent = {}
    /\ proc = [p \in Procs |-> Idle]
    /\ todo = [u \in Users |-> "none"]
    /\ answer = [u \in Users |-> IF u \in copies THEN "scheduled" ELSE "none"]
    /\ handed = [u \in Users |-> {}]
    /\ retired = {} /\ overtaken = {} /\ dropped = {} /\ strays = {} /\ tainted = {}
    /\ events = 0

Requests(p) ==
    \/ \E u \in Users :
         \/ DeleteBegin(p, u) \/ CodeBegin(p, u) \/ RefreshBegin(p, u) \/ Close(p, u)
         \/ \E clamps \in Clamps : SignInBegin(p, u, clamps)
    \/ \E us \in SUBSET Users : MatchBegin(p, us)

RequestSteps(p) ==
    \/ QueueDeletion(p) \/ ScrubProfile(p) \/ DeleteSocial(p)
    \/ ScrubStorage(p) \/ DeleteActivity(p)
    \/ LogOut(p) \/ Disconnect(p)
    \/ CodeLook(p) \/ CodeForward(p) \/ CodeReverse(p)
    \/ MatchUsers(p) \/ MatchWrite(p)
    \/ RefreshCheck(p) \/ Refresh(p) \/ NameRead(p) \/ NameWrite(p)

(* Steps of the purge and of the enforcement, which the cron takes too. *)
SharedSteps(p) ==
    CodeRead(p) \/ CodeDelete(p) \/ DeleteRefs(p) \/ DeleteSent(p) \/ EnforceProfile(p)

CronSteps ==
    \/ ListQueue \/ PassEnds
    \/ \E u \in Users : PickDelete(u) \/ PickKeepClear(u)
    \/ Minimize \/ KeepRefsClear \/ DeleteAccount \/ Unqueue

Next ==
    \/ \E p \in Slots : Requests(p) \/ RequestSteps(p)
    \/ \E p \in Procs : SharedSteps(p)
    \/ CronSteps
    \/ \E u \in Users : PlayerWrites(u) \/ UpdateAccount(u) \/ Cancel(u) \/ GraceEnds(u)
    \/ Restart

Spec == Init /\ [][Next]_vars

(* The cron is a goroutine of its own: a pass that can take a step takes it. *)
FairSpec == Spec /\ WF_vars(CronSteps \/ SharedSteps(Cron))

-----------------------------------------------------------------------------
(* Properties *)

AccountTypeOK ==
    /\ accounts \subseteq Users
    /\ name \in [Users -> {"none", "own", "deleted", "clamped"}]
    /\ profile \subseteq Users
    /\ session \in [Users -> {"none", "old", "fresh"}]
    /\ queue \in [Users -> {"none", "waiting", "due"}]
    /\ copies \subseteq Users
    /\ traces \in [Users -> SUBSET Kinds]
    /\ forward \in [Codes -> Users \cup {None}]
    /\ reverse \in [Users -> Codes \cup {None}]
    /\ recent \subseteq Users \X Users
    /\ proc \in [Procs -> Process]
    /\ todo \in [Users -> {"none", "waiting", "due"}]
    /\ answer \in [Users -> {"none", "scheduled", "kept"}]
    /\ handed \in [Users -> SUBSET Codes]
    /\ retired \subseteq Codes
    /\ overtaken \subseteq Users \X {"name", "answer", "session"}
    /\ dropped \subseteq Users /\ strays \subseteq Users /\ tainted \subseteq Users
    /\ events \in 0 .. MaxEvents

(* What is said of a deletion is what the queue holds.  Only an account     *)
(* whose deletion is pending is shown as deleted: a cancellation clears the *)
(* marker "so the player doesn't look deleted to everyone" (account.go:705) *)
(* and a scrub in flight does not bring it back (privacy.go:91).  A player  *)
(* whose last answer was that the deletion is scheduled has a row ("the     *)
(* queue record from step 1 stays either way for the cron", account.go:385) *)
(* or is gone.  Excepted: a request's own scrub and a sign-in's clamp,      *)
(* which do not look at the queue, and an answer, when a cancellation       *)
(* overtook them, and an account the cron failed to delete.  And "a delete  *)
(* that leaves a working session behind has not taken effect" (:383): once  *)
(* a request has answered ok, the sessions from before it are gone, through *)
(* refreshes and requests that overlap, but for the sessions between two    *)
(* requests of which the later failed before the earlier answered.          *)
SaidIsQueued ==
    \A u \in accounts :
      /\ name[u] \in {"deleted", "clamped"} =>
           queue[u] # "none" \/ <<u, "name">> \in overtaken \/ u \in dropped
      /\ answer[u] = "scheduled" =>
           /\ queue[u] # "none" \/ <<u, "answer">> \in overtaken \/ u \in dropped
           /\ (\A p \in Slots : proc[p].op = "delete" => proc[p].u # u) /\ session[u] = "old"
                => <<u, "session">> \in overtaken

(* The code a player was given leads back to that player, whatever first    *)
(* calls, purges and restarts overlap (friend_code.go:97, the version check *)
(* "which would otherwise steal another account's code"), and "every later  *)
(* call returns the same code" (:67), between two purges and unless two     *)
(* first calls overlap or one is cut short.                                 *)
CodeNamesOwner ==
    /\ \A u \in Users : reverse[u] # None => forward[reverse[u]] = u
    /\ \A u \in accounts \ strays : Cardinality(handed[u]) <= 1

NoRowNames(u) ==
    /\ u \notin strays => \A c \in Codes : forward[c] # u
    /\ reverse[u] = None
    /\ \A r \in recent : r[2] # u
    /\ traces[u] = {}

(* "Nothing names a deleted player" (privacy.go:28) once the purge of the   *)
(* hard or the immediate delete is through, unless one of its steps failed, *)
(* or a call that writes such a row overlapped it.  The request's cascade   *)
(* already leaves only rows whose deletion failed and those the player      *)
(* wrote again ("every user-owned game-side storage row survived the        *)
(* cascade" was a bug, account.go:343).                                     *)
DeletedNamedByNoRow ==
    /\ \A u \in Users \ accounts : ~Purging(u) /\ u \notin tainted => NoRowNames(u)
    /\ \A p \in Slots :
         proc[p].op = "delete" /\ At(p, "logout")
           => traces[proc[p].u] \subseteq proc[p].missed \cup Rewritten

(* "A pending deletion keeps its profile clear" (privacy.go:24): what a     *)
(* sign-in or a failed step left on a pending account, and the profile      *)
(* copy of an old queue row, goes while the deletion is pending.  And an    *)
(* account whose grace period is over is deleted, or its row has gone: the  *)
(* pass is repeated, a restart runs one at boot.                            *)
PendingEnds ==
    \A u \in Leaving :
      /\ (queue[u] = "waiting" /\ (u \in profile \cup copies \/ name[u] # "deleted"))
           ~> (queue[u] # "waiting" \/ (u \notin profile \cup copies /\ name[u] = "deleted"))
      /\ queue[u] = "due" ~> queue[u] # "due"

(* A pass that has listed an account deletes it whatever happens to the row *)
(* since: until it is through, the account is doomed.                       *)
Doomed(u) ==
    \/ todo[u] = "due"
    \/ proc[Cron].u = u /\ proc[Cron].pc \in PurgeLabels \cup {"unqueue"}

Stage(u) ==
    IF u \notin accounts THEN "gone"
    ELSE IF Doomed(u) THEN "doomed"
    ELSE IF queue[u] = "none" THEN "live" ELSE queue[u]

lifeBar == [u \in Users |-> Stage(u)]

Life == INSTANCE AccountLife WITH life <- lifeBar

(* Only an account that a pass found due is deleted by the platform.        *)
OnlyDueDeleted == Life!Spec
=============================================================================
