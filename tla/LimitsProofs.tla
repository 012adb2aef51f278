---------------------------- MODULE LimitsProofs ----------------------------
(***************************************************************************)
(* Theorems about Limits: its types, the sliding windows, the daily        *)
(* counters, the block check and the cap on pending friend requests hold   *)
(* for any players, limits, windows and number of requests in flight.      *)
(***************************************************************************)
EXTENDS Limits, FiniteSetTheorems, TLAPS

-----------------------------------------------------------------------------
(* Windows.  The stale stamps are a prefix, and what is left is in order.   *)

LEMMA WindowIsNat ==
    ASSUME NEW k \in Kinds
    PROVE  Window[k] \in Nat /\ Limit[k] \in Nat \ {0}
BY LimitsAssumption DEF LimitsAssumption, Window, Limit, Kinds

LEMMA LeastNat ==
    ASSUME NEW n \in Nat, NEW S, S \subseteq 0 .. n, S # {}
    PROVE  \E i \in S : \A j \in S : i <= j
<1> DEFINE Upto(i) == {j \in S : j <= i}
<1> DEFINE T == {Upto(i) : i \in S}
<1> DEFINE R == StrictSubsetOrdering(S)
<1>1. IsFiniteSet(S)
    <2>1. 0 \in Int /\ n \in Int
        OBVIOUS
    <2>2. IsFiniteSet(0 .. n)
        BY <2>1, FS_Interval
    <2>3. S \in SUBSET (0 .. n)
        OBVIOUS
    <2>4. QED
        BY <2>2, <2>3, FS_Subset
<1>2. IsWellFoundedOn(R, SUBSET S)
    BY <1>1, FS_StrictSubsetOrderingWellFounded, FS_FiniteSubsetsOfFinite
<1>3. T \subseteq SUBSET S /\ T # {}
    OBVIOUS
<1>4. PICK X \in T : \A Y \in T : ~ (<<Y, X>> \in R)
    <2> HIDE DEF T, R
    <2>1. QED
        BY <1>2, <1>3, WFMin
<1>5. PICK i \in S : X = Upto(i)
    BY <1>4
<1>6. ASSUME NEW j \in S, ~(i <= j)
      PROVE  FALSE
    <2>1. Upto(j) \subseteq Upto(i) /\ i \in Upto(i) /\ i \notin Upto(j)
        <3>1. i \in Nat /\ j \in Nat /\ S \subseteq Nat /\ j < i
            BY <1>6
        <3>2. ASSUME NEW x \in S, x <= j
              PROVE  x <= i
            <4>1. x \in Nat
                BY <3>1
            <4>2. QED
                BY <3>1, <3>2, <4>1
        <3>3. i <= i /\ ~(i <= j)
            BY <3>1
        <3>4. QED
            BY <3>2, <3>3
    <2>2. Upto(j) \in T /\ <<Upto(j), X>> \in R
        BY <1>5, <2>1 DEF StrictSubsetOrdering
    <2>3. QED
        BY <2>2, <1>4
<1>7. QED
    BY <1>6

LEMMA StaleIsPrefix ==
    ASSUME NEW ages \in Seq(Nat), NEW k \in Kinds
    PROVE  /\ Stale(ages, k) \in 0 .. Len(ages)
           /\ \A i \in 1 .. Stale(ages, k) : ages[i] > Window[k]
           /\ Stale(ages, k) < Len(ages) => ages[Stale(ages, k) + 1] <= Window[k]
<1> DEFINE S == {n \in 0 .. Len(ages) : n < Len(ages) => ages[n + 1] <= Window[k]}
<1>1. Len(ages) \in Nat /\ Window[k] \in Nat
    BY WindowIsNat
<1>2. Len(ages) \in S
    BY <1>1
<1>3. PICK n \in S : \A j \in S : n <= j
    <2> HIDE DEF S
    <2>1. S \subseteq 0 .. Len(ages) /\ S # {}
        BY <1>2 DEF S
    <2>2. QED
        BY <1>1, <2>1, LeastNat
<1>4. ASSUME NEW i \in 1 .. n
      PROVE  ages[i] > Window[k]
    <2>1. i - 1 \in 0 .. Len(ages) /\ i - 1 < Len(ages) /\ i - 1 + 1 = i
        BY <1>1, <1>3
    <2>4. i - 1 \notin S
        <3>1. n \in Nat /\ i \in Nat /\ ~(n <= i - 1)
            BY <1>1, <1>3
        <3>2. QED
            BY <3>1, <1>3
    <2>2. ages[i] \in Nat
        BY <1>1, <1>3
    <2>3. QED
        BY <1>1, <2>1, <2>2, <2>4
<1>5. QED
    BY <1>3, <1>4 DEF Stale

LEMMA StaleIsUnique ==
    ASSUME NEW ages \in Seq(Nat), NEW k \in Kinds, NEW n \in 0 .. Len(ages),
           \A i \in 1 .. n : ages[i] > Window[k],
           n < Len(ages) => ages[n + 1] <= Window[k]
    PROVE  Stale(ages, k) = n
<1> DEFINE m == Stale(ages, k)
<1>1. /\ m \in 0 .. Len(ages)
      /\ \A i \in 1 .. m : ages[i] > Window[k]
      /\ m < Len(ages) => ages[m + 1] <= Window[k]
    BY StaleIsPrefix
<1>2. Window[k] \in Nat /\ Len(ages) \in Nat /\ \A i \in 1 .. Len(ages) : ages[i] \in Nat
    BY WindowIsNat
<1> HIDE DEF m
<1>3. ~(m < n)
    BY <1>1, <1>2
<1>4. ~(n < m)
    BY <1>1, <1>2
<1>5. QED
    BY <1>1, <1>3, <1>4 DEF m

LEMMA WithinIsSuffix ==
    ASSUME NEW ages \in Seq(Nat), NEW k \in Kinds
    PROVE  /\ Within(ages, k) \in Seq(Nat)
           /\ Len(Within(ages, k)) = Len(ages) - Stale(ages, k)
           /\ \A i \in 1 .. Len(ages) - Stale(ages, k) :
                 Within(ages, k)[i] = ages[Stale(ages, k) + i]
           /\ Len(Within(ages, k)) > 0 => Within(ages, k)[1] <= Window[k]
<1> DEFINE n == Stale(ages, k)
<1>1. n \in 0 .. Len(ages) /\ (n < Len(ages) => ages[n + 1] <= Window[k])
    BY StaleIsPrefix
<1> HIDE DEF n
<1>2. Within(ages, k) = SubSeq(ages, n + 1, Len(ages))
    BY DEF Within, n
<1>3. /\ SubSeq(ages, n + 1, Len(ages)) \in Seq(Nat)
      /\ Len(SubSeq(ages, n + 1, Len(ages))) = Len(ages) - n
    BY <1>1
<1>4. \A i \in 1 .. Len(ages) - n : SubSeq(ages, n + 1, Len(ages))[i] = ages[n + i]
    BY <1>1
<1>5. Len(ages) - n > 0 => SubSeq(ages, n + 1, Len(ages))[1] <= Window[k]
    BY <1>1, <1>4
<1>6. QED
    BY <1>2, <1>3, <1>4, <1>5 DEF n

LEMMA WithinIsShorter ==
    ASSUME NEW ages \in Seq(Nat), NEW k \in Kinds
    PROVE  Within(ages, k) \in Seq(Nat) /\ Len(Within(ages, k)) <= Len(ages)
<1>1. Len(ages) \in Nat /\ Stale(ages, k) \in 0 .. Len(ages)
    BY StaleIsPrefix
<1>2. QED
    BY <1>1, WithinIsSuffix

(* Where the first stamp is in the window, nothing is dropped. *)
LEMMA FreshIsWithin ==
    ASSUME NEW ages \in Seq(Nat), NEW k \in Kinds, Len(ages) > 0 => ages[1] <= Window[k]
    PROVE  Stale(ages, k) = 0 /\ Within(ages, k) = ages
<1>1. 0 \in 0 .. Len(ages) /\ \A i \in 1 .. 0 : ages[i] > Window[k]
    OBVIOUS
<1>2. Stale(ages, k) = 0
    BY <1>1, StaleIsUnique
<1>3. SubSeq(ages, 1, Len(ages)) = ages
    OBVIOUS
<1>4. QED
    BY <1>2, <1>3 DEF Within

LEMMA WithinTwice ==
    ASSUME NEW ages \in Seq(Nat), NEW k \in Kinds
    PROVE  Within(Within(ages, k), k) = Within(ages, k)
BY WithinIsSuffix, FreshIsWithin

LEMMA SameSeq ==
    ASSUME NEW s \in Seq(Nat), NEW t \in Seq(Nat), Len(s) = Len(t), \A i \in 1 .. Len(s) : s[i] = t[i]
    PROVE  s = t
OBVIOUS

(* A new stamp is not stale, and makes no other so. *)
LEMMA WithinAppended ==
    ASSUME NEW ages \in Seq(Nat), NEW k \in Kinds
    PROVE  Within(Append(ages, 0), k) = Append(Within(ages, k), 0)
<1> DEFINE n == Stale(ages, k)  w == Within(ages, k)  s == Append(ages, 0)  v == Within(s, k)
<1>1. Window[k] \in Nat /\ Len(ages) \in Nat
    BY WindowIsNat
<1>2. /\ n \in 0 .. Len(ages) /\ \A i \in 1 .. n : ages[i] > Window[k]
      /\ n < Len(ages) => ages[n + 1] <= Window[k]
    BY StaleIsPrefix
<1>3. /\ w \in Seq(Nat) /\ Len(w) = Len(ages) - n
      /\ \A i \in 1 .. Len(ages) - n : w[i] = ages[n + i]
    BY WithinIsSuffix
<1>4. /\ s \in Seq(Nat) /\ Len(s) = Len(ages) + 1 /\ s[Len(ages) + 1] = 0
      /\ \A i \in 1 .. Len(ages) : s[i] = ages[i]
    OBVIOUS
<1> HIDE DEF n, w, s
<1>5. Stale(s, k) = n
    <2>1. n \in 0 .. Len(s)
        BY <1>1, <1>2, <1>4
    <2>2. ASSUME NEW i \in 1 .. n
          PROVE  s[i] > Window[k]
        <3>1. i \in 1 .. Len(ages)
            BY <1>1, <1>2
        <3>2. s[i] = ages[i] /\ ages[i] > Window[k]
            BY <1>2, <1>4, <3>1
        <3>3. QED
            BY <3>2
    <2>3. s[n + 1] <= Window[k]
        <3>1. CASE n < Len(ages)
            <4>1. n + 1 \in 1 .. Len(ages)
                BY <1>1, <1>2, <3>1
            <4>2. s[n + 1] = ages[n + 1]
                BY <1>4, <4>1
            <4>3. QED
                BY <1>2, <3>1, <4>2
        <3>2. CASE n = Len(ages)
            BY <1>1, <1>4, <3>2
        <3>3. QED
            BY <1>1, <1>2, <3>1, <3>2
    <2>4. QED
        BY <1>4, <2>1, <2>2, <2>3, StaleIsUnique
<1>6. /\ v \in Seq(Nat) /\ Len(v) = Len(s) - n /\ \A i \in 1 .. Len(s) - n : v[i] = s[n + i]
    BY <1>4, <1>5, WithinIsSuffix
<1> HIDE DEF v
<1>7. PICK m \in Nat : m = Len(ages) - n
    BY <1>1, <1>2
<1>8. PICK t \in Seq(Nat) : /\ t = Append(w, 0) /\ Len(t) = m + 1 /\ t[m + 1] = 0
                            /\ \A i \in 1 .. m : t[i] = w[i]
    <2>1. PICK x \in Seq(Nat) : x = w /\ Len(x) = m
        BY <1>3, <1>7
    <2>2. /\ Append(x, 0) \in Seq(Nat) /\ Len(Append(x, 0)) = m + 1 /\ Append(x, 0)[m + 1] = 0
          /\ \A i \in 1 .. m : Append(x, 0)[i] = x[i]
        BY <2>1
    <2>3. QED
        BY <2>1, <2>2
<1>9. ASSUME NEW i \in 1 .. m + 1
      PROVE  s[n + i] = t[i]
    <2>1. CASE i \in 1 .. m
        <3>1. n + i \in 1 .. Len(ages)
            BY <1>1, <1>2, <1>7, <2>1
        <3>2. s[n + i] = ages[n + i] /\ w[i] = ages[n + i] /\ t[i] = w[i]
            BY <1>3, <1>4, <1>7, <1>8, <2>1, <3>1
        <3>3. QED
            BY <3>2
    <2>2. CASE i = m + 1
        <3>1. n + i = Len(ages) + 1
            BY <1>1, <1>2, <1>7, <2>2
        <3>2. s[n + i] = 0 /\ t[i] = 0
            BY <1>4, <1>8, <2>2, <3>1
        <3>3. QED
            BY <3>2
    <2>3. QED
        BY <1>7, <2>1, <2>2
<1>10. Len(s) - n = m + 1
    BY <1>1, <1>2, <1>4, <1>7
<1>11. v \in Seq(Nat) /\ Len(v) = Len(t) /\ \A i \in 1 .. Len(v) : v[i] = t[i]
    BY <1>6, <1>8, <1>9, <1>10
<1> HIDE DEF v
<1>12. v = t
    BY <1>11, SameSeq
<1>13. QED
    BY <1>8, <1>12 DEF v, w, s

LEMMA AgedIsSeq ==
    ASSUME NEW ages \in Seq(Nat), NEW cap \in Nat
    PROVE  /\ Aged(ages, cap) \in Seq(Nat) /\ Len(Aged(ages, cap)) = Len(ages)
           /\ \A i \in 1 .. Len(ages) :
                Aged(ages, cap)[i] = IF ages[i] < cap THEN ages[i] + 1 ELSE cap
<1>1. Len(ages) \in Nat /\ DOMAIN ages = 1 .. Len(ages) /\ \A i \in 1 .. Len(ages) : ages[i] \in Nat
    OBVIOUS
<1>2. Aged(ages, cap) \in [1 .. Len(ages) -> Nat]
    BY <1>1 DEF Aged
<1>3. QED
    BY <1>1, <1>2 DEF Aged

(* A tick makes stamps stale, and none fresh again. *)
LEMMA WithinAged ==
    ASSUME NEW ages \in Seq(Nat), NEW k \in Kinds
    PROVE  Within(Aged(Within(ages, k), Window[k] + 1), k) = Within(Aged(ages, Window[k] + 1), k)
<1> DEFINE W == Window[k]  n == Stale(ages, k)  s == Within(ages, k)
           old == Aged(ages, W + 1)  new == Aged(s, W + 1)
           m == Stale(old, k)
<1>1. W \in Nat
    BY WindowIsNat
<1>2. n \in 0 .. Len(ages) /\ \A i \in 1 .. n : ages[i] > W
    BY StaleIsPrefix
<1>3. /\ s \in Seq(Nat) /\ Len(s) = Len(ages) - n
      /\ \A i \in 1 .. Len(ages) - n : s[i] = ages[n + i]
    BY WithinIsSuffix
<1> HIDE DEF n, s, W
<1>4. /\ old \in Seq(Nat) /\ Len(old) = Len(ages)
      /\ \A i \in 1 .. Len(ages) : old[i] = IF ages[i] < W + 1 THEN ages[i] + 1 ELSE W + 1
    BY <1>1, AgedIsSeq
<1>5. /\ new \in Seq(Nat) /\ Len(new) = Len(s)
      /\ \A i \in 1 .. Len(s) : new[i] = IF s[i] < W + 1 THEN s[i] + 1 ELSE W + 1
    BY <1>1, <1>3, AgedIsSeq
<1>6. /\ m \in 0 .. Len(old)
      /\ \A i \in 1 .. m : old[i] > W
      /\ m < Len(old) => old[m + 1] <= W
    BY <1>4, StaleIsPrefix DEF W
<1> HIDE DEF old, new, m
<1>7. ASSUME NEW i \in 1 .. Len(ages) - n
      PROVE  new[i] = old[n + i]
    <2>1. i \in 1 .. Len(s) /\ n + i \in 1 .. Len(ages)
        BY <1>2, <1>3
    <2>2. QED
        BY <2>1, <1>3, <1>4, <1>5
<1>8. n <= m
    <2>1. SUFFICES ASSUME m < n PROVE FALSE
        BY <1>2, <1>6
    <2>2. m + 1 \in 1 .. n /\ m < Len(old) /\ ages[m + 1] \in Nat
        BY <2>1, <1>2, <1>4, <1>6
    <2>3. QED
        BY <1>1, <1>2, <1>4, <1>6, <2>2
<1>9. Stale(new, k) = m - n
    <2>1. m - n \in 0 .. Len(new)
        BY <1>2, <1>3, <1>4, <1>5, <1>6, <1>8
    <2>2. \A i \in 1 .. m - n : new[i] > W
        <3>1. ASSUME NEW i \in 1 .. m - n
              PROVE  new[i] > W
            <4>1. i \in 1 .. Len(ages) - n /\ n + i \in 1 .. m
                BY <1>2, <1>4, <1>6, <1>8
            <4>2. QED
                BY <4>1, <1>6, <1>7
        <3>2. QED
            BY <3>1
    <2>3. m - n < Len(new) => new[m - n + 1] <= W
        <3>1. ASSUME m - n < Len(new)
              PROVE  new[m - n + 1] <= W
            <4>1. m - n + 1 \in 1 .. Len(ages) - n /\ n + (m - n + 1) = m + 1 /\ m < Len(old)
                BY <3>1, <1>2, <1>3, <1>4, <1>5, <1>6, <1>8
            <4>2. QED
                BY <4>1, <1>6, <1>7
        <3>2. QED
            BY <3>1
    <2>4. QED
        BY <1>5, <2>1, <2>2, <2>3, StaleIsUnique DEF W
<1>10. /\ Within(new, k) \in Seq(Nat) /\ Len(Within(new, k)) = Len(new) - (m - n)
       /\ \A i \in 1 .. Len(new) - (m - n) : Within(new, k)[i] = new[(m - n) + i]
    BY <1>5, <1>9, WithinIsSuffix
<1>11. /\ Within(old, k) \in Seq(Nat) /\ Len(Within(old, k)) = Len(old) - m
       /\ \A i \in 1 .. Len(old) - m : Within(old, k)[i] = old[m + i]
    BY <1>4, WithinIsSuffix DEF m
<1>12. Len(Within(new, k)) = Len(Within(old, k))
    BY <1>2, <1>3, <1>4, <1>5, <1>6, <1>10, <1>11
<1>13. ASSUME NEW i \in 1 .. Len(Within(old, k))
       PROVE  Within(new, k)[i] = Within(old, k)[i]
    <2>1. i \in 1 .. Len(old) - m /\ i \in 1 .. Len(new) - (m - n)
        BY <1>10, <1>11, <1>12
    <2>2. (m - n) + i \in 1 .. Len(ages) - n /\ n + ((m - n) + i) = m + i
        BY <2>1, <1>2, <1>4, <1>6, <1>8
    <2>3. QED
        BY <2>1, <2>2, <1>7, <1>10, <1>11
<1>14. Within(new, k) = Within(old, k)
    BY <1>10, <1>11, <1>12, <1>13
<1>15. QED
    BY <1>14 DEF old, new, s, W

-----------------------------------------------------------------------------
(* Types.  A request that adds or writes has a user; only a report may come *)
(* from a server.                                                           *)

Typed ==
    /\ invites \subseteq Users \X Users /\ friends \subseteq Users \X Users
    /\ blocks \subseteq Users \X Users
    /\ stamps \in [Kinds -> [Users -> Seq(Nat)]] /\ accepts \in [Kinds -> [Users -> Seq(Nat)]]
    /\ reported \in [Users -> [Ages -> Nat]] /\ mixed \in [Users -> Nat]
    /\ dayKnown \in BOOLEAN /\ hour \in 0 .. DayLength - 1
    /\ counters \in [Sources -> Nat] /\ kept \in [Sources -> Int] /\ crossed \in [Sources -> Nat]
    /\ proc \in [Slots -> Process] /\ events \in 0 .. MaxEvents

Adding == {"incoming", "resolve", "count", "add"}
Chatting == {"channel", "roster", "lists", "deliver"}

Asked ==
    \A p \in Slots :
        /\ proc[p].pc \in Adding =>
             proc[p].u \in Callers /\ proc[p].u \notin proc[p].ids \cup proc[p].names
        /\ proc[p].pc \in Chatting => proc[p].u \in Members
        /\ proc[p].pc = "store" => proc[p].u \in Callers \cup {None}

TypeInv == Typed /\ Asked

LEMMA Constants ==
    /\ Callers \subseteq Users /\ Members \subseteq Users /\ None \notin Users
    /\ AddWindow \in Nat /\ ReportWindow \in Nat /\ ReportLimit \in Nat /\ AddLimit \in Nat
    /\ AddLimit > 0 /\ ReportLimit > 0 /\ PendingCap \in Nat
    /\ DayLength \in Nat /\ DayLength > 0 /\ NSlots \in Nat /\ MaxEvents \in Nat
BY LimitsAssumption DEF LimitsAssumption

LEMMA UserSets ==
    ASSUME NEW S, S \subseteq Users
    PROVE  IsFiniteSet(S) /\ Cardinality(S) \in Nat
<1>1. S \in SUBSET Users /\ IsFiniteSet(Users)
    BY LimitsAssumption DEF LimitsAssumption
<1>2. IsFiniteSet(S)
    BY <1>1, FS_Subset
<1>3. QED
    BY <1>2, FS_CardinalityType

LEMMA IdleTyped == Idle \in Process
BY Constants DEF Idle, Process

LEMMA SetTyped ==
    ASSUME proc \in [Slots -> Process], NEW p \in Slots, NEW r \in Process, Set(p, r)
    PROVE  proc' \in [Slots -> Process] /\ proc'[p] = r /\ \A q \in Slots \ {p} : proc'[q] = proc[q]
BY DEF Set

(* A request let on to the add. *)
Onward(r) == [r EXCEPT !.pc = "add", !.seen = Pending(r.u)]

LEMMA OnwardTyped ==
    ASSUME NEW r \in Process
    PROVE  /\ Onward(r) \in Process /\ Onward(r).pc = "add" /\ Onward(r).u = r.u
           /\ Onward(r).ids = r.ids /\ Onward(r).names = r.names /\ Onward(r).new = r.new
           /\ Onward(r).seen = Pending(r.u) /\ Asking(r) \in Nat
<1>1. Pending(r.u) \in Nat
    <2>1. {v \in Users : <<r.u, v>> \in invites} \subseteq Users
        OBVIOUS
    <2>2. QED
        BY <2>1, UserSets DEF Pending
<1>2. Asking(r) \in Nat
    <2>1. r.names \subseteq Users /\ r.ids \ Incoming(r.u) \subseteq Users
        BY DEF Process
    <2>2. QED
        BY <2>1, UserSets DEF Asking
<1>3. QED
    BY <1>1, <1>2 DEF Onward, Process

LEMMA LetOnSet ==
    ASSUME NEW p, LetOn(p)
    PROVE  Set(p, Onward(proc[p]))
BY DEF LetOn, Onward

(* A request goes on as one that Asked allows. *)
LEMMA SetAsked ==
    ASSUME TypeInv, NEW p \in Slots, NEW r \in Process, Set(p, r),
           r.pc \in Adding => r.u \in Callers /\ r.u \notin r.ids \cup r.names,
           r.pc \in Chatting => r.u \in Members,
           r.pc = "store" => r.u \in Callers \cup {None}
    PROVE  proc' \in [Slots -> Process] /\ Asked'
<1>1. /\ proc' \in [Slots -> Process] /\ proc'[p] = r
      /\ \A q \in Slots \ {p} : proc'[q] = proc[q]
    BY SetTyped DEF TypeInv, Typed
<1>2. QED
    BY <1>1 DEF TypeInv, Asked

LEMMA StopAsked ==
    ASSUME TypeInv, NEW p \in Slots, Stop(p)
    PROVE  proc' \in [Slots -> Process] /\ Asked'
<1>1. Idle \in Process /\ Idle.pc = "idle"
    BY IdleTyped DEF Idle
<1>2. QED
    BY <1>1, SetAsked DEF Stop, Adding, Chatting

LEMMA AgesTyped ==
    ASSUME NEW f \in [Kinds -> [Users -> Seq(Nat)]], NEW k \in Kinds, NEW u \in Users,
           NEW s \in Seq(Nat)
    PROVE  [f EXCEPT ![k][u] = s] \in [Kinds -> [Users -> Seq(Nat)]]
OBVIOUS

LEMMA StampedTyped ==
    ASSUME Typed, NEW k \in Kinds, NEW u \in Users
    PROVE  /\ Stamped(k, u) => stamps' \in [Kinds -> [Users -> Seq(Nat)]]
           /\ Pruned(k, u) => stamps' \in [Kinds -> [Users -> Seq(Nat)]]
           /\ Accepted(k, u) => accepts' \in [Kinds -> [Users -> Seq(Nat)]]
<1>1. stamps[k][u] \in Seq(Nat) /\ accepts[k][u] \in Seq(Nat)
    BY DEF Typed
<1>2. Within(stamps[k][u], k) \in Seq(Nat)
    BY <1>1, WithinIsSuffix
<1>3. /\ Append(Within(stamps[k][u], k), 0) \in Seq(Nat) /\ Append(accepts[k][u], 0) \in Seq(Nat)
    BY <1>1, <1>2
<1>4. Stamped(k, u) => stamps' = [stamps EXCEPT ![k][u] = Append(Within(stamps[k][u], k), 0)]
    BY DEF Stamped, Typed
<1>5. Pruned(k, u) => stamps' = [stamps EXCEPT ![k][u] = Within(stamps[k][u], k)]
    BY DEF Pruned, Typed
<1>6. Accepted(k, u) => accepts' = [accepts EXCEPT ![k][u] = Append(accepts[k][u], 0)]
    BY DEF Accepted, Typed
<1>7. /\ stamps \in [Kinds -> [Users -> Seq(Nat)]] /\ accepts \in [Kinds -> [Users -> Seq(Nat)]]
    BY DEF Typed
<1>8. [stamps EXCEPT ![k][u] = Append(Within(stamps[k][u], k), 0)] \in [Kinds -> [Users -> Seq(Nat)]]
    BY <1>3, <1>7, AgesTyped
<1>9. [stamps EXCEPT ![k][u] = Within(stamps[k][u], k)] \in [Kinds -> [Users -> Seq(Nat)]]
    BY <1>2, <1>7, AgesTyped
<1>10. [accepts EXCEPT ![k][u] = Append(accepts[k][u], 0)] \in [Kinds -> [Users -> Seq(Nat)]]
    BY <1>3, <1>7, AgesTyped
<1>11. QED
    BY <1>4, <1>5, <1>6, <1>8, <1>9, <1>10

LEMMA LimitedTyped ==
    ASSUME TypeInv, NEW p \in Slots, NEW k \in Kinds, NEW r \in Process, Limited(p, k, r),
           r.pc \in Adding => r.u \in Callers /\ r.u \notin r.ids \cup r.names,
           r.pc \in Chatting => r.u \in Members, r.pc \in Adding \cup Chatting
    PROVE  /\ stamps' \in [Kinds -> [Users -> Seq(Nat)]] /\ accepts' \in [Kinds -> [Users -> Seq(Nat)]]
           /\ proc' \in [Slots -> Process] /\ Asked'
<1>1. r.u \in Users /\ r.pc # "store" /\ Typed
    BY Constants DEF Adding, Chatting, TypeInv
<1>2. CASE Full(k, r.u)
    <2>1. Pruned(k, r.u) /\ Stop(p) /\ accepts' = accepts
        BY <1>2 DEF Limited
    <2>2. QED
        BY <1>1, <2>1, StampedTyped, StopAsked DEF Typed
<1>3. CASE ~Full(k, r.u)
    <2>1. Stamped(k, r.u) /\ Accepted(k, r.u) /\ Set(p, r)
        BY <1>3 DEF Limited
    <2>2. QED
        BY <1>1, <2>1, StampedTyped, SetAsked
<1>4. QED
    BY <1>2, <1>3

LEMMA InitTyped == Init => TypeInv
<1> SUFFICES ASSUME Init PROVE TypeInv
    OBVIOUS
<1>1. <<>> \in Seq(Nat) /\ NoAges \in [Users -> Seq(Nat)]
    BY DEF NoAges
<1>2. stamps \in [Kinds -> [Users -> Seq(Nat)]] /\ accepts \in [Kinds -> [Users -> Seq(Nat)]]
    BY <1>1 DEF Init
<1>3. reported \in [Users -> [Ages -> Nat]] /\ mixed \in [Users -> Nat]
    BY DEF Init, NoReports
<1>4. counters \in [Sources -> Nat] /\ kept \in [Sources -> Int] /\ crossed \in [Sources -> Nat]
    BY DEF Init, Zero
<1>5. hour \in 0 .. DayLength - 1 /\ dayKnown \in BOOLEAN /\ events \in 0 .. MaxEvents
    <2>1. hour = 0 /\ dayKnown = FALSE /\ events = 0
        BY DEF Init
    <2>2. 0 \in 0 .. DayLength - 1 /\ 0 \in 0 .. MaxEvents
        BY Constants
    <2>3. QED
        BY <2>1, <2>2
<1>6. proc \in [Slots -> Process] /\ \A p \in Slots : proc[p] = Idle
    BY IdleTyped DEF Init
<1>7. Asked
    BY <1>6 DEF Asked, Idle, Adding, Chatting
<1>8. QED
    BY <1>2, <1>3, <1>4, <1>5, <1>6, <1>7 DEF Init, TypeInv, Typed

LEMMA CountedEvent ==
    ASSUME Typed, InBound
    PROVE  events' \in 0 .. MaxEvents
BY Constants DEF Typed, InBound

LEMMA AddBeginTyped ==
    ASSUME TypeInv, NEW p \in Slots, NEW u \in Callers, NEW ids \in SUBSET Users,
           NEW names \in SUBSET Users, AddBegin(p, u, ids, names)
    PROVE  TypeInv'
<1> DEFINE r == [Idle EXCEPT !.op = "add", !.pc = "incoming", !.u = u, !.ids = ids, !.names = names]
<1>1. /\ r \in Process /\ r.pc = "incoming" /\ r.u = u /\ r.ids = ids /\ r.names = names
    <2>1. Idle \in Process /\ u \in Users
        BY IdleTyped, Constants
    <2>2. QED
        BY <2>1 DEF Process
<1>2. Set(p, r) /\ u \notin ids \cup names /\ InBound
    BY DEF AddBegin, CanBegin
<1> HIDE DEF r
<1>3. proc' \in [Slots -> Process] /\ Asked'
    BY <1>1, <1>2, SetAsked DEF Chatting
<1>4. QED
    BY <1>2, <1>3, CountedEvent DEF AddBegin, TypeInv, Typed, socialVars, addVars, reportVars

LEMMA AddIncomingTyped ==
    ASSUME TypeInv, NEW p \in Slots, AddIncoming(p)
    PROVE  TypeInv'
<1> DEFINE r == proc[p]
           new == Asking(r)
           onward == Onward(r)
           limited == [r EXCEPT !.pc = "count", !.new = new]
<1>1. r \in Process /\ r.u \in Callers /\ r.u \notin r.ids \cup r.names
    BY DEF TypeInv, Typed, Asked, AddIncoming, At, Adding
<1>2. new \in Nat
    BY <1>1, OnwardTyped
<1>3. /\ onward \in Process /\ onward.pc = "add" /\ onward.u = r.u /\ onward.ids = r.ids
      /\ onward.names = r.names
    BY <1>1, OnwardTyped
<1>4. /\ limited \in Process /\ limited.pc = "count" /\ limited.u = r.u /\ limited.ids = r.ids
      /\ limited.names = r.names
    <2> HIDE DEF new
    <2>1. QED
        BY <1>1, <1>2 DEF Process
<1>5. /\ \/ (Set(p, onward) \/ Stop(p)) /\ UNCHANGED addVars
         \/ Limited(p, "add", limited)
      /\ UNCHANGED <<socialVars, reportVars, events>>
    BY LetOnSet DEF AddIncoming
<1> HIDE DEF r, new, onward, limited
<1>6. CASE Set(p, onward) /\ UNCHANGED addVars
    <2>1. proc' \in [Slots -> Process] /\ Asked'
        BY <1>1, <1>3, <1>6, SetAsked DEF Chatting
    <2>2. QED
        BY <1>5, <1>6, <2>1 DEF TypeInv, Typed, socialVars, addVars, reportVars
<1>7. CASE Stop(p) /\ UNCHANGED addVars
    BY <1>5, <1>7, StopAsked DEF TypeInv, Typed, socialVars, addVars, reportVars
<1>8. CASE Limited(p, "add", limited)
    <2>1. /\ stamps' \in [Kinds -> [Users -> Seq(Nat)]] /\ accepts' \in [Kinds -> [Users -> Seq(Nat)]]
          /\ proc' \in [Slots -> Process] /\ Asked'
        BY <1>1, <1>4, <1>8, LimitedTyped DEF Adding, Chatting, Kinds
    <2>2. QED
        BY <1>5, <2>1 DEF TypeInv, Typed, socialVars, addVars, reportVars
<1>9. QED
    BY <1>5, <1>6, <1>7, <1>8

LEMMA CodeBeginTyped ==
    ASSUME TypeInv, NEW p \in Slots, NEW u \in Callers, CodeBegin(p, u)
    PROVE  TypeInv'
<1> DEFINE r == [Idle EXCEPT !.op = "add", !.pc = "resolve", !.u = u, !.new = 1]
<1>1. r \in Process /\ r.pc = "resolve" /\ r.u = u /\ r.ids = {} /\ r.names = {}
    <2>1. Idle \in Process /\ Idle.ids = {} /\ Idle.names = {} /\ u \in Users /\ 1 \in Nat
        BY IdleTyped, Constants DEF Idle
    <2>2. QED
        BY <2>1 DEF Process
<1>2. Limited(p, "add", r) /\ InBound /\ UNCHANGED <<socialVars, reportVars>>
    BY DEF CodeBegin, CanBegin
<1> HIDE DEF r
<1>3. /\ stamps' \in [Kinds -> [Users -> Seq(Nat)]] /\ accepts' \in [Kinds -> [Users -> Seq(Nat)]]
      /\ proc' \in [Slots -> Process] /\ Asked'
    BY <1>1, <1>2, LimitedTyped DEF Adding, Chatting, Kinds
<1>4. QED
    BY <1>2, <1>3, CountedEvent DEF TypeInv, Typed, socialVars, reportVars

LEMMA CodeResolveTyped ==
    ASSUME TypeInv, NEW p \in Slots, CodeResolve(p)
    PROVE  TypeInv'
<1>1. proc[p] \in Process /\ proc[p].u \in Callers /\ proc[p].u \notin proc[p].names
    BY DEF TypeInv, Typed, Asked, CodeResolve, At, Adding
<1>2. UNCHANGED <<socialVars, addVars, reportVars, events>>
    BY DEF CodeResolve
<1>3. ASSUME NEW v \in Users \ {proc[p].u},
             Set(p, [proc[p] EXCEPT !.pc = "count", !.ids = {v}])
      PROVE  proc' \in [Slots -> Process] /\ Asked'
    <2> DEFINE r == [proc[p] EXCEPT !.pc = "count", !.ids = {v}]
    <2>1. r \in Process /\ r.pc = "count" /\ r.u = proc[p].u /\ r.ids = {v} /\ r.names = proc[p].names
        BY <1>1 DEF Process
    <2>2. Set(p, r)
        BY <1>3
    <2> HIDE DEF r
    <2>3. QED
        BY <1>1, <2>1, <2>2, SetAsked DEF Chatting
<1>4. proc' \in [Slots -> Process] /\ Asked'
    BY <1>3, StopAsked DEF CodeResolve
<1>5. QED
    BY <1>2, <1>4 DEF TypeInv, Typed, socialVars, addVars, reportVars

LEMMA AddCountTyped ==
    ASSUME TypeInv, NEW p \in Slots, AddCount(p)
    PROVE  TypeInv'
<1> DEFINE r == Onward(proc[p])
<1>1. /\ proc[p] \in Process /\ proc[p].u \in Callers
      /\ proc[p].u \notin proc[p].ids \cup proc[p].names
    BY DEF TypeInv, Typed, Asked, AddCount, At, Adding
<1>2. /\ r \in Process /\ r.pc = "add" /\ r.u = proc[p].u /\ r.ids = proc[p].ids
      /\ r.names = proc[p].names
    BY <1>1, OnwardTyped
<1>3. (Set(p, r) \/ Stop(p)) /\ UNCHANGED <<socialVars, addVars, reportVars, events>>
    BY LetOnSet DEF AddCount
<1> HIDE DEF r
<1>4. proc' \in [Slots -> Process] /\ Asked'
    <2>1. CASE Set(p, r)
        BY <1>1, <1>2, <2>1, SetAsked DEF Chatting
    <2>2. QED
        BY <1>3, <2>1, StopAsked
<1>5. QED
    BY <1>3, <1>4 DEF TypeInv, Typed, socialVars, addVars, reportVars

LEMMA OpenedTyped ==
    ASSUME NEW s \in Process
    PROVE  /\ [s EXCEPT !.pc = "deliver", !.open = TRUE] \in Process
           /\ [s EXCEPT !.pc = "deliver", !.open = TRUE].pc = "deliver"
           /\ [s EXCEPT !.pc = "deliver", !.open = TRUE].open = TRUE
           /\ [s EXCEPT !.pc = "deliver", !.open = TRUE].u = s.u
BY DEF Process

LEMMA AddLandTyped ==
    ASSUME TypeInv, NEW p \in Slots, AddLand(p)
    PROVE  TypeInv'
<1>1. proc[p] \in Process /\ proc[p].u \in Users
    BY Constants DEF TypeInv, Typed, Asked, AddLand, At, Adding
<1>2. UNCHANGED <<blocks, addVars, reportVars, events>> /\ Stop(p)
    BY DEF AddLand
<1>3. proc' \in [Slots -> Process] /\ Asked'
    BY <1>2, StopAsked
<1>4. invites' \subseteq Users \X Users /\ friends' \subseteq Users \X Users
    <2> DEFINE r == proc[p]
               targets == {v \in r.ids \cup r.names : ~Blocked(r.u, v) /\ <<r.u, v>> \notin friends}
               mutual == targets \cap Incoming(r.u)
    <2>1. \/ UNCHANGED <<invites, friends>>
          \/ /\ invites' = (invites \cup ({r.u} \X (targets \ mutual))) \ (mutual \X {r.u})
             /\ friends' = friends \cup ({r.u} \X mutual) \cup (mutual \X {r.u})
        BY DEF AddLand
    <2>2. targets \subseteq Users /\ mutual \subseteq Users /\ r.u \in Users
        BY <1>1 DEF Process
    <2> HIDE DEF targets, mutual, r
    <2>3. QED
        BY <2>1, <2>2 DEF TypeInv, Typed
<1>5. QED
    BY <1>2, <1>3, <1>4 DEF TypeInv, Typed, addVars, reportVars

LEMMA InviteTyped ==
    ASSUME TypeInv, NEW u \in Users, NEW v \in Users, Invite(u, v)
    PROVE  TypeInv'
<1>1. invites' \subseteq Users \X Users /\ events' \in 0 .. MaxEvents
    BY CountedEvent DEF Invite, TypeInv, Typed
<1>2. UNCHANGED <<proc, friends, blocks, addVars, reportVars>>
    BY DEF Invite
<1>3. Asked'
    BY <1>2 DEF TypeInv, Asked
<1>4. QED
    BY <1>1, <1>2, <1>3 DEF TypeInv, Typed, addVars, reportVars

LEMMA BlockTyped ==
    ASSUME TypeInv, NEW u \in Users, NEW v \in Users, Block(u, v)
    PROVE  TypeInv'
<1>1. proc' = proc
    BY DEF Block
<1>2. proc' \in [Slots -> Process] /\ Asked'
    BY <1>1 DEF TypeInv, Typed, Asked
<1>3. /\ invites' \subseteq Users \X Users /\ friends' \subseteq Users \X Users
      /\ blocks' \subseteq Users \X Users
    BY DEF Block, TypeInv, Typed
<1>4. events' \in 0 .. MaxEvents
    BY CountedEvent DEF Block, TypeInv
<1>5. UNCHANGED <<addVars, reportVars>>
    BY DEF Block
<1>6. QED
    BY <1>2, <1>3, <1>4, <1>5 DEF TypeInv, Typed, addVars, reportVars

LEMMA FriendsDeleteTyped ==
    ASSUME TypeInv, NEW u \in Users, NEW v \in Users, FriendsDelete(u, v)
    PROVE  TypeInv'
<1> DEFINE freed(q) == [proc[q] EXCEPT !.blockers = proc[q].blockers \ {u}]
<1>1. proc \in [Slots -> Process]
    BY DEF TypeInv, Typed
<1>2. proc' = [q \in Slots |-> IF proc[q].u = v THEN freed(q) ELSE proc[q]]
    BY <1>1 DEF FriendsDelete
<1>3. ASSUME NEW q \in Slots
      PROVE  /\ freed(q) \in Process /\ freed(q).pc = proc[q].pc /\ freed(q).u = proc[q].u
             /\ freed(q).ids = proc[q].ids /\ freed(q).names = proc[q].names
    BY <1>1 DEF Process
<1> HIDE DEF freed
<1>4. proc' \in [Slots -> Process]
    BY <1>1, <1>2, <1>3
<1>5. Asked'
    BY <1>1, <1>2, <1>3 DEF TypeInv, Asked
<1>6. /\ invites' \subseteq Users \X Users /\ friends' \subseteq Users \X Users
      /\ blocks' \subseteq Users \X Users
    BY DEF FriendsDelete, TypeInv, Typed
<1>7. events' \in 0 .. MaxEvents
    BY CountedEvent DEF FriendsDelete, TypeInv
<1>8. UNCHANGED <<addVars, reportVars>>
    BY DEF FriendsDelete
<1>9. QED
    BY <1>4, <1>5, <1>6, <1>7, <1>8 DEF TypeInv, Typed, addVars, reportVars

LEMMA FailsOpenAsked ==
    ASSUME TypeInv, NEW p \in Slots, FailsOpen(p), proc[p].u \in Members
    PROVE  proc' \in [Slots -> Process] /\ Asked'
<1> DEFINE r == [proc[p] EXCEPT !.pc = "deliver", !.open = TRUE]
<1>1. r \in Process /\ r.pc = "deliver" /\ r.u = proc[p].u
    BY OpenedTyped DEF TypeInv, Typed
<1>2. Set(p, r)
    BY DEF FailsOpen
<1> HIDE DEF r
<1>3. QED
    BY <1>1, <1>2, SetAsked DEF Adding, Chatting

LEMMA ChatBeginTyped ==
    ASSUME TypeInv, NEW p \in Slots, NEW u \in Callers, ChatBegin(p, u)
    PROVE  TypeInv'
<1> DEFINE r == [Idle EXCEPT !.op = "chat", !.pc = "channel", !.u = u, !.blockers = BlockersOf(u)]
<1>1. r \in Process /\ r.pc = "channel" /\ r.u = u
    <2>1. Idle \in Process /\ u \in Users /\ BlockersOf(u) \subseteq Users
        BY IdleTyped, Constants DEF BlockersOf
    <2>2. QED
        BY <2>1 DEF Process
<1>2. Set(p, r) /\ u \in Members /\ InBound
    BY DEF ChatBegin, CanBegin
<1> HIDE DEF r
<1>3. proc' \in [Slots -> Process] /\ Asked'
    BY <1>1, <1>2, SetAsked DEF Adding
<1>4. QED
    BY <1>2, <1>3, CountedEvent DEF ChatBegin, TypeInv, Typed, socialVars, addVars, reportVars

LEMMA ChatChannelTyped ==
    ASSUME TypeInv, NEW p \in Slots, ChatChannel(p)
    PROVE  TypeInv'
<1> DEFINE r == [proc[p] EXCEPT !.pc = "roster"]
<1>1. proc[p].u \in Members /\ r \in Process /\ r.pc = "roster" /\ r.u = proc[p].u
    <2>1. proc[p] \in Process /\ proc[p].u \in Members
        BY DEF TypeInv, Typed, Asked, ChatChannel, At, Chatting
    <2>2. QED
        BY <2>1 DEF Process
<1>2. /\ Limited(p, "chat", r) \/ (FailsOpen(p) /\ UNCHANGED addVars)
      /\ UNCHANGED <<socialVars, reportVars, events>>
    BY DEF ChatChannel
<1> HIDE DEF r
<1>3. CASE Limited(p, "chat", r)
    <2>1. /\ stamps' \in [Kinds -> [Users -> Seq(Nat)]] /\ accepts' \in [Kinds -> [Users -> Seq(Nat)]]
          /\ proc' \in [Slots -> Process] /\ Asked'
        BY <1>1, <1>3, LimitedTyped DEF Adding, Chatting, Kinds
    <2>2. QED
        BY <1>2, <2>1 DEF TypeInv, Typed, socialVars, reportVars
<1>4. CASE FailsOpen(p) /\ UNCHANGED addVars
    BY <1>1, <1>2, <1>4, FailsOpenAsked DEF TypeInv, Typed, socialVars, addVars, reportVars
<1>5. QED
    BY <1>2, <1>3, <1>4

LEMMA ChatRosterTyped ==
    ASSUME TypeInv, NEW p \in Slots, ChatRoster(p)
    PROVE  TypeInv'
<1> DEFINE others == Members \ {proc[p].u}
           r == [proc[p] EXCEPT !.pc = IF others = {} THEN "deliver" ELSE "lists", !.todo = others]
<1>1. proc[p].u \in Members /\ r \in Process /\ r.pc \in {"deliver", "lists"} /\ r.u = proc[p].u
    <2>1. proc[p] \in Process /\ proc[p].u \in Members /\ others \subseteq Users
        BY Constants DEF TypeInv, Typed, Asked, ChatRoster, At, Chatting
    <2>2. QED
        BY <2>1 DEF Process
<1>2. (Set(p, r) \/ FailsOpen(p)) /\ UNCHANGED <<socialVars, addVars, reportVars, events>>
    BY DEF ChatRoster
<1> HIDE DEF r
<1>3. proc' \in [Slots -> Process] /\ Asked'
    <2>1. CASE Set(p, r)
        BY <1>1, <2>1, SetAsked DEF Adding
    <2>2. QED
        BY <1>1, <1>2, <2>1, FailsOpenAsked
<1>4. QED
    BY <1>2, <1>3 DEF TypeInv, Typed, socialVars, addVars, reportVars

LEMMA ChatListTyped ==
    ASSUME TypeInv, NEW p \in Slots, NEW v \in Members, ChatList(p, v)
    PROVE  TypeInv'
<1> DEFINE r == [proc[p] EXCEPT !.todo = proc[p].todo \ {v}]
           last == [r EXCEPT !.pc = "deliver"]
<1>1. /\ proc[p].u \in Members /\ proc[p].pc = "lists"
      /\ r \in Process /\ r.pc = "lists" /\ r.u = proc[p].u
    <2>1. proc[p] \in Process /\ proc[p].u \in Members /\ proc[p].pc = "lists"
        BY DEF TypeInv, Typed, Asked, ChatList, At, Chatting
    <2>2. QED
        BY <2>1 DEF Process
<1>2. last \in Process /\ last.pc = "deliver" /\ last.u = proc[p].u
    <2> HIDE DEF r
    <2>1. QED
        BY <1>1 DEF Process
<1>3. /\ Stop(p) \/ Set(p, last) \/ Set(p, r) \/ FailsOpen(p)
      /\ UNCHANGED <<socialVars, addVars, reportVars, events>>
    BY DEF ChatList
<1> HIDE DEF r, last
<1>4. proc' \in [Slots -> Process] /\ Asked'
    <2>1. CASE Set(p, r)
        BY <1>1, <2>1, SetAsked DEF Adding
    <2>2. CASE Set(p, last)
        BY <1>1, <1>2, <2>2, SetAsked DEF Adding
    <2>3. QED
        BY <1>1, <1>3, <2>1, <2>2, FailsOpenAsked, StopAsked
<1>5. QED
    BY <1>3, <1>4 DEF TypeInv, Typed, socialVars, addVars, reportVars

LEMMA ChatDeliverTyped ==
    ASSUME TypeInv, NEW p \in Slots, ChatDeliver(p)
    PROVE  TypeInv'
BY StopAsked DEF ChatDeliver, TypeInv, Typed, socialVars, addVars, reportVars

-----------------------------------------------------------------------------
(* Types of the reports. *)

LEMMA SourceTyped ==
    ASSUME NEW u \in Users \cup {None}
    PROVE  SourceOf(u) \in Sources
BY DEF SourceOf, Sources

LEMMA TodayTyped ==
    ASSUME Typed
    PROVE  Today \in [Sources -> Nat]
BY DEF Typed, Today

LEMMA ReportBeginTyped ==
    ASSUME TypeInv, NEW p \in Slots, NEW u \in Callers \cup {None}, ReportBegin(p, u)
    PROVE  TypeInv'
<1> DEFINE s == SourceOf(u)
           full == Today[s] >= Cap[s]
           refused == full \/ (u # None /\ Full("report", u))
           r == [Idle EXCEPT !.op = "report", !.pc = "store", !.u = u, !.today = TRUE]
<1>1. s \in Sources /\ u \in Users \cup {None} /\ Today \in [Sources -> Nat]
    BY SourceTyped, TodayTyped, Constants DEF TypeInv
<1>2. r \in Process /\ r.pc = "store" /\ r.u = u
    <2>1. Idle \in Process
        BY IdleTyped
    <2>2. QED
        BY <1>1, <2>1 DEF Process
<1>3. /\ dayKnown' = TRUE /\ InBound
      /\ counters' = [Today EXCEPT ![s] = IF refused THEN Today[s] ELSE Today[s] + 1]
      /\ kept' = [kept EXCEPT ![s] = IF refused THEN kept[s] ELSE kept[s] + 1]
      /\ Set(p, r) \/ Stop(p)
      /\ UNCHANGED <<socialVars, accepts, hour, reported, crossed, mixed>>
    <2>1. kept \in [Sources -> Int]
        BY DEF TypeInv, Typed
    <2>2. QED
        BY <1>1, <2>1 DEF ReportBegin, CanBegin
<1>4. UNCHANGED stamps \/ (u # None /\ (Pruned("report", u) \/ Stamped("report", u)))
    BY DEF ReportBegin
<1>5. stamps' \in [Kinds -> [Users -> Seq(Nat)]]
    BY <1>1, <1>4, StampedTyped DEF TypeInv, Typed, Kinds
<1> HIDE DEF s, refused, r
<1>6. counters' \in [Sources -> Nat] /\ kept' \in [Sources -> Int]
    <2>1. kept \in [Sources -> Int]
        BY DEF TypeInv, Typed
    <2>2. CASE refused
        BY <1>1, <1>3, <2>1, <2>2
    <2>3. CASE ~refused
        <3>1. Today[s] + 1 \in Nat /\ kept[s] + 1 \in Int
            BY <1>1, <2>1
        <3>2. QED
            BY <1>1, <1>3, <2>1, <2>3, <3>1
    <2>4. QED
        BY <2>2, <2>3
<1>7. proc' \in [Slots -> Process] /\ Asked'
    <2>1. CASE Set(p, r)
        BY <1>2, <2>1, SetAsked DEF Adding, Chatting
    <2>2. QED
        BY <1>3, <2>1, StopAsked
<1>8. QED
    BY <1>3, <1>5, <1>6, <1>7, CountedEvent DEF TypeInv, Typed, socialVars

LEMMA StoreTyped ==
    ASSUME TypeInv, NEW p \in Slots, Store(p)
    PROVE  TypeInv'
<1>1. proc[p] \in Process /\ proc[p].u \in Users \cup {None} /\ reported \in [Users -> [Ages -> Nat]]
    BY Constants DEF TypeInv, Typed, Asked, Store, At
<1>2. reported' \in [Users -> [Ages -> Nat]]
    <2>1. CASE proc[p].u = None \/ proc[p].age > ReportWindow
        BY <1>1, <2>1 DEF Store
    <2>2. CASE ~(proc[p].u = None \/ proc[p].age > ReportWindow)
        <3> DEFINE u == proc[p].u  a == proc[p].age
        <3>1. u \in Users /\ a \in Ages
            BY <1>1, <2>2, Constants DEF Process, Ages
        <3>2. reported' = [reported EXCEPT ![u][a] = reported[u][a] + 1]
            BY <1>1, <2>2, <3>1 DEF Store
        <3> HIDE DEF u, a
        <3>3. reported[u] \in [Ages -> Nat] /\ reported[u][a] + 1 \in Nat
            BY <1>1, <3>1
        <3>4. [reported[u] EXCEPT ![a] = reported[u][a] + 1] \in [Ages -> Nat]
            BY <3>1, <3>3
        <3>5. reported' = [reported EXCEPT ![u] = [reported[u] EXCEPT ![a] = reported[u][a] + 1]]
            BY <1>1, <3>1, <3>2
        <3>6. QED
            BY <1>1, <3>1, <3>4, <3>5
    <2>3. QED
        BY <2>1, <2>2
<1>3. proc' \in [Slots -> Process] /\ Asked'
    BY StopAsked DEF Store
<1>4. QED
    BY <1>2, <1>3 DEF Store, TypeInv, Typed, socialVars, addVars

LEMMA ReleaseTyped ==
    ASSUME TypeInv, NEW p \in Slots, Release(p)
    PROVE  TypeInv'
<1> DEFINE r == proc[p]
           u == r.u
           s == SourceOf(u)
           ages == stamps["report"][u]
           own == ages # <<>> /\ ages[Len(ages)] = r.age
<1>1. r \in Process /\ u \in Users \cup {None} /\ s \in Sources
    BY Constants, SourceTyped DEF TypeInv, Typed, Asked, Release, At
<1>2. /\ counters \in [Sources -> Nat] /\ kept \in [Sources -> Int] /\ crossed \in [Sources -> Nat]
      /\ stamps \in [Kinds -> [Users -> Seq(Nat)]] /\ mixed \in [Users -> Nat]
    BY DEF TypeInv, Typed
<1>3. /\ counters' = [counters EXCEPT ![s] = IF counters[s] > 0 THEN counters[s] - 1 ELSE counters[s]]
      /\ kept' = [kept EXCEPT ![s] = IF r.today THEN kept[s] - 1 ELSE kept[s]]
      /\ crossed' = [crossed EXCEPT ![s] = IF r.today \/ ~dayKnown THEN crossed[s] ELSE crossed[s] + 1]
      /\ Stop(p) /\ UNCHANGED <<socialVars, accepts, dayKnown, hour, reported, events>>
    BY <1>1, <1>2 DEF Release
<1>4. /\ u = None => UNCHANGED <<stamps, mixed>>
      /\ u # None =>
           /\ stamps' = [stamps EXCEPT !["report"][u] =
                            IF ages = <<>> THEN ages ELSE SubSeq(ages, 1, Len(ages) - 1)]
           /\ mixed' = [mixed EXCEPT ![u] = IF own \/ ages = <<>> THEN mixed[u] ELSE mixed[u] + 1]
    BY <1>1, <1>2 DEF Release, Kinds
<1> HIDE DEF s, own
<1>5. counters' \in [Sources -> Nat]
    <2>1. PICK n \in Nat : n = IF counters[s] > 0 THEN counters[s] - 1 ELSE counters[s]
        BY <1>1, <1>2
    <2>2. QED
        BY <1>2, <1>3, <2>1
<1>6. kept' \in [Sources -> Int]
    <2>1. PICK n \in Int : n = IF r.today THEN kept[s] - 1 ELSE kept[s]
        BY <1>1, <1>2
    <2>2. QED
        BY <1>2, <1>3, <2>1
<1>7. crossed' \in [Sources -> Nat]
    <2>1. PICK n \in Nat : n = IF r.today \/ ~dayKnown THEN crossed[s] ELSE crossed[s] + 1
        BY <1>1, <1>2
    <2>2. QED
        BY <1>2, <1>3, <2>1
<1>8. stamps' \in [Kinds -> [Users -> Seq(Nat)]] /\ mixed' \in [Users -> Nat]
    <2>1. CASE u = None
        BY <1>2, <1>4, <2>1
    <2>2. CASE u # None
        <3>1. u \in Users /\ "report" \in Kinds
            BY <1>1, <2>2 DEF Kinds
        <3> HIDE DEF u
        <3>2. ages \in Seq(Nat)
            BY <1>2, <3>1
        <3>3. PICK t \in Seq(Nat) : t = IF ages = <<>> THEN ages ELSE SubSeq(ages, 1, Len(ages) - 1)
            <4>1. ages # <<>> => SubSeq(ages, 1, Len(ages) - 1) \in Seq(Nat)
                <5> HIDE DEF ages
                <5>1. QED
                    BY <3>2
            <4>2. QED
                BY <3>2, <4>1
        <3>4. PICK n \in Nat : n = IF own \/ ages = <<>> THEN mixed[u] ELSE mixed[u] + 1
            BY <1>2, <3>1
        <3>5. stamps' = [stamps EXCEPT !["report"][u] = t] /\ mixed' = [mixed EXCEPT ![u] = n]
            BY <1>4, <2>2, <3>3, <3>4
        <3>6. QED
            BY <1>2, <3>1, <3>5, AgesTyped
    <2>3. QED
        BY <2>1, <2>2
<1>9. proc' \in [Slots -> Process] /\ Asked'
    BY <1>3, StopAsked
<1>10. QED
    BY <1>3, <1>5, <1>6, <1>7, <1>8, <1>9 DEF TypeInv, Typed, socialVars

-----------------------------------------------------------------------------
(* Time and restarts; the types hold. *)

(* What a tick makes of a request. *)
Later(p) ==
    IF ~At(p, "store") THEN proc[p]
    ELSE [proc[p] EXCEPT !.age = IF @ <= ReportWindow THEN @ + 1 ELSE @,
                         !.today = @ /\ ~(hour + 1 = DayLength)]

LEMMA LaterTyped ==
    ASSUME Typed, NEW p \in Slots
    PROVE  /\ Later(p) \in Process /\ Later(p).pc = proc[p].pc /\ Later(p).u = proc[p].u
           /\ Later(p).ids = proc[p].ids /\ Later(p).names = proc[p].names
           /\ Later(p).new = proc[p].new /\ Later(p).seen = proc[p].seen
           /\ Later(p).todo = proc[p].todo /\ Later(p).blockers = proc[p].blockers
           /\ Later(p).open = proc[p].open
           /\ At(p, "store") =>
                /\ Later(p).age = IF proc[p].age <= ReportWindow THEN proc[p].age + 1 ELSE proc[p].age
                /\ Later(p).today <=> proc[p].today /\ ~(hour + 1 = DayLength)
<1>1. proc[p] \in Process
    BY DEF Typed
<1>2. CASE ~At(p, "store")
    BY <1>1, <1>2 DEF Later
<1>3. CASE At(p, "store")
    <2> DEFINE a == IF proc[p].age <= ReportWindow THEN proc[p].age + 1 ELSE proc[p].age
               t == proc[p].today /\ ~(hour + 1 = DayLength)
               r == [proc[p] EXCEPT !.age = a, !.today = t]
    <2>1. a \in 0 .. ReportWindow + 1
        BY <1>1, Constants DEF Process
    <2>2. t \in BOOLEAN
        OBVIOUS
    <2>3. Later(p) = r
        BY <1>1, <1>3 DEF Later, Process
    <2> HIDE DEF a, t
    <2>4. /\ r \in Process /\ r.pc = proc[p].pc /\ r.u = proc[p].u
          /\ r.ids = proc[p].ids /\ r.names = proc[p].names
          /\ r.new = proc[p].new /\ r.seen = proc[p].seen
          /\ r.todo = proc[p].todo /\ r.blockers = proc[p].blockers
          /\ r.open = proc[p].open /\ r.age = a /\ r.today = t
        BY <1>1, <2>1, <2>2 DEF Process
    <2> HIDE DEF r
    <2>5. r.today <=> proc[p].today /\ ~(hour + 1 = DayLength)
        BY <2>4 DEF t
    <2>6. QED
        BY <2>3, <2>4, <2>5 DEF a
<1>4. QED
    BY <1>2, <1>3

LEMMA TickTyped ==
    ASSUME TypeInv, Tick
    PROVE  TypeInv'
<1>1. proc' = [p \in Slots |-> Later(p)]
    BY DEF Tick, Later
<1>2. proc' \in [Slots -> Process] /\ Asked'
    BY <1>1, LaterTyped DEF TypeInv, Asked
<1>3. hour' \in 0 .. DayLength - 1 /\ dayKnown' \in BOOLEAN
    <2>1. hour \in 0 .. DayLength - 1 /\ dayKnown \in BOOLEAN
        BY DEF TypeInv, Typed
    <2>2. hour' = (IF hour + 1 = DayLength THEN 0 ELSE hour + 1)
        BY DEF Tick
    <2>3. hour' \in 0 .. DayLength - 1
        BY <2>1, <2>2, Constants
    <2>4. dayKnown' \in BOOLEAN
        BY DEF Tick
    <2>5. QED
        BY <2>3, <2>4
<1>4. kept' \in [Sources -> Int] /\ crossed' \in [Sources -> Nat]
    <2>1. kept \in [Sources -> Int] /\ crossed \in [Sources -> Nat]
        BY DEF TypeInv, Typed
    <2>2. \/ UNCHANGED <<kept, crossed>>
          \/ kept' = [s \in Sources |-> 0] /\ crossed' = [s \in Sources |-> 0]
        BY DEF Tick
    <2>3. QED
        BY <2>1, <2>2
<1>5. ASSUME NEW k \in Kinds, NEW u \in Users
      PROVE  /\ Aged(stamps[k][u], Window[k] + 1) \in Seq(Nat)
             /\ Aged(accepts[k][u], Window[k] + 1) \in Seq(Nat)
    <2>1. stamps[k][u] \in Seq(Nat) /\ accepts[k][u] \in Seq(Nat) /\ Window[k] + 1 \in Nat
        BY WindowIsNat DEF TypeInv, Typed
    <2>2. QED
        BY <2>1, AgedIsSeq
<1>6. stamps' \in [Kinds -> [Users -> Seq(Nat)]] /\ accepts' \in [Kinds -> [Users -> Seq(Nat)]]
    BY <1>5 DEF Tick
<1>7. reported' \in [Users -> [Ages -> Nat]]
    <2>1. ASSUME NEW u \in Users, NEW a \in Ages
          PROVE  (IF a = 0 THEN 0 ELSE reported[u][a - 1]) \in Nat
        <3>1. CASE a = 0
            BY <3>1
        <3>2. CASE a # 0
            <4>1. a - 1 \in Ages
                BY <3>2, Constants DEF Ages
            <4>2. QED
                BY <3>2, <4>1 DEF TypeInv, Typed
        <3>3. QED
            BY <3>1, <3>2
    <2>2. QED
        BY <2>1 DEF Tick
<1>8. QED
    BY <1>2, <1>3, <1>4, <1>6, <1>7 DEF Tick, TypeInv, Typed, socialVars

LEMMA RestartTyped ==
    ASSUME TypeInv, Restart
    PROVE  TypeInv'
<1>1. <<>> \in Seq(Nat) /\ NoAges \in [Users -> Seq(Nat)]
    BY DEF NoAges
<1>2. stamps' \in [Kinds -> [Users -> Seq(Nat)]] /\ accepts' \in [Kinds -> [Users -> Seq(Nat)]]
    BY <1>1 DEF Restart
<1>3. reported' \in [Users -> [Ages -> Nat]] /\ mixed' \in [Users -> Nat]
    BY DEF Restart, NoReports
<1>4. counters' \in [Sources -> Nat] /\ kept' \in [Sources -> Int] /\ crossed' \in [Sources -> Nat]
    BY DEF Restart, Zero
<1>5. proc' \in [Slots -> Process] /\ \A p \in Slots : proc'[p] = Idle
    BY IdleTyped DEF Restart
<1>6. Asked'
    BY <1>5 DEF Asked, Idle, Adding, Chatting
<1>7. events' \in 0 .. MaxEvents /\ dayKnown' \in BOOLEAN
    BY CountedEvent DEF Restart, TypeInv
<1>8. QED
    BY <1>2, <1>3, <1>4, <1>5, <1>6, <1>7 DEF Restart, TypeInv, Typed, socialVars

LEMMA TypeStep == TypeInv /\ [Next]_vars => TypeInv'
<1> SUFFICES ASSUME TypeInv, [Next]_vars PROVE TypeInv'
    OBVIOUS
<1>1. CASE UNCHANGED vars
    BY <1>1 DEF vars, socialVars, addVars, reportVars, TypeInv, Typed, Asked
<1>2. ASSUME NEW p \in Slots,
             \/ AddIncoming(p) \/ CodeResolve(p) \/ AddCount(p) \/ AddLand(p)
             \/ ChatChannel(p) \/ ChatRoster(p) \/ ChatDeliver(p) \/ Store(p) \/ Release(p)
             \/ \E v \in Members : ChatList(p, v)
      PROVE  TypeInv'
    BY <1>2, AddIncomingTyped, CodeResolveTyped, AddCountTyped, AddLandTyped, ChatChannelTyped,
        ChatRosterTyped, ChatDeliverTyped, StoreTyped, ReleaseTyped, ChatListTyped
<1>3. ASSUME NEW p \in Slots, NEW u \in Callers,
             \/ CodeBegin(p, u) \/ ChatBegin(p, u)
             \/ \E ids, names \in SUBSET Users : AddBegin(p, u, ids, names)
      PROVE  TypeInv'
    BY <1>3, CodeBeginTyped, ChatBeginTyped, AddBeginTyped
<1>4. ASSUME NEW p \in Slots, NEW u \in Callers \cup {None}, ReportBegin(p, u)
      PROVE  TypeInv'
    BY <1>4, ReportBeginTyped
<1>5. ASSUME NEW u \in Users \ Callers, NEW v \in Callers,
             Invite(u, v) \/ FriendsDelete(u, v) \/ Block(u, v)
      PROVE  TypeInv'
    BY <1>5, InviteTyped, FriendsDeleteTyped, BlockTyped, Constants
<1>6. QED
    BY <1>1, <1>2, <1>3, <1>4, <1>5, TickTyped, RestartTyped DEF Next

-----------------------------------------------------------------------------
(* Friend edges: two players are friends both ways round or not at all, and *)
(* never friends and something else.                                        *)

Social ==
    \A u \in Users, v \in Users :
        /\ <<u, v>> \in friends => <<v, u>> \in friends
        /\ <<u, v>> \in friends => <<u, v>> \notin invites \cup blocks
        /\ <<u, v>> \in invites /\ <<v, u>> \in invites => u = v

LEMMA AddLandSocial ==
    ASSUME TypeInv, Social, NEW p \in Slots, AddLand(p)
    PROVE  Social'
<1> DEFINE r == proc[p]
           targets == {v \in r.ids \cup r.names : ~Blocked(r.u, v) /\ <<r.u, v>> \notin friends}
           mutual == targets \cap Incoming(r.u)
<1>1. blocks' = blocks
    BY DEF AddLand
<1>2. \/ UNCHANGED <<invites, friends>>
      \/ /\ invites' = (invites \cup ({r.u} \X (targets \ mutual))) \ (mutual \X {r.u})
         /\ friends' = friends \cup ({r.u} \X mutual) \cup (mutual \X {r.u})
    BY DEF AddLand
<1>3. r \in Process /\ r.u \in Users /\ r.u \notin r.ids \cup r.names
    BY Constants DEF TypeInv, Typed, Asked, AddLand, At, Adding
<1>4. ASSUME NEW v \in Users
      PROVE  /\ v \in targets <=> /\ v \in r.ids \cup r.names /\ <<r.u, v>> \notin blocks
                                  /\ <<v, r.u>> \notin blocks /\ <<r.u, v>> \notin friends
             /\ v \in mutual <=> v \in targets /\ <<v, r.u>> \in invites
    BY DEF Blocked, Incoming
<1>5. targets \subseteq Users /\ mutual \subseteq targets
    BY <1>3 DEF Process
<1>6. r.u \notin targets
    BY <1>3
<1> HIDE DEF r, targets, mutual
<1>7. CASE UNCHANGED <<invites, friends>>
    BY <1>1, <1>7 DEF Social
<1>8. CASE /\ invites' = (invites \cup ({r.u} \X (targets \ mutual))) \ (mutual \X {r.u})
           /\ friends' = friends \cup ({r.u} \X mutual) \cup (mutual \X {r.u})
    <2>1. ASSUME NEW u \in Users, NEW v \in Users
          PROVE  /\ <<u, v>> \in invites' <=>
                      /\ <<u, v>> \in invites \/ (u = r.u /\ v \in targets /\ v \notin mutual)
                      /\ ~(v = r.u /\ u \in mutual)
                 /\ <<u, v>> \in friends' <=> \/ <<u, v>> \in friends
                                              \/ u = r.u /\ v \in mutual
                                              \/ v = r.u /\ u \in mutual
        BY <1>8
    <2>2. ASSUME NEW u \in Users, NEW v \in Users, <<u, v>> \in friends'
          PROVE  <<v, u>> \in friends' /\ <<u, v>> \notin invites' /\ <<u, v>> \notin blocks'
        <3>1. CASE <<u, v>> \in friends
            BY <1>1, <1>3, <1>4, <1>5, <2>1, <3>1 DEF Social
        <3>2. CASE u = r.u /\ v \in mutual
            BY <1>1, <1>3, <1>4, <1>5, <1>6, <2>1, <3>2 DEF Social
        <3>3. CASE v = r.u /\ u \in mutual
            BY <1>1, <1>3, <1>4, <1>5, <1>6, <2>1, <3>3 DEF Social
        <3>4. QED
            BY <2>1, <2>2, <3>1, <3>2, <3>3
    <2>3. ASSUME NEW u \in Users, NEW v \in Users, <<u, v>> \in invites', <<v, u>> \in invites'
          PROVE  u = v
        <3>1. CASE <<u, v>> \in invites /\ <<v, u>> \in invites
            BY <3>1 DEF Social
        <3>2. CASE u = r.u /\ v \in targets /\ v \notin mutual
            BY <1>4, <1>5, <1>6, <2>1, <2>3, <3>2
        <3>3. CASE v = r.u /\ u \in targets /\ u \notin mutual
            BY <1>4, <1>5, <1>6, <2>1, <2>3, <3>3
        <3>4. QED
            BY <2>1, <2>3, <3>1, <3>2, <3>3
    <2>4. QED
        BY <2>2, <2>3 DEF Social
<1>9. QED
    BY <1>2, <1>7, <1>8

LEMMA InviteSocial ==
    ASSUME Social, NEW a \in Users, NEW b \in Users, Invite(a, b)
    PROVE  Social'
<1>1. /\ <<a, b>> \notin friends /\ <<b, a>> \notin invites
      /\ invites' = invites \cup {<<a, b>>} /\ friends' = friends /\ blocks' = blocks
    BY DEF Invite
<1>2. ASSUME NEW u \in Users, NEW v \in Users
      PROVE  <<u, v>> \in invites' <=> <<u, v>> \in invites \/ (u = a /\ v = b)
    BY <1>1
<1>3. QED
    BY <1>1, <1>2 DEF Social

LEMMA FriendsDeleteSocial ==
    ASSUME Social, NEW a \in Users, NEW b \in Users, FriendsDelete(a, b) \/ Block(a, b)
    PROVE  Social'
<1>1. /\ invites' = invites \ {<<a, b>>, <<b, a>>} /\ friends' = friends \ {<<a, b>>, <<b, a>>}
      /\ blocks' \subseteq blocks \cup {<<a, b>>}
    BY DEF FriendsDelete, Block
<1>2. ASSUME NEW u \in Users, NEW v \in Users
      PROVE  /\ <<u, v>> \in invites' => <<u, v>> \in invites
             /\ <<u, v>> \in friends' <=> /\ <<u, v>> \in friends
                                          /\ ~(u = a /\ v = b) /\ ~(u = b /\ v = a)
             /\ <<u, v>> \in blocks' => <<u, v>> \in blocks \/ (u = a /\ v = b)
    BY <1>1
<1>3. QED
    BY <1>2 DEF Social

(* Every other step leaves the edges alone. *)
LEMMA EdgeSteps ==
    ASSUME [Next]_vars
    PROVE  \/ UNCHANGED socialVars
           \/ \E p \in Slots : AddLand(p)
           \/ \E u \in Users \ Callers, v \in Callers :
                 Invite(u, v) \/ FriendsDelete(u, v) \/ Block(u, v)
<1>1. CASE UNCHANGED vars
    BY <1>1 DEF vars
<1>2. ASSUME NEW p \in Slots,
             \/ AddIncoming(p) \/ CodeResolve(p) \/ AddCount(p)
             \/ ChatChannel(p) \/ ChatRoster(p) \/ ChatDeliver(p) \/ Store(p) \/ Release(p)
             \/ \E v \in Members : ChatList(p, v)
      PROVE  UNCHANGED socialVars
    BY <1>2 DEF AddIncoming, CodeResolve, AddCount, ChatChannel, ChatRoster, ChatDeliver, Store,
        Release, ChatList
<1>3. ASSUME NEW p \in Slots, NEW u \in Callers \cup {None},
             \/ CodeBegin(p, u) \/ ChatBegin(p, u) \/ ReportBegin(p, u)
             \/ \E ids, names \in SUBSET Users : AddBegin(p, u, ids, names)
      PROVE  UNCHANGED socialVars
    BY <1>3 DEF CodeBegin, ChatBegin, ReportBegin, AddBegin
<1>4. Tick \/ Restart => UNCHANGED socialVars
    BY DEF Tick, Restart
<1>5. QED
    BY <1>1, <1>2, <1>3, <1>4 DEF Next

LEMMA SocialStep == TypeInv /\ Social /\ [Next]_vars => Social'
<1> SUFFICES ASSUME TypeInv, Social, [Next]_vars PROVE Social'
    OBVIOUS
<1>1. CASE UNCHANGED socialVars
    BY <1>1 DEF socialVars, Social
<1>2. QED
    BY <1>1, EdgeSteps, AddLandSocial, InviteSocial, FriendsDeleteSocial, Constants

-----------------------------------------------------------------------------
(* Windows: no list of stamps is longer than its limit, and of the calls    *)
(* let through those in the window are the stamps in it.                    *)

Windows ==
    /\ \A k \in Kinds, u \in Users : Len(stamps[k][u]) <= Limit[k]
    /\ \A k \in {"add", "chat"}, u \in Users : Within(accepts[k][u], k) = Within(stamps[k][u], k)

LEMMA LimitedWindows ==
    ASSUME Typed, Windows, NEW p \in Slots, NEW k \in {"add", "chat"}, NEW r, r.u \in Users,
           Limited(p, k, r)
    PROVE  Windows' /\ \A u \in Users : stamps'["report"][u] = stamps["report"][u]
<1> DEFINE s == stamps[k][r.u]  w == Within(s, k)  a == accepts[k][r.u]
<1>1. k \in Kinds /\ k # "report"
    BY DEF Kinds
<1>2. /\ stamps \in [Kinds -> [Users -> Seq(Nat)]] /\ accepts \in [Kinds -> [Users -> Seq(Nat)]]
      /\ s \in Seq(Nat) /\ a \in Seq(Nat) /\ Within(a, k) = w
    BY <1>1 DEF Typed, Windows
<1>3. /\ w \in Seq(Nat) /\ Len(w) <= Len(s) /\ Within(w, k) = w
      /\ Within(Append(w, 0), k) = Within(Append(a, 0), k)
    <2>1. w \in Seq(Nat) /\ Len(w) <= Len(s) /\ Within(w, k) = w
        BY <1>1, <1>2, WithinIsShorter, WithinTwice
    <2> HIDE DEF w, a
    <2>2. Within(Append(w, 0), k) = Append(w, 0) /\ Within(Append(a, 0), k) = Append(w, 0)
        BY <1>1, <1>2, <2>1, WithinAppended
    <2>3. QED
        BY <2>1, <2>2
<1>4. Limit[k] \in Nat /\ Len(s) <= Limit[k]
    BY <1>1, WindowIsNat DEF Windows
<1>5. CASE Full(k, r.u)
    <2>1. stamps' = [stamps EXCEPT ![k][r.u] = w] /\ accepts' = accepts
        BY <1>1, <1>2, <1>5 DEF Limited, Pruned
    <2> HIDE DEF s, w, a
    <2>2. ASSUME NEW j \in Kinds, NEW u \in Users
          PROVE  stamps'[j][u] = IF j = k /\ u = r.u THEN w ELSE stamps[j][u]
        BY <1>1, <1>2, <2>1
    <2>3. Len(w) <= Limit[k]
        BY <1>2, <1>3, <1>4 DEF s
    <2>4. ASSUME NEW j \in Kinds, NEW u \in Users
          PROVE  Len(stamps'[j][u]) <= Limit[j]
        BY <2>2, <2>3 DEF Windows
    <2>5. ASSUME NEW j \in {"add", "chat"}, NEW u \in Users
          PROVE  Within(accepts'[j][u], j) = Within(stamps'[j][u], j)
        <3>1. j \in Kinds /\ Within(accepts[j][u], j) = Within(stamps[j][u], j) /\ accepts' = accepts
            BY <2>1 DEF Windows, Kinds
        <3>2. CASE j = k /\ u = r.u
            BY <1>3, <2>2, <3>1, <3>2 DEF s, w
        <3>3. CASE ~(j = k /\ u = r.u)
            BY <2>2, <3>1, <3>3
        <3>4. QED
            BY <3>2, <3>3
    <2>6. ASSUME NEW u \in Users
          PROVE  stamps'["report"][u] = stamps["report"][u]
        BY <1>1, <2>2 DEF Kinds
    <2>7. QED
        BY <2>4, <2>5, <2>6 DEF Windows
<1>6. CASE ~Full(k, r.u)
    <2>1. /\ stamps' = [stamps EXCEPT ![k][r.u] = Append(w, 0)]
          /\ accepts' = [accepts EXCEPT ![k][r.u] = Append(a, 0)]
          /\ ~(Len(w) >= Limit[k])
        BY <1>1, <1>2, <1>6 DEF Limited, Stamped, Accepted, Full
    <2> HIDE DEF s, w, a
    <2>2. ASSUME NEW j \in Kinds, NEW u \in Users
          PROVE  /\ stamps'[j][u] = IF j = k /\ u = r.u THEN Append(w, 0) ELSE stamps[j][u]
                 /\ accepts'[j][u] = IF j = k /\ u = r.u THEN Append(a, 0) ELSE accepts[j][u]
        BY <1>1, <1>2, <2>1
    <2>3. Len(Append(w, 0)) <= Limit[k]
        BY <1>3, <1>4, <2>1
    <2>4. ASSUME NEW j \in Kinds, NEW u \in Users
          PROVE  Len(stamps'[j][u]) <= Limit[j]
        BY <2>2, <2>3 DEF Windows
    <2>5. ASSUME NEW j \in {"add", "chat"}, NEW u \in Users
          PROVE  Within(accepts'[j][u], j) = Within(stamps'[j][u], j)
        <3>1. j \in Kinds /\ Within(accepts[j][u], j) = Within(stamps[j][u], j)
            BY DEF Windows, Kinds
        <3>2. CASE j = k /\ u = r.u
            BY <1>3, <2>2, <3>1, <3>2
        <3>3. CASE ~(j = k /\ u = r.u)
            BY <2>2, <3>1, <3>3
        <3>4. QED
            BY <3>2, <3>3
    <2>6. ASSUME NEW u \in Users
          PROVE  stamps'["report"][u] = stamps["report"][u]
        BY <1>1, <2>2 DEF Kinds
    <2>7. QED
        BY <2>4, <2>5, <2>6 DEF Windows
<1>7. QED
    BY <1>5, <1>6

LEMMA ReportBeginWindows ==
    ASSUME TypeInv, Windows, NEW p \in Slots, NEW u \in Callers \cup {None}, ReportBegin(p, u)
    PROVE  Windows'
<1>1. accepts' = accepts
    BY DEF ReportBegin
<1>2. CASE UNCHANGED stamps
    BY <1>1, <1>2 DEF Windows
<1>3. CASE ~UNCHANGED stamps
    <2> DEFINE s == stamps["report"][u]  w == Within(s, "report")
    <2>1. u \in Users /\ "report" \in Kinds
        BY <1>3, Constants DEF ReportBegin, Kinds
    <2>2. s \in Seq(Nat) /\ Len(s) <= Limit["report"] /\ Limit["report"] \in Nat
        BY <2>1, WindowIsNat DEF TypeInv, Typed, Windows
    <2>3. w \in Seq(Nat) /\ Len(w) <= Len(s)
        BY <2>1, <2>2, WithinIsShorter
    <2>4. stamps \in [Kinds -> [Users -> Seq(Nat)]]
        BY DEF TypeInv, Typed
    <2>5. \/ Pruned("report", u)
          \/ Stamped("report", u) /\ ~Full("report", u)
        BY <1>3 DEF ReportBegin
    <2>6. PICK t \in Seq(Nat) : /\ stamps' = [stamps EXCEPT !["report"][u] = t]
                                /\ Len(t) <= Limit["report"]
        <3>1. CASE Pruned("report", u)
            <4>1. stamps' = [stamps EXCEPT !["report"][u] = w]
                BY <2>1, <2>4, <3>1 DEF Pruned
            <4> HIDE DEF s, w
            <4>2. Len(w) <= Limit["report"]
                BY <2>2, <2>3
            <4>3. QED
                BY <2>3, <4>1, <4>2
        <3>2. CASE Stamped("report", u) /\ ~Full("report", u)
            <4>1. /\ stamps' = [stamps EXCEPT !["report"][u] = Append(w, 0)]
                  /\ ~(Len(w) >= Limit["report"])
                BY <2>1, <2>4, <3>2 DEF Stamped, Full
            <4> HIDE DEF s, w
            <4>2. Append(w, 0) \in Seq(Nat) /\ Len(Append(w, 0)) <= Limit["report"]
                BY <2>2, <2>3, <4>1
            <4>3. QED
                BY <4>1, <4>2
        <3>3. QED
            BY <2>5, <3>1, <3>2
    <2> HIDE DEF s, w
    <2>7. ASSUME NEW j \in Kinds, NEW v \in Users
          PROVE  stamps'[j][v] = IF j = "report" /\ v = u THEN t ELSE stamps[j][v]
        BY <2>1, <2>4, <2>6
    <2>8. QED
        BY <1>1, <2>6, <2>7 DEF Windows, Kinds
<1>4. QED
    BY <1>2, <1>3

LEMMA ReleaseWindows ==
    ASSUME TypeInv, Windows, NEW p \in Slots, Release(p)
    PROVE  Windows'
<1> DEFINE u == proc[p].u
<1>1. accepts' = accepts
    BY DEF Release
<1>2. CASE UNCHANGED stamps
    BY <1>1, <1>2 DEF Windows
<1>3. CASE ~UNCHANGED stamps
    <2> DEFINE s == stamps["report"][u]
               t == IF s = <<>> THEN s ELSE SubSeq(s, 1, Len(s) - 1)
    <2>1. u \in Users /\ "report" \in Kinds
        BY <1>3, Constants DEF Release, At, Kinds, TypeInv, Asked
    <2>2. s \in Seq(Nat) /\ Len(s) <= Limit["report"] /\ Limit["report"] \in Nat
        BY <2>1, WindowIsNat DEF TypeInv, Typed, Windows
    <2>3. stamps \in [Kinds -> [Users -> Seq(Nat)]]
        BY DEF TypeInv, Typed
    <2>4. stamps' = [stamps EXCEPT !["report"][u] = t]
        BY <1>3, <2>1, <2>3 DEF Release
    <2>5. Len(t) <= Limit["report"]
        <3> HIDE DEF s
        <3>1. QED
            BY <2>2
    <2> HIDE DEF s, t, u
    <2>6. ASSUME NEW j \in Kinds, NEW v \in Users
          PROVE  stamps'[j][v] = IF j = "report" /\ v = u THEN t ELSE stamps[j][v]
        BY <2>1, <2>3, <2>4
    <2>7. QED
        BY <1>1, <2>5, <2>6 DEF Windows, Kinds
<1>4. QED
    BY <1>2, <1>3

LEMMA TickWindows ==
    ASSUME TypeInv, Windows, Tick
    PROVE  Windows'
<1>1. ASSUME NEW k \in Kinds, NEW u \in Users
      PROVE  /\ stamps'[k][u] = Aged(stamps[k][u], Window[k] + 1)
             /\ accepts'[k][u] = Aged(accepts[k][u], Window[k] + 1)
             /\ stamps[k][u] \in Seq(Nat) /\ accepts[k][u] \in Seq(Nat) /\ Window[k] + 1 \in Nat
    <2>1. stamps[k][u] \in Seq(Nat) /\ accepts[k][u] \in Seq(Nat) /\ Window[k] + 1 \in Nat
        BY WindowIsNat DEF TypeInv, Typed
    <2>2. /\ stamps' = [j \in Kinds |-> [v \in Users |-> Aged(stamps[j][v], Window[j] + 1)]]
          /\ accepts' = [j \in Kinds |-> [v \in Users |-> Aged(accepts[j][v], Window[j] + 1)]]
        BY DEF Tick
    <2>3. QED
        BY <2>1, <2>2
<1>2. ASSUME NEW k \in Kinds, NEW u \in Users
      PROVE  Len(stamps'[k][u]) <= Limit[k]
    <2>1. Len(stamps[k][u]) <= Limit[k]
        BY DEF Windows
    <2>2. Len(stamps'[k][u]) = Len(stamps[k][u])
        BY <1>1, AgedIsSeq
    <2>3. QED
        BY <2>1, <2>2
<1>3. ASSUME NEW k \in {"add", "chat"}, NEW u \in Users
      PROVE  Within(accepts'[k][u], k) = Within(stamps'[k][u], k)
    <2>1. k \in Kinds /\ Within(accepts[k][u], k) = Within(stamps[k][u], k)
        BY DEF Windows, Kinds
    <2>2. /\ Within(accepts'[k][u], k) = Within(Aged(Within(accepts[k][u], k), Window[k] + 1), k)
          /\ Within(stamps'[k][u], k) = Within(Aged(Within(stamps[k][u], k), Window[k] + 1), k)
        BY <1>1, <2>1, WithinAged
    <2>3. QED
        BY <2>1, <2>2
<1>4. QED
    BY <1>2, <1>3 DEF Windows

LEMMA EmptyWindows ==
    ASSUME NEW k \in Kinds
    PROVE  Within(<<>>, k) = <<>> /\ Len(<<>>) <= Limit[k]
<1>1. <<>> \in Seq(Nat) /\ Len(<<>>) = 0
    OBVIOUS
<1>2. PICK s \in Seq(Nat) : s = <<>>
    BY <1>1
<1>3. Len(s) = 0 /\ (Len(s) > 0 => s[1] <= Window[k])
    BY <1>1, <1>2
<1>4. Within(s, k) = s
    BY <1>3, FreshIsWithin
<1>5. Limit[k] \in Nat
    BY WindowIsNat
<1>6. QED
    BY <1>1, <1>2, <1>4, <1>5

LEMMA RestartWindows ==
    ASSUME Restart
    PROVE  Windows'
<1>1. ASSUME NEW k \in Kinds, NEW u \in Users
      PROVE  stamps'[k][u] = <<>> /\ accepts'[k][u] = <<>>
    BY DEF Restart, NoAges
<1>2. QED
    BY <1>1, EmptyWindows DEF Windows, Kinds

LEMMA InitWindows == Init => Social /\ Windows
<1> SUFFICES ASSUME Init PROVE Social /\ Windows
    OBVIOUS
<1>1. ASSUME NEW k \in Kinds, NEW u \in Users
      PROVE  stamps[k][u] = <<>> /\ accepts[k][u] = <<>>
    BY DEF Init, NoAges
<1>2. Windows
    BY <1>1, EmptyWindows DEF Windows, Kinds
<1>3. Social
    BY DEF Init, Social
<1>4. QED
    BY <1>2, <1>3

(* The requests that the windows of adds and messages let through.          *)
LEMMA LimitedSteps ==
    ASSUME TypeInv, Windows, NEW p \in Slots,
           \/ AddIncoming(p) \/ ChatChannel(p) \/ \E u \in Callers : CodeBegin(p, u)
    PROVE  /\ Windows' /\ \A u \in Users : stamps'["report"][u] = stamps["report"][u]
           /\ UNCHANGED reportVars
<1>1. CASE UNCHANGED addVars
    BY <1>1 DEF addVars, Windows, AddIncoming, ChatChannel, CodeBegin
<1>2. ASSUME AddIncoming(p), ~UNCHANGED addVars
      PROVE  Windows' /\ \A u \in Users : stamps'["report"][u] = stamps["report"][u]
    <2> DEFINE r == [proc[p] EXCEPT !.pc = "count", !.new = Asking(proc[p])]
    <2>1. r.u \in Users
        BY <1>2, Constants DEF TypeInv, Typed, Asked, AddIncoming, At, Adding, Process
    <2>2. Limited(p, "add", r)
        BY <1>2 DEF AddIncoming
    <2> HIDE DEF r
    <2>3. QED
        BY <2>1, <2>2, LimitedWindows DEF TypeInv
<1>3. ASSUME ChatChannel(p), ~UNCHANGED addVars
      PROVE  Windows' /\ \A u \in Users : stamps'["report"][u] = stamps["report"][u]
    <2> DEFINE r == [proc[p] EXCEPT !.pc = "roster"]
    <2>1. r.u \in Users
        BY <1>3, Constants DEF TypeInv, Typed, Asked, ChatChannel, At, Chatting, Process
    <2>2. Limited(p, "chat", r)
        BY <1>3 DEF ChatChannel
    <2> HIDE DEF r
    <2>3. QED
        BY <2>1, <2>2, LimitedWindows DEF TypeInv
<1>4. ASSUME NEW u \in Callers, CodeBegin(p, u)
      PROVE  Windows' /\ \A v \in Users : stamps'["report"][v] = stamps["report"][v]
    <2> DEFINE r == [Idle EXCEPT !.op = "add", !.pc = "resolve", !.u = u, !.new = 1]
    <2>1. r.u \in Users
        BY Constants DEF Idle
    <2>2. Limited(p, "add", r)
        BY <1>4 DEF CodeBegin
    <2> HIDE DEF r
    <2>3. QED
        BY <2>1, <2>2, LimitedWindows DEF TypeInv
<1>5. UNCHANGED reportVars
    BY DEF AddIncoming, ChatChannel, CodeBegin
<1>6. QED
    BY <1>1, <1>2, <1>3, <1>4, <1>5 DEF addVars

(* What every step keeps of the windows. *)
LEMMA WindowStep == TypeInv /\ Windows /\ [Next]_vars => Windows'
<1> SUFFICES ASSUME TypeInv, Windows, [Next]_vars PROVE Windows'
    OBVIOUS
<1>1. CASE UNCHANGED addVars
    BY <1>1 DEF addVars, Windows
<1>2. ASSUME NEW p \in Slots,
             \/ CodeResolve(p) \/ AddCount(p) \/ AddLand(p)
             \/ ChatRoster(p) \/ ChatDeliver(p) \/ Store(p)
             \/ \E v \in Members : ChatList(p, v)
      PROVE  UNCHANGED addVars
    BY <1>2 DEF CodeResolve, AddCount, AddLand, ChatRoster, ChatDeliver, Store, ChatList
<1>3. ASSUME NEW p \in Slots, NEW u \in Callers,
             \/ ChatBegin(p, u) \/ \E ids, names \in SUBSET Users : AddBegin(p, u, ids, names)
      PROVE  UNCHANGED addVars
    BY <1>3 DEF ChatBegin, AddBegin
<1>4. ASSUME NEW u \in Users, NEW v \in Users, Invite(u, v) \/ FriendsDelete(u, v) \/ Block(u, v)
      PROVE  UNCHANGED addVars
    BY <1>4 DEF Invite, FriendsDelete, Block
<1>5. UNCHANGED vars => UNCHANGED addVars
    BY DEF vars
<1>6. QED
    BY <1>1, <1>2, <1>3, <1>4, <1>5, LimitedSteps, ReportBeginWindows, ReleaseWindows, TickWindows,
        RestartWindows, Constants DEF Next

-----------------------------------------------------------------------------
(* The block check.  Those who blocked the sender from the start are not    *)
(* yet asked, or the check has failed and lets the message pass.            *)

HeardBy(r) ==
    /\ r.pc \in {"channel", "roster"} => r.blockers \subseteq BlockersOf(r.u)
    /\ r.pc = "lists" => r.blockers \subseteq r.todo \cap BlockersOf(r.u)
    /\ r.pc = "deliver" /\ ~r.open => r.blockers = {}

Heard == \A p \in Slots : HeardBy(proc[p])

LEMMA SetHeard ==
    ASSUME Typed, Heard, NEW p \in Slots, NEW r \in Process, Set(p, r), HeardBy(r), blocks' = blocks
    PROVE  Heard'
<1>1. proc'[p] = r /\ \A q \in Slots \ {p} : proc'[q] = proc[q]
    BY SetTyped DEF Typed
<1>2. \A u \in Users \cup {None} : BlockersOf(u)' = BlockersOf(u)
    BY DEF BlockersOf
<1>3. ASSUME NEW q \in Slots
      PROVE  HeardBy(proc[q])'
    <2>1. PICK t \in Process : t = proc'[q] /\ HeardBy(t)
        <3>1. CASE q = p
            BY <1>1, <3>1
        <3>2. CASE q # p
            BY <1>1, <3>2 DEF Heard, Typed
        <3>3. QED
            BY <3>1, <3>2
    <2>2. BlockersOf(t.u)' = BlockersOf(t.u)
        BY DEF BlockersOf
    <2>3. QED
        BY <2>1, <2>2 DEF HeardBy, BlockersOf
<1>4. QED
    BY <1>3 DEF Heard

(* Nobody but a request that chats is concerned. *)
LEMMA QuietHeard ==
    ASSUME NEW r, r.pc \notin Chatting
    PROVE  HeardBy(r)
BY DEF HeardBy, Chatting

LEMMA StopHeard ==
    ASSUME Typed, Heard, NEW p \in Slots, Stop(p), blocks' = blocks
    PROVE  Heard'
<1>1. Idle \in Process /\ Idle.pc = "idle"
    BY IdleTyped DEF Idle
<1>2. HeardBy(Idle)
    BY <1>1, QuietHeard DEF Chatting
<1>3. Set(p, Idle)
    BY DEF Stop
<1>4. QED
    BY <1>1, <1>2, <1>3, SetHeard

LEMMA FailsOpenHeard ==
    ASSUME Typed, Heard, NEW p \in Slots, FailsOpen(p), blocks' = blocks
    PROVE  Heard'
<1> DEFINE r == [proc[p] EXCEPT !.pc = "deliver", !.open = TRUE]
<1>1. r \in Process /\ r.pc = "deliver" /\ r.open = TRUE
    BY OpenedTyped DEF Typed
<1>2. Set(p, r)
    BY DEF FailsOpen
<1> HIDE DEF r
<1>3. HeardBy(r)
    BY <1>1 DEF HeardBy
<1>4. QED
    BY <1>1, <1>2, <1>3, SetHeard

LEMMA LimitedHeard ==
    ASSUME Typed, Heard, NEW p \in Slots, NEW k, NEW r \in Process, Limited(p, k, r), HeardBy(r),
           blocks' = blocks
    PROVE  Heard'
BY SetHeard, StopHeard DEF Limited

LEMMA AddHeard ==
    ASSUME TypeInv, Heard, NEW p \in Slots,
           AddIncoming(p) \/ CodeResolve(p) \/ AddCount(p) \/ AddLand(p)
    PROVE  Heard'
<1>1. proc[p] \in Process /\ blocks' = blocks /\ Typed
    BY DEF TypeInv, Typed, AddIncoming, CodeResolve, AddCount, AddLand, socialVars
<1>2. CASE AddIncoming(p)
    <2> DEFINE new == Asking(proc[p])
               onward == Onward(proc[p])
               limited == [proc[p] EXCEPT !.pc = "count", !.new = new]
    <2>1. onward \in Process /\ onward.pc = "add" /\ new \in Nat
        BY <1>1, OnwardTyped
    <2>2. limited \in Process /\ limited.pc = "count"
        <3> HIDE DEF new
        <3>1. QED
            BY <1>1, <2>1 DEF Process
    <2>3. Set(p, onward) \/ Stop(p) \/ Limited(p, "add", limited)
        BY <1>2, LetOnSet DEF AddIncoming
    <2> HIDE DEF onward, limited
    <2>4. HeardBy(onward) /\ HeardBy(limited)
        BY <2>1, <2>2 DEF HeardBy
    <2>5. QED
        BY <1>1, <2>1, <2>2, <2>3, <2>4, SetHeard, StopHeard, LimitedHeard
<1>3. CASE CodeResolve(p)
    <2>1. ASSUME NEW v \in Users, Set(p, [proc[p] EXCEPT !.pc = "count", !.ids = {v}])
          PROVE  Heard'
        <3> DEFINE r == [proc[p] EXCEPT !.pc = "count", !.ids = {v}]
        <3>1. r \in Process /\ r.pc = "count" /\ Set(p, r)
            BY <1>1, <2>1 DEF Process
        <3> HIDE DEF r
        <3>2. HeardBy(r)
            BY <3>1 DEF HeardBy
        <3>3. QED
            BY <1>1, <3>1, <3>2, SetHeard
    <2>2. QED
        BY <1>1, <1>3, <2>1, StopHeard DEF CodeResolve
<1>4. CASE AddCount(p)
    <2> DEFINE r == Onward(proc[p])
    <2>1. r \in Process /\ r.pc = "add" /\ (Set(p, r) \/ Stop(p))
        BY <1>1, <1>4, OnwardTyped, LetOnSet DEF AddCount
    <2> HIDE DEF r
    <2>2. HeardBy(r)
        BY <2>1 DEF HeardBy
    <2>3. QED
        BY <1>1, <2>1, <2>2, SetHeard, StopHeard
<1>5. CASE AddLand(p)
    BY <1>1, <1>5, StopHeard DEF AddLand
<1>6. QED
    BY <1>2, <1>3, <1>4, <1>5

LEMMA ChatHeard ==
    ASSUME TypeInv, Heard, NEW p \in Slots,
           \/ ChatChannel(p) \/ ChatRoster(p) \/ ChatDeliver(p)
           \/ \E v \in Members : ChatList(p, v)
    PROVE  Heard'
<1>1. proc[p] \in Process /\ blocks' = blocks /\ Typed /\ HeardBy(proc[p])
    BY DEF TypeInv, Typed, Heard, ChatChannel, ChatRoster, ChatDeliver, ChatList, socialVars
<1>2. CASE ChatChannel(p)
    <2> DEFINE r == [proc[p] EXCEPT !.pc = "roster"]
    <2>1. /\ r \in Process /\ r.pc = "roster" /\ r.u = proc[p].u /\ r.blockers = proc[p].blockers
          /\ proc[p].pc = "channel"
        BY <1>1, <1>2 DEF Process, ChatChannel, At
    <2>2. Limited(p, "chat", r) \/ FailsOpen(p)
        BY <1>2 DEF ChatChannel
    <2> HIDE DEF r
    <2>3. HeardBy(r)
        BY <1>1, <2>1 DEF HeardBy
    <2>4. QED
        BY <1>1, <2>1, <2>2, <2>3, LimitedHeard, FailsOpenHeard
<1>3. CASE ChatRoster(p)
    <2> DEFINE others == Members \ {proc[p].u}
               r == [proc[p] EXCEPT !.pc = IF others = {} THEN "deliver" ELSE "lists", !.todo = others]
    <2>1. /\ r \in Process /\ r.u = proc[p].u /\ r.blockers = proc[p].blockers /\ r.todo = others
          /\ r.pc = IF others = {} THEN "deliver" ELSE "lists"
        <3>1. others \subseteq Users
            BY Constants
        <3>2. QED
            BY <1>1, <3>1 DEF Process
    <2>2. (Set(p, r) \/ FailsOpen(p)) /\ proc[p].pc = "roster"
        BY <1>3 DEF ChatRoster, At
    <2>3. proc[p].blockers \subseteq BlockersOf(proc[p].u) /\ BlockersOf(proc[p].u) \subseteq others
        BY <1>1, <2>2 DEF HeardBy, BlockersOf
    <2> HIDE DEF r, others
    <2>4. HeardBy(r)
        BY <2>1, <2>3 DEF HeardBy
    <2>5. QED
        BY <1>1, <2>1, <2>2, <2>4, SetHeard, FailsOpenHeard
<1>4. CASE ChatDeliver(p)
    BY <1>1, <1>4, StopHeard DEF ChatDeliver
<1>5. ASSUME NEW v \in Members, ChatList(p, v)
      PROVE  Heard'
    <2> DEFINE r == [proc[p] EXCEPT !.todo = proc[p].todo \ {v}]
               last == [r EXCEPT !.pc = "deliver"]
    <2>1. /\ r \in Process /\ r.pc = "lists" /\ r.u = proc[p].u /\ r.blockers = proc[p].blockers
          /\ r.todo = proc[p].todo \ {v}
        BY <1>1, <1>5 DEF Process, ChatList, At
    <2>2. /\ last \in Process /\ last.pc = "deliver" /\ last.u = r.u /\ last.blockers = r.blockers
        <3> HIDE DEF r
        <3>1. QED
            BY <2>1 DEF Process
    <2>3. \/ Stop(p) \/ FailsOpen(p)
          \/ /\ <<v, proc[p].u>> \notin blocks
             /\ (r.todo = {} /\ Set(p, last)) \/ Set(p, r)
        BY <1>1, <1>5, <2>1 DEF ChatList
    <2>4. proc[p].blockers \subseteq proc[p].todo \cap BlockersOf(proc[p].u)
        BY <1>1, <1>5 DEF HeardBy, ChatList, At
    <2> HIDE DEF r, last
    <2>5. ASSUME <<v, proc[p].u>> \notin blocks
          PROVE  /\ HeardBy(r) /\ (r.todo = {} => HeardBy(last))
        <3>1. r.blockers \subseteq r.todo \cap BlockersOf(r.u)
            BY <2>1, <2>4, <2>5 DEF BlockersOf
        <3>2. QED
            BY <2>1, <2>2, <3>1 DEF HeardBy
    <2>6. QED
        BY <1>1, <2>1, <2>2, <2>3, <2>5, SetHeard, StopHeard, FailsOpenHeard
<1>6. QED
    BY <1>2, <1>3, <1>4, <1>5

LEMMA BeginHeard ==
    ASSUME TypeInv, Heard, NEW p \in Slots, NEW u \in Callers \cup {None},
           \/ u # None /\ (CodeBegin(p, u) \/ ChatBegin(p, u))
           \/ u # None /\ \E ids, names \in SUBSET Users : AddBegin(p, u, ids, names)
           \/ ReportBegin(p, u)
    PROVE  Heard'
<1>1. blocks' = blocks /\ Typed /\ Idle \in Process /\ u \in Users \cup {None}
    BY IdleTyped, Constants DEF TypeInv, CodeBegin, ChatBegin, AddBegin, ReportBegin, socialVars
<1>2. ASSUME NEW ids \in SUBSET Users, NEW names \in SUBSET Users, AddBegin(p, u, ids, names)
      PROVE  Heard'
    <2> DEFINE r == [Idle EXCEPT !.op = "add", !.pc = "incoming", !.u = u, !.ids = ids, !.names = names]
    <2>1. r \in Process /\ r.pc = "incoming" /\ Set(p, r)
        BY <1>1, <1>2 DEF Process, AddBegin
    <2> HIDE DEF r
    <2>2. HeardBy(r)
        BY <2>1 DEF HeardBy
    <2>3. QED
        BY <1>1, <2>1, <2>2, SetHeard
<1>3. CASE CodeBegin(p, u)
    <2> DEFINE r == [Idle EXCEPT !.op = "add", !.pc = "resolve", !.u = u, !.new = 1]
    <2>1. r \in Process /\ r.pc = "resolve" /\ Limited(p, "add", r)
        BY <1>1, <1>3 DEF Process, CodeBegin
    <2> HIDE DEF r
    <2>2. HeardBy(r)
        BY <2>1 DEF HeardBy
    <2>3. QED
        BY <1>1, <2>1, <2>2, LimitedHeard
<1>4. CASE ChatBegin(p, u)
    <2> DEFINE r == [Idle EXCEPT !.op = "chat", !.pc = "channel", !.u = u, !.blockers = BlockersOf(u)]
    <2>1. /\ r \in Process /\ r.pc = "channel" /\ r.u = u /\ r.blockers = BlockersOf(u) /\ Set(p, r)
        <3>1. BlockersOf(u) \subseteq Users
            BY Constants DEF BlockersOf
        <3>2. QED
            BY <1>1, <1>4, <3>1 DEF Process, ChatBegin
    <2> HIDE DEF r
    <2>2. HeardBy(r)
        BY <2>1 DEF HeardBy
    <2>3. QED
        BY <1>1, <2>1, <2>2, SetHeard
<1>5. CASE ReportBegin(p, u)
    <2> DEFINE r == [Idle EXCEPT !.op = "report", !.pc = "store", !.u = u, !.today = TRUE]
    <2>1. r \in Process /\ r.pc = "store" /\ (Set(p, r) \/ Stop(p))
        BY <1>1, <1>5 DEF Process, ReportBegin
    <2> HIDE DEF r
    <2>2. HeardBy(r)
        BY <2>1 DEF HeardBy
    <2>3. QED
        BY <1>1, <2>1, <2>2, SetHeard, StopHeard
<1>6. QED
    BY <1>2, <1>3, <1>4, <1>5

LEMMA FriendsHeard ==
    ASSUME TypeInv, Heard, NEW a \in Users, NEW b \in Users,
           Invite(a, b) \/ FriendsDelete(a, b) \/ Block(a, b)
    PROVE  Heard'
<1>1. proc \in [Slots -> Process]
    BY DEF TypeInv, Typed
<1>2. CASE Invite(a, b)
    <2>1. proc' = proc /\ blocks' = blocks
        BY <1>2 DEF Invite
    <2>2. QED
        BY <2>1 DEF Heard, HeardBy, BlockersOf
<1>3. CASE Block(a, b)
    <2>1. proc' = proc /\ blocks' = blocks \cup {<<a, b>>}
        BY <1>3 DEF Block
    <2>2. ASSUME NEW q \in Slots
          PROVE  HeardBy(proc[q])'
        <3>1. HeardBy(proc[q])
            BY DEF Heard
        <3>2. BlockersOf(proc[q].u) \subseteq {v \in Members \ {proc[q].u} : <<v, proc[q].u>> \in blocks'}
            BY <2>1 DEF BlockersOf
        <3>3. QED
            BY <2>1, <3>1, <3>2 DEF HeardBy, BlockersOf
    <2>3. QED
        BY <2>2 DEF Heard
<1>4. CASE FriendsDelete(a, b)
    <2> DEFINE freed(q) == [proc[q] EXCEPT !.blockers = proc[q].blockers \ {a}]
    <2>1. /\ proc' = [q \in Slots |-> IF proc[q].u = b THEN freed(q) ELSE proc[q]]
          /\ blocks' = blocks \ {<<a, b>>}
        BY <1>1, <1>4 DEF FriendsDelete
    <2>2. ASSUME NEW q \in Slots
          PROVE  HeardBy(proc[q])'
        <3>1. /\ freed(q).pc = proc[q].pc /\ freed(q).u = proc[q].u /\ freed(q).todo = proc[q].todo
              /\ freed(q).blockers = proc[q].blockers \ {a} /\ freed(q).open = proc[q].open
            BY <1>1 DEF Process
        <3> HIDE DEF freed
        <3>2. /\ proc'[q].pc = proc[q].pc /\ proc'[q].u = proc[q].u /\ proc'[q].todo = proc[q].todo
              /\ proc'[q].open = proc[q].open
              /\ proc'[q].blockers = IF proc[q].u = b THEN proc[q].blockers \ {a} ELSE proc[q].blockers
            BY <1>1, <2>1, <3>1
        <3>3. HeardBy(proc[q])
            BY DEF Heard
        <3>4. ASSUME proc[q].blockers \subseteq BlockersOf(proc[q].u)
              PROVE  proc'[q].blockers \subseteq {v \in Members \ {proc[q].u} : <<v, proc[q].u>> \in blocks'}
            BY <2>1, <3>2, <3>4 DEF BlockersOf
        <3>5. QED
            BY <3>2, <3>3, <3>4 DEF HeardBy, BlockersOf
    <2>3. QED
        BY <2>2 DEF Heard
<1>5. QED
    BY <1>2, <1>3, <1>4

LEMMA TimeHeard ==
    ASSUME TypeInv, Heard, (\E p \in Slots : Store(p) \/ Release(p)) \/ Tick \/ Restart
    PROVE  Heard'
<1>1. ASSUME NEW p \in Slots, Store(p) \/ Release(p)
      PROVE  Heard'
    BY <1>1, StopHeard DEF Store, Release, socialVars, TypeInv
<1>2. CASE Tick
    <2>1. proc' = [p \in Slots |-> Later(p)] /\ blocks' = blocks
        BY <1>2 DEF Tick, Later, socialVars
    <2>2. ASSUME NEW q \in Slots
          PROVE  HeardBy(proc[q])'
        <3>1. /\ proc'[q].pc = proc[q].pc /\ proc'[q].u = proc[q].u /\ proc'[q].todo = proc[q].todo
              /\ proc'[q].blockers = proc[q].blockers /\ proc'[q].open = proc[q].open
            BY <2>1, LaterTyped DEF TypeInv
        <3>2. HeardBy(proc[q])
            BY DEF Heard
        <3>3. QED
            BY <2>1, <3>1, <3>2 DEF HeardBy, BlockersOf
    <2>3. QED
        BY <2>2 DEF Heard
<1>3. CASE Restart
    BY <1>3 DEF Restart, Heard, HeardBy, Idle
<1>4. QED
    BY <1>1, <1>2, <1>3

LEMMA HeardStep == TypeInv /\ Heard /\ [Next]_vars => Heard'
<1> SUFFICES ASSUME TypeInv, Heard, [Next]_vars PROVE Heard'
    OBVIOUS
<1>1. CASE UNCHANGED vars
    BY <1>1 DEF vars, socialVars, Heard, HeardBy, BlockersOf
<1>2. ASSUME NEW u \in Callers
      PROVE  u \in Callers \cup {None} /\ u # None
    BY <1>2, Constants
<1>3. QED
    BY <1>1, <1>2, AddHeard, ChatHeard, BeginHeard, FriendsHeard, TimeHeard, Constants DEF Next

LEMMA InitHeard == Init => Heard
BY DEF Init, Heard, HeardBy, Idle

-----------------------------------------------------------------------------
(* Reports.  Only five steps concern them. *)

SameReport(q) ==
    /\ proc'[q].pc = "store" <=> proc[q].pc = "store"
    /\ proc[q].pc = "store" =>
         proc'[q].u = proc[q].u /\ proc'[q].age = proc[q].age /\ proc'[q].today = proc[q].today

StoreKept ==
    /\ UNCHANGED reportVars /\ \A u \in Users : stamps'["report"][u] = stamps["report"][u]
    /\ \A q \in Slots : SameReport(q)

(* A request that is not, and does not become, a report. *)
LEMMA SetKept ==
    ASSUME Typed, NEW p \in Slots, NEW r \in Process, Set(p, r), r.pc # "store",
           proc[p].pc # "store"
    PROVE  \A q \in Slots : SameReport(q)
BY SetTyped DEF Typed, SameReport

LEMMA StopKept ==
    ASSUME Typed, NEW p \in Slots, Stop(p), proc[p].pc # "store"
    PROVE  \A q \in Slots : SameReport(q)
<1>1. Idle \in Process /\ Idle.pc # "store"
    BY IdleTyped DEF Idle
<1>2. QED
    BY <1>1, SetKept DEF Stop

LEMMA LimitedKept ==
    ASSUME Typed, NEW p \in Slots, NEW k, NEW r \in Process, Limited(p, k, r), r.pc # "store",
           proc[p].pc # "store"
    PROVE  \A q \in Slots : SameReport(q)
BY SetKept, StopKept DEF Limited

LEMMA AddKept ==
    ASSUME TypeInv, Windows, NEW p \in Slots,
           AddIncoming(p) \/ CodeResolve(p) \/ AddCount(p) \/ AddLand(p)
    PROVE  StoreKept
<1>1. /\ proc[p] \in Process /\ Typed /\ proc[p].pc # "store" /\ UNCHANGED reportVars
      /\ \A u \in Users : stamps'["report"][u] = stamps["report"][u]
    BY LimitedSteps DEF TypeInv, Typed, AddIncoming, CodeResolve, AddCount, AddLand, At, addVars
<1>2. CASE AddIncoming(p)
    <2> DEFINE new == Asking(proc[p])
               onward == Onward(proc[p])
               limited == [proc[p] EXCEPT !.pc = "count", !.new = new]
    <2>1. onward \in Process /\ onward.pc = "add" /\ new \in Nat
        BY <1>1, OnwardTyped
    <2>2. limited \in Process /\ limited.pc = "count"
        <3> HIDE DEF new
        <3>1. QED
            BY <1>1, <2>1 DEF Process
    <2>3. Set(p, onward) \/ Stop(p) \/ Limited(p, "add", limited)
        BY <1>2, LetOnSet DEF AddIncoming
    <2> HIDE DEF onward, limited
    <2>4. QED
        BY <1>1, <2>1, <2>2, <2>3, SetKept, StopKept, LimitedKept DEF StoreKept
<1>3. CASE CodeResolve(p)
    <2>1. ASSUME NEW v \in Users, Set(p, [proc[p] EXCEPT !.pc = "count", !.ids = {v}])
          PROVE  StoreKept
        <3> DEFINE r == [proc[p] EXCEPT !.pc = "count", !.ids = {v}]
        <3>1. r \in Process /\ r.pc = "count" /\ Set(p, r)
            BY <1>1, <2>1 DEF Process
        <3> HIDE DEF r
        <3>2. QED
            BY <1>1, <3>1, SetKept DEF StoreKept
    <2>2. QED
        BY <1>1, <1>3, <2>1, StopKept DEF CodeResolve, StoreKept
<1>4. CASE AddCount(p)
    <2> DEFINE r == Onward(proc[p])
    <2>1. r \in Process /\ r.pc = "add" /\ (Set(p, r) \/ Stop(p))
        BY <1>1, <1>4, OnwardTyped, LetOnSet DEF AddCount
    <2> HIDE DEF r
    <2>2. QED
        BY <1>1, <2>1, SetKept, StopKept DEF StoreKept
<1>5. CASE AddLand(p)
    BY <1>1, <1>5, StopKept DEF AddLand, StoreKept
<1>6. QED
    BY <1>2, <1>3, <1>4, <1>5

LEMMA ChatKept ==
    ASSUME TypeInv, Windows, NEW p \in Slots,
           \/ ChatChannel(p) \/ ChatRoster(p) \/ ChatDeliver(p)
           \/ \E v \in Members : ChatList(p, v)
    PROVE  StoreKept
<1>1. /\ proc[p] \in Process /\ Typed /\ proc[p].pc # "store" /\ UNCHANGED reportVars
      /\ \A u \in Users : stamps'["report"][u] = stamps["report"][u]
    BY LimitedSteps DEF TypeInv, Typed, ChatChannel, ChatRoster, ChatDeliver, ChatList, At, addVars
<1>2. ASSUME NEW pc \in {"roster", "lists", "deliver"}, NEW t \in SUBSET Users, NEW o \in BOOLEAN
      PROVE  [proc[p] EXCEPT !.pc = pc, !.todo = t, !.open = o] \in Process
    BY <1>1 DEF Process
<1>3. ASSUME NEW r \in Process, Set(p, r) \/ Limited(p, "chat", r), r.pc # "store"
      PROVE  StoreKept
    BY <1>1, <1>3, SetKept, LimitedKept DEF StoreKept
<1>4. CASE FailsOpen(p)
    <2> DEFINE r == [proc[p] EXCEPT !.pc = "deliver", !.open = TRUE]
    <2>1. r \in Process /\ r.pc = "deliver" /\ Set(p, r)
        BY <1>1, <1>4 DEF Process, FailsOpen
    <2> HIDE DEF r
    <2>2. QED
        BY <1>3, <2>1
<1>5. CASE Stop(p)
    BY <1>1, <1>5, StopKept DEF StoreKept
<1>6. CASE ChatChannel(p) /\ ~FailsOpen(p)
    <2> DEFINE r == [proc[p] EXCEPT !.pc = "roster"]
    <2>1. r \in Process /\ r.pc = "roster" /\ Limited(p, "chat", r)
        BY <1>1, <1>6 DEF Process, ChatChannel
    <2> HIDE DEF r
    <2>2. QED
        BY <1>3, <2>1
<1>7. CASE ChatRoster(p) /\ ~FailsOpen(p)
    <2> DEFINE others == Members \ {proc[p].u}
               r == [proc[p] EXCEPT !.pc = IF others = {} THEN "deliver" ELSE "lists", !.todo = others]
    <2>1. r \in Process /\ r.pc # "store" /\ Set(p, r)
        <3>1. others \subseteq Users
            BY Constants
        <3>2. QED
            BY <1>1, <1>7, <3>1 DEF Process, ChatRoster
    <2> HIDE DEF r
    <2>2. QED
        BY <1>3, <2>1
<1>8. ASSUME NEW v \in Members, ChatList(p, v), ~FailsOpen(p), ~Stop(p)
      PROVE  StoreKept
    <2> DEFINE r == [proc[p] EXCEPT !.todo = proc[p].todo \ {v}]
               last == [r EXCEPT !.pc = "deliver"]
    <2>1. r \in Process /\ r.pc = "lists"
        BY <1>1, <1>8 DEF Process, ChatList, At
    <2>2. last \in Process /\ last.pc = "deliver"
        <3> HIDE DEF r
        <3>1. QED
            BY <2>1 DEF Process
    <2>3. Set(p, last) \/ Set(p, r)
        BY <1>1, <1>8, <2>1 DEF ChatList
    <2> HIDE DEF r, last
    <2>4. QED
        BY <1>3, <2>1, <2>2, <2>3
<1>9. QED
    BY <1>4, <1>5, <1>6, <1>7, <1>8 DEF ChatDeliver

LEMMA BeginKept ==
    ASSUME TypeInv, Windows, NEW p \in Slots, NEW u \in Callers,
           \/ CodeBegin(p, u) \/ ChatBegin(p, u)
           \/ \E ids, names \in SUBSET Users : AddBegin(p, u, ids, names)
    PROVE  StoreKept
<1>1. /\ Typed /\ proc[p].pc # "store" /\ UNCHANGED reportVars /\ Idle \in Process /\ u \in Users
      /\ \A v \in Users : stamps'["report"][v] = stamps["report"][v]
    BY LimitedSteps, IdleTyped, Constants DEF TypeInv, CodeBegin, ChatBegin, AddBegin, CanBegin, At,
        addVars
<1>2. ASSUME NEW ids \in SUBSET Users, NEW names \in SUBSET Users, AddBegin(p, u, ids, names)
      PROVE  StoreKept
    <2> DEFINE r == [Idle EXCEPT !.op = "add", !.pc = "incoming", !.u = u, !.ids = ids, !.names = names]
    <2>1. r \in Process /\ r.pc = "incoming" /\ Set(p, r)
        BY <1>1, <1>2 DEF Process, AddBegin
    <2> HIDE DEF r
    <2>2. QED
        BY <1>1, <2>1, SetKept DEF StoreKept
<1>3. CASE CodeBegin(p, u)
    <2> DEFINE r == [Idle EXCEPT !.op = "add", !.pc = "resolve", !.u = u, !.new = 1]
    <2>1. r \in Process /\ r.pc = "resolve" /\ Limited(p, "add", r)
        BY <1>1, <1>3 DEF Process, CodeBegin
    <2> HIDE DEF r
    <2>2. QED
        BY <1>1, <2>1, LimitedKept DEF StoreKept
<1>4. CASE ChatBegin(p, u)
    <2> DEFINE r == [Idle EXCEPT !.op = "chat", !.pc = "channel", !.u = u, !.blockers = BlockersOf(u)]
    <2>1. r \in Process /\ r.pc = "channel" /\ Set(p, r)
        <3>1. BlockersOf(u) \subseteq Users
            BY Constants DEF BlockersOf
        <3>2. QED
            BY <1>1, <1>4, <3>1 DEF Process, ChatBegin
    <2> HIDE DEF r
    <2>2. QED
        BY <1>1, <2>1, SetKept DEF StoreKept
<1>5. QED
    BY <1>2, <1>3, <1>4

LEMMA FriendsKept ==
    ASSUME TypeInv, NEW a \in Users \ Callers, NEW b \in Callers,
           Invite(a, b) \/ FriendsDelete(a, b) \/ Block(a, b)
    PROVE  StoreKept
<1>1. /\ proc \in [Slots -> Process] /\ UNCHANGED reportVars
      /\ \A u \in Users : stamps'["report"][u] = stamps["report"][u]
    BY DEF TypeInv, Typed, Invite, FriendsDelete, Block, addVars
<1>2. CASE proc' = proc
    BY <1>1, <1>2 DEF StoreKept, SameReport
<1>3. CASE FriendsDelete(a, b)
    <2> DEFINE freed(q) == [proc[q] EXCEPT !.blockers = proc[q].blockers \ {a}]
    <2>1. proc' = [q \in Slots |-> IF proc[q].u = b THEN freed(q) ELSE proc[q]]
        BY <1>1, <1>3 DEF FriendsDelete
    <2>2. ASSUME NEW q \in Slots
          PROVE  SameReport(q)
        <3>1. /\ freed(q).pc = proc[q].pc /\ freed(q).u = proc[q].u /\ freed(q).age = proc[q].age
              /\ freed(q).today = proc[q].today
            BY <1>1 DEF Process
        <3> HIDE DEF freed
        <3>2. QED
            BY <1>1, <2>1, <3>1 DEF SameReport
    <2>3. QED
        BY <1>1, <2>2 DEF StoreKept
<1>4. QED
    BY <1>2, <1>3 DEF Invite, Block

LEMMA ReportSteps ==
    ASSUME TypeInv, Windows, [Next]_vars
    PROVE  \/ StoreKept
           \/ \E p \in Slots, u \in Callers \cup {None} : ReportBegin(p, u)
           \/ \E p \in Slots : Store(p) \/ Release(p)
           \/ Tick \/ Restart
<1>1. CASE UNCHANGED vars
    BY <1>1 DEF vars, addVars, reportVars, StoreKept, SameReport
<1>2. QED
    BY <1>1, AddKept, ChatKept, BeginKept, FriendsKept DEF Next

-----------------------------------------------------------------------------
(* The daily counters.  The reports of the day are at least those that are  *)
(* under way and of the day, so that giving one back never undercounts.     *)

Held(s) == {p \in Slots : At(p, "store") /\ SourceOf(proc[p].u) = s /\ proc[p].today}

Counted ==
    \A s \in Sources :
        /\ counters[s] <= Cap[s]
        /\ ~dayKnown => kept[s] = 0 /\ crossed[s] = 0
        /\ dayKnown => kept[s] - crossed[s] <= counters[s] /\ counters[s] <= kept[s]
        /\ kept[s] <= Cap[s] + crossed[s]
        /\ Cardinality(Held(s)) <= kept[s]

LEMMA SlotSets ==
    ASSUME NEW S, S \subseteq Slots
    PROVE  IsFiniteSet(S) /\ Cardinality(S) \in Nat
<1>1. 1 \in Int /\ NSlots \in Int
    BY Constants
<1>2. IsFiniteSet(1 .. NSlots)
    BY <1>1, FS_Interval
<1>3. S \in SUBSET (1 .. NSlots)
    BY DEF Slots
<1>4. IsFiniteSet(S)
    BY <1>2, <1>3, FS_Subset
<1>5. QED
    BY <1>4, FS_CardinalityType

LEMMA HeldIsFinite ==
    ASSUME NEW s \in Sources
    PROVE  /\ IsFiniteSet(Held(s)) /\ Cardinality(Held(s)) \in Nat
           /\ IsFiniteSet(Held(s)') /\ Cardinality(Held(s)') \in Nat
BY SlotSets DEF Held

LEMMA CapIsPositive ==
    ASSUME NEW s \in Sources
    PROVE  Cap[s] \in Nat /\ Cap[s] > 0
BY LimitsAssumption DEF LimitsAssumption, Cap, Sources

LEMMA KeptCounted ==
    ASSUME Counted, StoreKept
    PROVE  Counted'
<1>1. ASSUME NEW s \in Sources
      PROVE  Held(s)' = Held(s)
    BY DEF StoreKept, SameReport, Held, At
<1>2. QED
    BY <1>1 DEF Counted, StoreKept, reportVars

LEMMA ReportBeginCounted ==
    ASSUME TypeInv, Counted, NEW p \in Slots, NEW u \in Callers \cup {None}, ReportBegin(p, u)
    PROVE  Counted'
<1> DEFINE s == SourceOf(u)
           refused == Today[s] >= Cap[s] \/ (u # None /\ Full("report", u))
           r == [Idle EXCEPT !.op = "report", !.pc = "store", !.u = u, !.today = TRUE]
<1>1. s \in Sources /\ u \in Users \cup {None} /\ Today \in [Sources -> Nat] /\ Typed
    BY SourceTyped, TodayTyped, Constants DEF TypeInv
<1>2. r \in Process /\ r.pc = "store" /\ r.u = u /\ r.today = TRUE
    <2>1. Idle \in Process
        BY IdleTyped
    <2>2. QED
        BY <1>1, <2>1 DEF Process
<1>3. /\ dayKnown' = TRUE /\ proc[p].pc = "idle" /\ crossed' = crossed
      /\ counters' = [Today EXCEPT ![s] = IF refused THEN Today[s] ELSE Today[s] + 1]
      /\ kept' = [kept EXCEPT ![s] = IF refused THEN kept[s] ELSE kept[s] + 1]
      /\ IF refused THEN Stop(p) ELSE Set(p, r)
    <2>1. kept \in [Sources -> Int]
        BY DEF TypeInv, Typed
    <2>2. QED
        BY <1>1, <2>1 DEF ReportBegin, CanBegin, At
<1>4. ASSUME NEW t \in Sources
      PROVE  /\ Today[t] \in Nat /\ kept[t] \in Int /\ crossed[t] \in Nat
             /\ Today[t] <= Cap[t] /\ kept[t] - crossed[t] <= Today[t] /\ Today[t] <= kept[t]
             /\ kept[t] <= Cap[t] + crossed[t] /\ Cardinality(Held(t)) <= kept[t]
             /\ Cap[t] \in Nat /\ Cap[t] > 0
    BY <1>1, CapIsPositive DEF Counted, Today, Typed
<1>5. refused => ~(u # None) \/ refused
    OBVIOUS
<1> HIDE DEF s, r
<1>6. CASE refused
    <2>1. /\ proc'[p] = Idle /\ \A q \in Slots \ {p} : proc'[q] = proc[q]
        BY <1>1, <1>3, <1>6, IdleTyped, SetTyped DEF Stop, Typed
    <2>2. ASSUME NEW t \in Sources
          PROVE  Held(t)' = Held(t)
        BY <1>3, <2>1 DEF Held, At, Idle
    <2>3. counters' = Today /\ kept' = kept
        BY <1>1, <1>3, <1>6 DEF Typed
    <2>4. QED
        BY <1>3, <1>4, <2>2, <2>3 DEF Counted
<1>7. CASE ~refused
    <2>1. proc'[p] = r /\ \A q \in Slots \ {p} : proc'[q] = proc[q]
        BY <1>1, <1>2, <1>3, <1>7, SetTyped DEF Typed
    <2>2. ASSUME NEW t \in Sources
          PROVE  /\ counters'[t] = IF t = s THEN Today[t] + 1 ELSE Today[t]
                 /\ kept'[t] = IF t = s THEN kept[t] + 1 ELSE kept[t]
        BY <1>1, <1>3, <1>7 DEF Typed
    <2>3. p \notin Held(s) /\ Today[s] + 1 <= Cap[s]
        <3>1. p \notin Held(s)
            BY <1>3 DEF Held, At
        <3>2. ~(Today[s] >= Cap[s]) /\ Today[s] \in Nat /\ Cap[s] \in Nat
            BY <1>1, <1>4, <1>7
        <3>3. QED
            BY <3>1, <3>2
    <2>4. ASSUME NEW t \in Sources
          PROVE  Held(t)' = IF t = s THEN Held(t) \cup {p} ELSE Held(t)
        <3>1. \A q \in Slots \ {p} : q \in Held(t)' <=> q \in Held(t)
            BY <2>1 DEF Held, At
        <3>2. p \notin Held(t) /\ (p \in Held(t)' <=> t = s)
            BY <1>2, <1>3, <2>1 DEF Held, At, s
        <3>3. Held(t) \subseteq Slots /\ Held(t)' \subseteq Slots
            BY DEF Held
        <3>4. QED
            BY <3>1, <3>2, <3>3
    <2>5. Cardinality(Held(s) \cup {p}) = Cardinality(Held(s)) + 1 /\ Cardinality(Held(s)) \in Nat
        BY <1>1, <2>3, HeldIsFinite, FS_AddElement
    <2>6. ASSUME NEW t \in Sources
          PROVE  /\ counters'[t] <= Cap[t] /\ kept'[t] - crossed'[t] <= counters'[t]
                 /\ counters'[t] <= kept'[t] /\ kept'[t] <= Cap[t] + crossed'[t]
                 /\ Cardinality(Held(t)') <= kept'[t]
        <3>1. CASE t = s
            <4>1. /\ counters'[s] = Today[s] + 1 /\ kept'[s] = kept[s] + 1 /\ crossed'[s] = crossed[s]
                  /\ Cardinality(Held(s)') = Cardinality(Held(s)) + 1
                BY <1>1, <1>3, <2>2, <2>4, <2>5
            <4>2. /\ Today[s] \in Nat /\ kept[s] \in Int /\ crossed[s] \in Nat /\ Cap[s] \in Nat
                  /\ kept[s] - crossed[s] <= Today[s] /\ Today[s] <= kept[s]
                  /\ Cardinality(Held(s)) <= kept[s] /\ Cardinality(Held(s)) \in Nat
                BY <1>1, <1>4, <2>5
            <4>3. Today[s] + 1 <= Cap[s]
                BY <2>3
            <4>4. QED
                BY <3>1, <4>1, <4>2, <4>3
        <3>2. CASE t # s
            BY <1>3, <1>4, <2>2, <2>4, <3>2
        <3>3. QED
            BY <3>1, <3>2
    <2>7. QED
        BY <1>3, <2>6 DEF Counted
<1>8. QED
    BY <1>6, <1>7

(* A report that ends leaves the others as they are. *)
LEMMA EndedHeld ==
    ASSUME TypeInv, NEW p \in Slots, At(p, "store"), Stop(p), NEW t \in Sources
    PROVE  /\ Held(t)' = Held(t) \ {p}
           /\ p \in Held(t) <=> t = SourceOf(proc[p].u) /\ proc[p].today
<1>1. proc'[p] = Idle /\ \A q \in Slots \ {p} : proc'[q] = proc[q]
    BY IdleTyped, SetTyped DEF Stop, TypeInv, Typed
<1>2. \A q \in Slots \ {p} : q \in Held(t)' <=> q \in Held(t)
    BY <1>1 DEF Held, At
<1>3. p \notin Held(t)' /\ Held(t) \subseteq Slots /\ Held(t)' \subseteq Slots
    BY <1>1 DEF Held, At, Idle
<1>4. Held(t)' = Held(t) \ {p}
    BY <1>2, <1>3
<1>5. p \in Held(t) <=> t = SourceOf(proc[p].u) /\ proc[p].today
    BY DEF Held
<1>6. QED
    BY <1>4, <1>5

LEMMA StoreCounted ==
    ASSUME TypeInv, Counted, NEW p \in Slots, Store(p)
    PROVE  Counted'
<1>1. Stop(p) /\ At(p, "store") /\ UNCHANGED <<counters, kept, crossed, dayKnown>>
    BY DEF Store
<1>2. ASSUME NEW t \in Sources
      PROVE  Cardinality(Held(t)') <= kept[t]
    <2>1. Held(t)' = Held(t) \ {p}
        BY <1>1, EndedHeld
    <2>2. IsFiniteSet(Held(t)) /\ Cardinality(Held(t)) \in Nat
        BY HeldIsFinite
    <2>3. Cardinality(Held(t) \ {p}) \in {Cardinality(Held(t)), Cardinality(Held(t)) - 1}
        BY <2>2, FS_RemoveElement
    <2>4. Cardinality(Held(t)) <= kept[t] /\ kept[t] \in Int
        BY DEF Counted, TypeInv, Typed
    <2>5. QED
        BY <2>1, <2>2, <2>3, <2>4
<1>3. QED
    BY <1>1, <1>2 DEF Counted

LEMMA ReleaseCounted ==
    ASSUME TypeInv, Counted, NEW p \in Slots, Release(p)
    PROVE  Counted'
<1> DEFINE s == SourceOf(proc[p].u)
           today == proc[p].today
<1>1. s \in Sources /\ today \in BOOLEAN
    BY SourceTyped, Constants DEF TypeInv, Typed, Asked, Process, Release, At
<1>2. Stop(p) /\ At(p, "store") /\ dayKnown' = dayKnown
    BY DEF Release
<1>3. ASSUME NEW t \in Sources
      PROVE  /\ counters'[t] = IF t = s /\ counters[t] > 0 THEN counters[t] - 1 ELSE counters[t]
             /\ kept'[t] = IF t = s /\ today THEN kept[t] - 1 ELSE kept[t]
             /\ crossed'[t] = IF t = s /\ ~today /\ dayKnown THEN crossed[t] + 1 ELSE crossed[t]
    <2>1. counters \in [Sources -> Nat] /\ kept \in [Sources -> Int] /\ crossed \in [Sources -> Nat]
        BY DEF TypeInv, Typed
    <2>2. /\ counters' = [counters EXCEPT ![s] = IF counters[s] > 0 THEN counters[s] - 1 ELSE counters[s]]
          /\ kept' = [kept EXCEPT ![s] = IF today THEN kept[s] - 1 ELSE kept[s]]
          /\ crossed' = [crossed EXCEPT ![s] = IF today \/ ~dayKnown THEN crossed[s] ELSE crossed[s] + 1]
        BY <1>1, <2>1 DEF Release
    <2> HIDE DEF s, today
    <2>3. QED
        BY <1>1, <2>1, <2>2
<1>4. ASSUME NEW t \in Sources
      PROVE  /\ counters[t] \in Nat /\ kept[t] \in Int /\ crossed[t] \in Nat /\ Cap[t] \in Nat
             /\ counters[t] <= Cap[t]
             /\ ~dayKnown => kept[t] = 0 /\ crossed[t] = 0
             /\ dayKnown => kept[t] - crossed[t] <= counters[t] /\ counters[t] <= kept[t]
             /\ kept[t] <= Cap[t] + crossed[t]
             /\ Cardinality(Held(t)) <= kept[t] /\ Cardinality(Held(t)) \in Nat
    BY CapIsPositive, HeldIsFinite DEF Counted, TypeInv, Typed
<1>5. ASSUME NEW t \in Sources
      PROVE  /\ t = s /\ today => Cardinality(Held(t)') = Cardinality(Held(t)) - 1
                                  /\ Cardinality(Held(t)) > 0
             /\ ~(t = s /\ today) => Cardinality(Held(t)') = Cardinality(Held(t))
    <2>1. Held(t)' = Held(t) \ {p} /\ (p \in Held(t) <=> t = s /\ today)
        BY <1>2, EndedHeld
    <2>2. IsFiniteSet(Held(t)) /\ Cardinality(Held(t)) \in Nat
        BY HeldIsFinite
    <2>3. Cardinality(Held(t) \ {p}) = IF p \in Held(t) THEN Cardinality(Held(t)) - 1
                                                         ELSE Cardinality(Held(t))
        BY <2>2, FS_RemoveElement
    <2>4. p \in Held(t) => Cardinality(Held(t)) # 0
        BY <2>2, FS_EmptySet
    <2> HIDE DEF s, today
    <2>5. QED
        BY <2>1, <2>2, <2>3, <2>4
<1> HIDE DEF s, today
<1>6. ASSUME NEW t \in Sources
      PROVE  /\ counters'[t] <= Cap[t]
             /\ ~dayKnown => kept'[t] = 0 /\ crossed'[t] = 0
             /\ dayKnown => kept'[t] - crossed'[t] <= counters'[t] /\ counters'[t] <= kept'[t]
             /\ kept'[t] <= Cap[t] + crossed'[t]
             /\ Cardinality(Held(t)') <= kept'[t]
    <2>1. CASE t = s /\ today
        BY <1>3, <1>4, <1>5, <2>1
    <2>2. CASE t = s /\ ~today
        BY <1>3, <1>4, <1>5, <2>2
    <2>3. CASE t # s
        BY <1>3, <1>4, <1>5, <2>3
    <2>4. QED
        BY <1>1, <2>1, <2>2, <2>3
<1>7. QED
    BY <1>2, <1>6 DEF Counted

LEMMA TickCounted ==
    ASSUME TypeInv, Counted, Tick
    PROVE  Counted'
<1> DEFINE midnight == hour + 1 = DayLength
<1>1. /\ proc' = [p \in Slots |-> Later(p)] /\ counters' = counters
      /\ dayKnown' = (dayKnown /\ ~midnight)
      /\ IF midnight THEN kept' = [s \in Sources |-> 0] /\ crossed' = [s \in Sources |-> 0]
                     ELSE UNCHANGED <<kept, crossed>>
    BY DEF Tick, Later
<1>2. ASSUME NEW q \in Slots
      PROVE  /\ proc'[q].pc = proc[q].pc /\ proc'[q].u = proc[q].u
             /\ proc[q].pc = "store" => (proc'[q].today <=> proc[q].today /\ ~midnight)
    BY <1>1, LaterTyped DEF TypeInv, At
<1> HIDE DEF midnight
<1>3. CASE midnight
    <2>1. ASSUME NEW s \in Sources
          PROVE  Held(s)' = {}
        BY <1>2, <1>3 DEF Held, At
    <2>2. Cardinality({}) = 0
        BY FS_EmptySet
    <2>3. ASSUME NEW s \in Sources
          PROVE  /\ counters'[s] <= Cap[s] /\ kept'[s] = 0 /\ crossed'[s] = 0 /\ Cap[s] \in Nat
                 /\ Cardinality(Held(s)') = 0
        BY <1>1, <1>3, <2>1, <2>2, CapIsPositive DEF Counted
    <2>4. dayKnown' = FALSE
        BY <1>1, <1>3
    <2>5. ASSUME NEW s \in Sources
          PROVE  kept'[s] <= Cap[s] + crossed'[s] /\ Cardinality(Held(s)') <= kept'[s]
        BY <2>3
    <2>6. QED
        BY <2>3, <2>4, <2>5 DEF Counted
<1>4. CASE ~midnight
    <2>1. ASSUME NEW s \in Sources
          PROVE  Held(s)' = Held(s)
        BY <1>2, <1>4 DEF Held, At
    <2>2. QED
        BY <1>1, <1>4, <2>1 DEF Counted
<1>5. QED
    BY <1>3, <1>4

LEMMA RestartCounted ==
    ASSUME Restart
    PROVE  Counted'
<1>1. ASSUME NEW s \in Sources
      PROVE  Held(s)' = {} /\ counters'[s] = 0 /\ kept'[s] = 0 /\ crossed'[s] = 0 /\ dayKnown' = FALSE
    BY DEF Restart, Zero, Held, At, Idle
<1>2. Cardinality({}) = 0
    BY FS_EmptySet
<1>3. ASSUME NEW s \in Sources
      PROVE  /\ counters'[s] <= Cap[s] /\ kept'[s] <= Cap[s] + crossed'[s]
             /\ Cardinality(Held(s)') <= kept'[s] /\ kept'[s] = 0 /\ crossed'[s] = 0
             /\ dayKnown' = FALSE
    <2>1. Cardinality(Held(s)') = 0
        BY <1>1, <1>2
    <2>2. Cap[s] \in Nat
        BY CapIsPositive
    <2>3. counters'[s] = 0 /\ kept'[s] = 0 /\ crossed'[s] = 0 /\ dayKnown' = FALSE
        BY <1>1
    <2>4. QED
        BY <2>1, <2>2, <2>3
<1>4. QED
    BY <1>3 DEF Counted

LEMMA InitCounted == Init => Counted
<1> SUFFICES ASSUME Init PROVE Counted
    OBVIOUS
<1>1. ASSUME NEW s \in Sources
      PROVE  Held(s) = {} /\ counters[s] = 0 /\ kept[s] = 0 /\ crossed[s] = 0 /\ dayKnown = FALSE
    BY DEF Init, Zero, Held, At, Idle
<1>2. Cardinality({}) = 0
    BY FS_EmptySet
<1>3. ASSUME NEW s \in Sources
      PROVE  /\ counters[s] <= Cap[s] /\ kept[s] <= Cap[s] + crossed[s]
             /\ Cardinality(Held(s)) <= kept[s] /\ kept[s] = 0 /\ crossed[s] = 0
             /\ dayKnown = FALSE
    <2>1. Cardinality(Held(s)) = 0
        BY <1>1, <1>2
    <2>2. Cap[s] \in Nat
        BY CapIsPositive
    <2>3. counters[s] = 0 /\ kept[s] = 0 /\ crossed[s] = 0 /\ dayKnown = FALSE
        BY <1>1
    <2>4. QED
        BY <2>1, <2>2, <2>3
<1>4. QED
    BY <1>3 DEF Counted

LEMMA CountedStep == TypeInv /\ Windows /\ Counted /\ [Next]_vars => Counted'
BY ReportSteps, KeptCounted, ReportBeginCounted, StoreCounted, ReleaseCounted, TickCounted,
    RestartCounted

-----------------------------------------------------------------------------
(* The reports of a window.  The fresh stamps of a user pay for the reports *)
(* as recent as them, stored or under way, but for a stamp given back in    *)
(* place of another.                                                        *)

FreshIn(ages, a) == {i \in DOMAIN ages : ages[i] <= a}
StoredIn(f, a) == UNION {{b} \X (1 .. f[b]) : b \in 0 .. a}

Fresh(u, a) == FreshIn(stamps["report"][u], a)
Stored(u, a) == StoredIn(reported[u], a)
Flying(u, a) == {p \in Slots : At(p, "store") /\ proc[p].u = u /\ proc[p].age <= a}

PaidFor(u, a) ==
    Cardinality(Stored(u, a)) + Cardinality(Flying(u, a)) <= Cardinality(Fresh(u, a)) + mixed[u]

Paid == \A u \in Users, a \in Ages : PaidFor(u, a)

(* A set and its image under a one-to-one function have the same size. *)
LEMMA SameSize ==
    ASSUME NEW S, NEW T, NEW f \in [S -> T], IsFiniteSet(S),
           \A x, y \in S : f[x] = f[y] => x = y,
           \A z \in T : \E x \in S : f[x] = z
    PROVE  IsFiniteSet(T) /\ Cardinality(T) = Cardinality(S)
<1>1. f \in Injection(S, T) /\ f \in Surjection(S, T)
    BY DEF Injection, Surjection, IsInjective
<1>2. ExistsBijection(S, T)
    BY <1>1 DEF ExistsBijection, Bijection
<1>3. QED
    BY <1>2, FS_Bijection

LEMMA FreshIsFinite ==
    ASSUME NEW ages \in Seq(Nat), NEW a \in Nat
    PROVE  /\ FreshIn(ages, a) \subseteq 1 .. Len(ages) /\ IsFiniteSet(FreshIn(ages, a))
           /\ Cardinality(FreshIn(ages, a)) \in Nat /\ Cardinality(FreshIn(ages, a)) <= Len(ages)
<1>1. Len(ages) \in Nat /\ DOMAIN ages = 1 .. Len(ages)
    OBVIOUS
<1>2. FreshIn(ages, a) \subseteq 1 .. Len(ages)
    BY <1>1 DEF FreshIn
<1>3. 1 \in Int /\ Len(ages) \in Int
    BY <1>1
<1>4. IsFiniteSet(1 .. Len(ages)) /\ Cardinality(1 .. Len(ages)) = Len(ages)
    <2>1. /\ IsFiniteSet(1 .. Len(ages))
          /\ Cardinality(1 .. Len(ages)) = IF 1 > Len(ages) THEN 0 ELSE Len(ages) - 1 + 1
        BY <1>3, FS_Interval
    <2>2. QED
        BY <2>1, <1>1
<1>5. FreshIn(ages, a) \in SUBSET (1 .. Len(ages))
    BY <1>2
<1>6. /\ IsFiniteSet(FreshIn(ages, a))
      /\ Cardinality(FreshIn(ages, a)) <= Cardinality(1 .. Len(ages))
    BY <1>4, <1>5, FS_Subset
<1>7. QED
    BY <1>2, <1>4, <1>6, FS_CardinalityType

(* What is stale is not fresh. *)
LEMMA FreshWithin ==
    ASSUME NEW ages \in Seq(Nat), NEW k \in Kinds, NEW a \in Nat, a <= Window[k]
    PROVE  Cardinality(FreshIn(Within(ages, k), a)) = Cardinality(FreshIn(ages, a))
<1> DEFINE n == Stale(ages, k)  w == Within(ages, k)
           S == FreshIn(w, a)  T == FreshIn(ages, a)  f == [i \in S |-> n + i]
<1>1. Window[k] \in Nat /\ a \in Nat /\ a <= Window[k]
    BY WindowIsNat
<1>2. n \in 0 .. Len(ages) /\ \A i \in 1 .. n : ages[i] > Window[k]
    BY <1>1, StaleIsPrefix
<1>3. /\ w \in Seq(Nat) /\ Len(w) = Len(ages) - n
      /\ \A i \in 1 .. Len(ages) - n : w[i] = ages[n + i]
    BY <1>1, WithinIsSuffix
<1> HIDE DEF n, w
<1>4. S = {i \in 1 .. Len(w) : w[i] <= a} /\ T = {i \in 1 .. Len(ages) : ages[i] <= a}
    BY <1>3 DEF FreshIn
<1>5. IsFiniteSet(S)
    BY <1>1, <1>3, FreshIsFinite
<1>6. ASSUME NEW i \in S
      PROVE  n + i \in T
    <2>1. Len(ages) \in Nat /\ n \in 0 .. Len(ages) /\ Len(w) = Len(ages) - n
        BY <1>2, <1>3
    <2>2. i \in 1 .. Len(w) /\ w[i] <= a
        BY <1>4
    <2>3. i \in 1 .. Len(ages) - n /\ n + i \in 1 .. Len(ages)
        BY <2>1, <2>2
    <2>4. w[i] = ages[n + i]
        BY <2>3, <1>3
    <2>5. QED
        BY <2>2, <2>3, <2>4, <1>4
<1>7. ASSUME NEW j \in T
      PROVE  \E i \in S : n + i = j
    <2>1. j \in 1 .. Len(ages) /\ ages[j] <= a /\ ages[j] \in Nat
        BY <1>4
    <2>2. j \notin 1 .. n
        BY <2>1, <1>1, <1>2, Constants
    <2>3. j - n \in 1 .. Len(ages) - n /\ n + (j - n) = j
        BY <2>1, <2>2, <1>2
    <2>4. j - n \in S
        BY <2>1, <2>3, <1>3, <1>4
    <2>5. QED
        BY <2>3, <2>4
<1>8. \A i, j \in S : n + i = n + j => i = j
    BY <1>2, <1>4
<1> HIDE DEF S, T
<1>9. f \in [S -> T] /\ \A i \in S : f[i] = n + i
    BY <1>6
<1> HIDE DEF f
<1>10. \A i, j \in S : f[i] = f[j] => i = j
    BY <1>8, <1>9
<1>11. \A j \in T : \E i \in S : f[i] = j
    BY <1>7, <1>9
<1>12. Cardinality(T) = Cardinality(S)
    BY <1>5, <1>9, <1>10, <1>11, SameSize
<1>13. QED
    BY <1>12 DEF S, T, w

LEMMA FreshAppended ==
    ASSUME NEW ages \in Seq(Nat), NEW a \in Nat
    PROVE  Cardinality(FreshIn(Append(ages, 0), a)) = Cardinality(FreshIn(ages, a)) + 1
<1> DEFINE n == Len(ages) + 1  more == Append(ages, 0)
<1>1. /\ Len(ages) \in Nat /\ more \in Seq(Nat) /\ Len(more) = n /\ more[n] = 0
      /\ \A i \in 1 .. Len(ages) : more[i] = ages[i]
    OBVIOUS
<1>2. DOMAIN ages = 1 .. Len(ages) /\ DOMAIN more = 1 .. n
    OBVIOUS
<1> HIDE DEF more
<1>3. FreshIn(more, a) = FreshIn(ages, a) \cup {n} /\ n \notin FreshIn(ages, a)
    <2>1. 1 .. n = (1 .. Len(ages)) \cup {n} /\ n \notin 1 .. Len(ages)
        BY <1>1
    <2> HIDE DEF n
    <2>2. 0 <= a
        OBVIOUS
    <2>3. QED
        BY <1>1, <1>2, <2>1, <2>2 DEF FreshIn
<1>4. IsFiniteSet(FreshIn(ages, a))
    BY FreshIsFinite
<1>5. QED
    BY <1>3, <1>4, FS_AddElement DEF more

LEMMA FreshShortened ==
    ASSUME NEW ages \in Seq(Nat), ages # <<>>, NEW a \in Nat
    PROVE  FreshIn(SubSeq(ages, 1, Len(ages) - 1), a) = FreshIn(ages, a) \ {Len(ages)}
<1> DEFINE n == Len(ages)  less == SubSeq(ages, 1, n - 1)
<1>1. n \in Nat /\ n > 0 /\ DOMAIN ages = 1 .. n
    OBVIOUS
<1>2. /\ less \in Seq(Nat) /\ Len(less) = n - 1
      /\ \A i \in 1 .. n - 1 : less[i] = ages[i]
    BY <1>1
<1>3. DOMAIN less = 1 .. n - 1
    BY <1>2
<1> HIDE DEF less
<1>4. 1 .. n - 1 = (1 .. n) \ {n}
    BY <1>1
<1> HIDE DEF n
<1>5. FreshIn(less, a) = FreshIn(ages, a) \ {n}
    BY <1>1, <1>2, <1>3, <1>4 DEF FreshIn
<1>6. QED
    BY <1>5 DEF n, less

LEMMA FreshAged ==
    ASSUME NEW ages \in Seq(Nat), NEW a \in Ages
    PROVE  FreshIn(Aged(ages, ReportWindow + 1), a) = IF a = 0 THEN {} ELSE FreshIn(ages, a - 1)
<1> DEFINE old == Aged(ages, ReportWindow + 1)
<1>1. ReportWindow + 1 \in Nat /\ ReportWindow \in Nat /\ a \in Nat /\ a <= ReportWindow
    BY Constants DEF Ages
<1>2. /\ old \in Seq(Nat) /\ Len(old) = Len(ages)
      /\ \A i \in 1 .. Len(ages) :
            old[i] = IF ages[i] < ReportWindow + 1 THEN ages[i] + 1 ELSE ReportWindow + 1
    BY <1>1, AgedIsSeq
<1> HIDE DEF old
<1>3. ASSUME NEW i \in 1 .. Len(ages)
      PROVE  old[i] <= a <=> a # 0 /\ ages[i] <= a - 1
    <2>1. ages[i] \in Nat
        OBVIOUS
    <2>2. QED
        BY <1>1, <1>2, <2>1
<1>4. DOMAIN old = 1 .. Len(ages) /\ DOMAIN ages = 1 .. Len(ages)
    BY <1>2
<1>5. QED
    BY <1>3, <1>4 DEF FreshIn, old

LEMMA StoredMembers ==
    ASSUME NEW f \in [Ages -> Nat], NEW a \in Ages
    PROVE  /\ \A z : z \in StoredIn(f, a) <=> \E b \in 0 .. a : \E m \in 1 .. f[b] : z = <<b, m>>
           /\ IsFiniteSet(StoredIn(f, a)) /\ Cardinality(StoredIn(f, a)) \in Nat
<1> DEFINE column == [b \in 0 .. a |-> {b} \X (1 .. f[b])]
           S == {column[b] : b \in 0 .. a}
<1>1. a \in Nat /\ 0 .. a \subseteq Ages /\ 0 \in Int /\ a \in Int
    BY Constants DEF Ages
<1>2. IsFiniteSet(0 .. a)
    BY <1>1, FS_Interval
<1>3. IsFiniteSet(S)
    <2>1. column \in Surjection(0 .. a, S)
        BY DEF Surjection
    <2> HIDE DEF S, column
    <2>2. QED
        BY <1>2, <2>1, FS_Surjection
<1>4. ASSUME NEW X \in S
      PROVE  IsFiniteSet(X)
    <2>1. PICK b \in 0 .. a : X = {b} \X (1 .. f[b])
        OBVIOUS
    <2>2. 1 \in Int /\ f[b] \in Int
        BY <1>1
    <2>3. IsFiniteSet({b}) /\ IsFiniteSet(1 .. f[b])
        BY <2>2, FS_Interval, FS_Singleton
    <2>4. QED
        BY <2>1, <2>3, FS_Product
<1>5. IsFiniteSet(UNION S)
    <2> HIDE DEF S, column
    <2>1. QED
        BY <1>3, <1>4, FS_UNION
<1>6. UNION S = StoredIn(f, a)
    BY DEF StoredIn
<1>7. \A z : z \in StoredIn(f, a) <=> \E b \in 0 .. a : \E m \in 1 .. f[b] : z = <<b, m>>
    BY DEF StoredIn
<1> HIDE DEF S, column
<1>8. QED
    BY <1>5, <1>6, <1>7, FS_CardinalityType

LEMMA StoredAdded ==
    ASSUME NEW f \in [Ages -> Nat], NEW g \in [Ages -> Nat], NEW b \in Ages, NEW a \in Ages,
           g = [f EXCEPT ![b] = f[b] + 1]
    PROVE  Cardinality(StoredIn(g, a)) = IF b <= a THEN Cardinality(StoredIn(f, a)) + 1
                                                   ELSE Cardinality(StoredIn(f, a))
<1> DEFINE new == <<b, f[b] + 1>>
<1>1. /\ \A z : z \in StoredIn(f, a) <=> \E c \in 0 .. a : \E m \in 1 .. f[c] : z = <<c, m>>
      /\ \A z : z \in StoredIn(g, a) <=> \E c \in 0 .. a : \E m \in 1 .. g[c] : z = <<c, m>>
      /\ IsFiniteSet(StoredIn(f, a))
    BY StoredMembers
<1>2. /\ g[b] = f[b] + 1 /\ f[b] \in Nat /\ \A c \in Ages \ {b} : g[c] = f[c]
      /\ a \in Nat /\ b \in Nat /\ \A c \in 0 .. a : c \in Ages
    BY Constants DEF Ages
<1>3. 1 .. f[b] + 1 = (1 .. f[b]) \cup {f[b] + 1} /\ f[b] + 1 \notin 1 .. f[b]
    BY <1>2
<1>4. new \notin StoredIn(f, a)
    BY <1>1, <1>3
<1>5. CASE b <= a
    <2>1. b \in 0 .. a
        BY <1>2, <1>5
    <2>2. ASSUME NEW z
          PROVE  z \in StoredIn(g, a) <=> z \in StoredIn(f, a) \/ z = new
        <3>1. ASSUME z \in StoredIn(g, a)
              PROVE  z \in StoredIn(f, a) \/ z = new
            <4>1. PICK c \in 0 .. a, m \in Nat : m \in 1 .. g[c] /\ z = <<c, m>>
                BY <1>1, <3>1
            <4>2. CASE c = b
                BY <1>1, <1>2, <1>3, <4>1, <4>2
            <4>3. CASE c # b
                BY <1>1, <1>2, <4>1, <4>3
            <4>4. QED
                BY <4>2, <4>3
        <3>2. ASSUME z \in StoredIn(f, a)
              PROVE  z \in StoredIn(g, a)
            <4>1. PICK c \in 0 .. a, m \in Nat : m \in 1 .. f[c] /\ z = <<c, m>>
                BY <1>1, <3>2
            <4>2. m \in 1 .. g[c]
                <5>1. CASE c = b
                    BY <1>2, <1>3, <4>1, <5>1
                <5>2. CASE c # b
                    BY <1>2, <4>1, <5>2
                <5>3. QED
                    BY <5>1, <5>2
            <4>3. QED
                BY <1>1, <4>1, <4>2
        <3>3. new \in StoredIn(g, a)
            <4>1. f[b] + 1 \in 1 .. g[b]
                BY <1>2
            <4>2. QED
                BY <1>1, <2>1, <4>1
        <3>4. QED
            BY <3>1, <3>2, <3>3
    <2>3. StoredIn(g, a) = StoredIn(f, a) \cup {new}
        BY <2>2
    <2>4. QED
        <3> HIDE DEF new
        <3>1. Cardinality(StoredIn(f, a) \cup {new}) = Cardinality(StoredIn(f, a)) + 1
            BY <1>1, <1>4, FS_AddElement
        <3>2. QED
            BY <1>2, <1>5, <2>3, <3>1
<1>6. CASE ~(b <= a)
    <2>1. \A c \in 0 .. a : g[c] = f[c]
        BY <1>2, <1>6
    <2>2. \A z : z \in StoredIn(g, a) <=> z \in StoredIn(f, a)
        BY <1>1, <2>1
    <2>3. StoredIn(g, a) = StoredIn(f, a)
        BY <2>2
    <2>4. Cardinality(StoredIn(g, a)) = Cardinality(StoredIn(f, a))
        BY <2>3
    <2>5. a \in Nat /\ b \in Nat
        BY <1>2
    <2> HIDE DEF new
    <2>6. QED
        BY <1>6, <2>4, <2>5
<1>7. QED
    BY <1>5, <1>6

LEMMA StoredAged ==
    ASSUME NEW f \in [Ages -> Nat], NEW g \in [Ages -> Nat], NEW a \in Ages,
           \A c \in Ages : g[c] = IF c = 0 THEN 0 ELSE f[c - 1]
    PROVE  Cardinality(StoredIn(g, a)) = IF a = 0 THEN 0 ELSE Cardinality(StoredIn(f, a - 1))
<1>1. /\ \A z : z \in StoredIn(g, a) <=> \E c \in 0 .. a : \E m \in 1 .. g[c] : z = <<c, m>>
      /\ a \in Nat /\ \A c \in 0 .. a : c \in Ages
    <2>1. a \in Nat /\ \A c \in 0 .. a : c \in Ages
        BY Constants DEF Ages
    <2>2. \A z : z \in StoredIn(g, a) <=> \E c \in 0 .. a : \E m \in 1 .. g[c] : z = <<c, m>>
        BY StoredMembers
    <2>3. QED
        BY <2>1, <2>2
<1>2. CASE a = 0
    <2>1. 0 \in Ages /\ g[0] = 0
        BY <1>2
    <2>2. \A m : m \notin 1 .. g[0]
        BY <2>1
    <2>3. 0 .. a = {0}
        BY <1>2
    <2>4. StoredIn(g, a) = {}
        BY <1>1, <2>2, <2>3
    <2>5. QED
        BY <1>2, <2>4, FS_EmptySet
<1>3. CASE a # 0
    <2> DEFINE S == StoredIn(f, a - 1)  T == StoredIn(g, a)  h == [z \in S |-> <<z[1] + 1, z[2]>>]
    <2>1. a - 1 \in Ages /\ a - 1 \in Nat
        BY <1>1, <1>3, Constants DEF Ages
    <2>2. /\ \A z : z \in S <=> \E c \in 0 .. a - 1 : \E m \in 1 .. f[c] : z = <<c, m>>
          /\ IsFiniteSet(S)
        BY <2>1, StoredMembers
    <2>3. \A z : z \in T <=> \E c \in 0 .. a : \E m \in 1 .. g[c] : z = <<c, m>>
        BY <1>1
    <2> HIDE DEF S, T
    <2>4. ASSUME NEW z \in S
          PROVE  <<z[1] + 1, z[2]>> \in T /\ z[1] \in Nat /\ z = <<z[1], z[2]>>
        <3>1. PICK c \in 0 .. a - 1, m \in Nat : m \in 1 .. f[c] /\ z = <<c, m>>
            BY <2>2
        <3>2. c + 1 \in 0 .. a /\ c + 1 # 0 /\ (c + 1) - 1 = c /\ c \in Nat
            BY <1>1, <2>1
        <3>3. g[c + 1] = f[c]
            BY <1>1, <3>2
        <3>4. <<c + 1, m>> \in T
            BY <2>3, <3>1, <3>2, <3>3
        <3>5. QED
            BY <3>1, <3>2, <3>4
    <2>5. ASSUME NEW y \in T
          PROVE  \E z \in S : <<z[1] + 1, z[2]>> = y
        <3>1. PICK c \in 0 .. a, m \in Nat : m \in 1 .. g[c] /\ y = <<c, m>>
            BY <2>3
        <3>2. c \in Ages /\ c \in Nat
            BY <1>1
        <3>3. c # 0
            BY <3>1, <3>2
        <3>4. c - 1 \in 0 .. a - 1 /\ (c - 1) + 1 = c /\ g[c] = f[c - 1]
            BY <1>1, <3>2, <3>3
        <3>5. <<c - 1, m>> \in S
            BY <2>2, <3>1, <3>4
        <3>6. <<(c - 1) + 1, m>> = y
            BY <3>1, <3>4
        <3>7. QED
            BY <3>5, <3>6
    <2>6. ASSUME NEW x \in S, NEW y \in S, <<x[1] + 1, x[2]>> = <<y[1] + 1, y[2]>>
          PROVE  x = y
        <3>1. x[1] + 1 = y[1] + 1 /\ x[2] = y[2]
            BY <2>6
        <3>2. x[1] \in Nat /\ y[1] \in Nat /\ x = <<x[1], x[2]>> /\ y = <<y[1], y[2]>>
            BY <2>4
        <3>3. x[1] = y[1]
            BY <3>1, <3>2
        <3>4. QED
            BY <3>1, <3>2, <3>3
    <2>7. h \in [S -> T] /\ \A z \in S : h[z] = <<z[1] + 1, z[2]>>
        BY <2>4
    <2> HIDE DEF h
    <2>8. \A x, y \in S : h[x] = h[y] => x = y
        BY <2>6, <2>7
    <2>9. \A y \in T : \E z \in S : h[z] = y
        BY <2>5, <2>7
    <2>10. Cardinality(T) = Cardinality(S)
        BY <2>2, <2>7, <2>8, <2>9, SameSize
    <2>11. QED
        BY <1>3, <2>10 DEF S, T
<1>4. QED
    BY <1>2, <1>3

(* The three counts of PaidFor. *)
LEMMA PaidTyped ==
    ASSUME TypeInv, NEW u \in Users, NEW a \in Ages
    PROVE  /\ stamps["report"][u] \in Seq(Nat) /\ reported[u] \in [Ages -> Nat] /\ mixed[u] \in Nat
           /\ IsFiniteSet(Flying(u, a)) /\ Cardinality(Flying(u, a)) \in Nat
           /\ Cardinality(Stored(u, a)) \in Nat
           /\ IsFiniteSet(Fresh(u, a)) /\ Cardinality(Fresh(u, a)) \in Nat
<1>1. stamps["report"][u] \in Seq(Nat) /\ reported[u] \in [Ages -> Nat] /\ mixed[u] \in Nat
    BY DEF TypeInv, Typed, Kinds
<1>2. a \in Nat
    BY Constants DEF Ages
<1>3. IsFiniteSet(Flying(u, a)) /\ Cardinality(Flying(u, a)) \in Nat
    BY SlotSets DEF Flying
<1>4. Cardinality(Stored(u, a)) \in Nat
    BY <1>1, StoredMembers DEF Stored
<1>5. IsFiniteSet(Fresh(u, a)) /\ Cardinality(Fresh(u, a)) \in Nat
    BY <1>1, <1>2, FreshIsFinite DEF Fresh
<1>6. QED
    BY <1>1, <1>3, <1>4, <1>5

LEMMA KeptPaid ==
    ASSUME Paid, StoreKept
    PROVE  Paid'
<1>1. ASSUME NEW u \in Users, NEW a \in Ages
      PROVE  PaidFor(u, a)'
    <2>1. Flying(u, a)' = Flying(u, a)
        BY DEF StoreKept, SameReport, Flying, At
    <2>2. Fresh(u, a)' = Fresh(u, a) /\ Stored(u, a)' = Stored(u, a) /\ mixed' = mixed
        BY DEF StoreKept, reportVars, Fresh, Stored
    <2>3. QED
        BY <2>1, <2>2 DEF Paid, PaidFor
<1>2. QED
    BY <1>1 DEF Paid

LEMMA ReportBeginPaid ==
    ASSUME TypeInv, Paid, NEW p \in Slots, NEW u \in Callers \cup {None}, ReportBegin(p, u)
    PROVE  Paid'
<1> DEFINE refused == Today[SourceOf(u)] >= Cap[SourceOf(u)] \/ (u # None /\ Full("report", u))
           r == [Idle EXCEPT !.op = "report", !.pc = "store", !.u = u, !.today = TRUE]
<1>1. u \in Users \cup {None} /\ proc \in [Slots -> Process] /\ Idle \in Process
    BY IdleTyped, Constants DEF TypeInv, Typed
<1>2. r \in Process /\ r.pc = "store" /\ r.u = u /\ r.age = 0
    BY <1>1 DEF Process, Idle
<1>3. /\ proc[p].pc = "idle" /\ reported' = reported /\ mixed' = mixed
      /\ IF refused THEN Stop(p) ELSE Set(p, r)
      /\ \/ UNCHANGED stamps /\ (u = None \/ refused)
         \/ u # None /\ refused /\ Pruned("report", u)
         \/ u # None /\ ~refused /\ Stamped("report", u)
    BY DEF ReportBegin, CanBegin, At
<1> HIDE DEF refused, r
<1>4. /\ refused => proc'[p] = Idle
      /\ ~refused => proc'[p] = r
      /\ \A q \in Slots \ {p} : proc'[q] = proc[q]
    BY <1>1, <1>2, <1>3, SetTyped DEF Stop
<1>5. ASSUME NEW v \in Users, NEW a \in Ages
      PROVE  /\ p \notin Flying(v, a) /\ (p \in Flying(v, a)' <=> ~refused /\ v = u)
             /\ \A q \in Slots \ {p} : q \in Flying(v, a)' <=> q \in Flying(v, a)
    <2>1. 0 <= a
        BY Constants DEF Ages
    <2>2. p \notin Flying(v, a)
        BY <1>3 DEF Flying, At
    <2>3. p \in Flying(v, a)' <=> ~refused /\ v = u
        BY <1>2, <1>4, <2>1 DEF Flying, At, Idle
    <2>4. \A q \in Slots \ {p} : q \in Flying(v, a)' <=> q \in Flying(v, a)
        BY <1>4 DEF Flying, At
    <2>5. QED
        BY <2>2, <2>3, <2>4
<1>6. ASSUME NEW v \in Users, NEW a \in Ages
      PROVE  Flying(v, a)' = IF ~refused /\ v = u THEN Flying(v, a) \cup {p} ELSE Flying(v, a)
    <2>1. Flying(v, a) \subseteq Slots /\ Flying(v, a)' \subseteq Slots
        BY DEF Flying
    <2>2. QED
        BY <1>5, <2>1
<1>7. ASSUME NEW v \in Users
      PROVE  stamps'["report"][v] =
                IF v # u \/ UNCHANGED stamps THEN stamps["report"][v]
                ELSE IF refused THEN Within(stamps["report"][v], "report")
                     ELSE Append(Within(stamps["report"][v], "report"), 0)
    <2>1. stamps \in [Kinds -> [Users -> Seq(Nat)]] /\ "report" \in Kinds
        BY DEF TypeInv, Typed, Kinds
    <2>2. CASE UNCHANGED stamps
        BY <2>2
    <2>3. CASE refused /\ Pruned("report", u)
        BY <2>1, <2>3 DEF Pruned
    <2>4. CASE ~refused /\ Stamped("report", u)
        BY <2>1, <2>4 DEF Stamped
    <2>5. QED
        BY <1>3, <2>2, <2>3, <2>4
<1>8. ASSUME NEW v \in Users, NEW a \in Ages
      PROVE  PaidFor(v, a)'
    <2>1. PaidFor(v, a) /\ Stored(v, a)' = Stored(v, a) /\ mixed'[v] = mixed[v] /\ a \in Nat
        BY <1>3, Constants DEF Paid, Stored, Ages
    <2>2. /\ stamps["report"][v] \in Seq(Nat) /\ mixed[v] \in Nat
          /\ IsFiniteSet(Flying(v, a)) /\ Cardinality(Flying(v, a)) \in Nat
          /\ Cardinality(Stored(v, a)) \in Nat /\ Cardinality(Fresh(v, a)) \in Nat
        BY PaidTyped
    <2> DEFINE s == stamps["report"][v]  w == Within(s, "report")
    <2>3. w \in Seq(Nat) /\ Cardinality(FreshIn(w, a)) = Cardinality(FreshIn(s, a))
        <3>1. "report" \in Kinds /\ a \in Nat /\ a <= Window["report"] /\ s \in Seq(Nat)
            BY <2>1, <2>2, Constants DEF Kinds, Window, Ages
        <3> HIDE DEF s
        <3>2. QED
            BY <3>1, FreshWithin, WithinIsShorter
    <2>4. Cardinality(FreshIn(Append(w, 0), a)) = Cardinality(FreshIn(s, a)) + 1
        <3> HIDE DEF w, s
        <3>1. QED
            BY <2>1, <2>3, FreshAppended
    <2>5. CASE v # u \/ refused
        <3>1. stamps'["report"][v] = s \/ stamps'["report"][v] = w
            BY <1>7, <2>5
        <3> HIDE DEF w, s
        <3>2. Cardinality(FreshIn(stamps'["report"][v], a)) = Cardinality(FreshIn(s, a))
            BY <3>1, <2>3
        <3>3. Cardinality(Fresh(v, a)') = Cardinality(Fresh(v, a))
            BY <3>2 DEF Fresh, s
        <3>4. Flying(v, a)' = Flying(v, a)
            BY <1>6, <2>5
        <3>5. QED
            BY <2>1, <3>3, <3>4 DEF PaidFor
    <2>6. CASE v = u /\ ~refused
        <3>1. u # None
            BY <2>6, Constants
        <3>2. UNCHANGED stamps => FALSE
            <4>1. Stamped("report", u)
                BY <1>3, <2>6, <3>1
            <4>2. stamps'["report"][u] = Append(Within(stamps["report"][u], "report"), 0)
                BY <4>1, <2>6 DEF Stamped, TypeInv, Typed, Kinds
            <4>3. ASSUME UNCHANGED stamps
                  PROVE  FALSE
                <5>1. Append(w, 0) = s
                    BY <4>2, <4>3, <2>6
                <5> HIDE DEF w, s
                <5>2. Cardinality(FreshIn(s, a)) = Cardinality(FreshIn(s, a)) + 1
                    BY <2>4, <5>1
                <5>3. Cardinality(FreshIn(s, a)) \in Nat
                    BY <2>2 DEF Fresh, s
                <5>4. QED
                    BY <5>2, <5>3
            <4>4. QED
                BY <4>3
        <3>3. stamps'["report"][v] = Append(w, 0)
            BY <1>7, <2>6, <3>2
        <3>4. Cardinality(Fresh(v, a)') = Cardinality(Fresh(v, a)) + 1
            BY <2>4, <3>3 DEF Fresh
        <3>5. p \notin Flying(v, a) /\ Flying(v, a)' = Flying(v, a) \cup {p}
            BY <1>5, <1>6, <2>6
        <3>6. Cardinality(Flying(v, a)') = Cardinality(Flying(v, a)) + 1
            BY <2>2, <3>5, FS_AddElement
        <3>7. QED
            BY <2>1, <2>2, <3>4, <3>6 DEF PaidFor
    <2>7. QED
        BY <2>5, <2>6
<1>9. QED
    BY <1>8 DEF Paid

(* A report that ends leaves the count of those under way. *)
LEMMA EndedFlying ==
    ASSUME TypeInv, NEW p \in Slots, At(p, "store"), Stop(p), NEW v \in Users, NEW a \in Ages
    PROVE  /\ Flying(v, a)' = Flying(v, a) \ {p}
           /\ p \in Flying(v, a) <=> v = proc[p].u /\ proc[p].age <= a
<1>1. proc'[p] = Idle /\ \A q \in Slots \ {p} : proc'[q] = proc[q]
    BY IdleTyped, SetTyped DEF Stop, TypeInv, Typed
<1>2. \A q \in Slots \ {p} : q \in Flying(v, a)' <=> q \in Flying(v, a)
    BY <1>1 DEF Flying, At
<1>3. p \notin Flying(v, a)' /\ Flying(v, a) \subseteq Slots /\ Flying(v, a)' \subseteq Slots
    BY <1>1 DEF Flying, At, Idle
<1>4. Flying(v, a)' = Flying(v, a) \ {p}
    BY <1>2, <1>3
<1>5. p \in Flying(v, a) <=> v = proc[p].u /\ proc[p].age <= a
    BY DEF Flying
<1>6. QED
    BY <1>4, <1>5

LEMMA EndedFlyingSize ==
    ASSUME TypeInv, NEW p \in Slots, At(p, "store"), Stop(p), NEW v \in Users, NEW a \in Ages
    PROVE  Cardinality(Flying(v, a)') = IF v = proc[p].u /\ proc[p].age <= a
                                        THEN Cardinality(Flying(v, a)) - 1
                                        ELSE Cardinality(Flying(v, a))
<1>1. /\ Flying(v, a)' = Flying(v, a) \ {p}
      /\ p \in Flying(v, a) <=> v = proc[p].u /\ proc[p].age <= a
    BY EndedFlying
<1>2. IsFiniteSet(Flying(v, a))
    BY PaidTyped
<1>3. Cardinality(Flying(v, a) \ {p}) =
         IF p \in Flying(v, a) THEN Cardinality(Flying(v, a)) - 1 ELSE Cardinality(Flying(v, a))
    BY <1>2, FS_RemoveElement
<1>4. QED
    BY <1>1, <1>3

LEMMA StorePaid ==
    ASSUME TypeInv, Paid, NEW p \in Slots, Store(p)
    PROVE  Paid'
<1> DEFINE u == proc[p].u  b == proc[p].age
<1>1. /\ Stop(p) /\ At(p, "store") /\ stamps' = stamps /\ mixed' = mixed
      /\ reported \in [Users -> [Ages -> Nat]] /\ b \in 0 .. ReportWindow + 1
    BY DEF Store, addVars, TypeInv, Typed, Process
<1>2. u \in Users \cup {None} /\ ReportWindow \in Nat
    BY Constants DEF TypeInv, Asked, Store, At
<1>3. ASSUME NEW v \in Users, NEW a \in Ages
      PROVE  Cardinality(Stored(v, a)') = IF v = u /\ b <= a THEN Cardinality(Stored(v, a)) + 1
                                                             ELSE Cardinality(Stored(v, a))
    <2>1. a \in Nat /\ a <= ReportWindow
        BY Constants DEF Ages
    <2>2. CASE u = None \/ b > ReportWindow
        <3>1. reported' = reported
            BY <2>2 DEF Store
        <3>2. ~(v = u /\ b <= a)
            BY <1>1, <1>2, <2>1, <2>2, Constants
        <3> HIDE DEF u, b
        <3>3. Stored(v, a)' = Stored(v, a)
            BY <3>1 DEF Stored
        <3>4. QED
            BY <3>2, <3>3
    <2>3. CASE ~(u = None \/ b > ReportWindow)
        <3>1. u \in Users /\ b \in Ages
            BY <1>1, <1>2, <2>3 DEF Ages
        <3>2. reported' = [reported EXCEPT ![u][b] = reported[u][b] + 1]
            BY <1>1, <2>3, <3>1 DEF Store
        <3> HIDE DEF u, b
        <3>3. reported[u] \in [Ages -> Nat] /\ reported[u][b] + 1 \in Nat
            BY <1>1, <3>1
        <3>4. reported'[u] = [reported[u] EXCEPT ![b] = reported[u][b] + 1]
            BY <1>1, <3>1, <3>2
        <3>5. [reported[u] EXCEPT ![b] = reported[u][b] + 1] \in [Ages -> Nat]
            BY <3>1, <3>3
        <3>6. CASE v = u
            <4>1. Cardinality(StoredIn(reported'[u], a)) =
                     IF b <= a THEN Cardinality(StoredIn(reported[u], a)) + 1
                               ELSE Cardinality(StoredIn(reported[u], a))
                BY <3>1, <3>3, <3>4, <3>5, StoredAdded
            <4>2. QED
                BY <3>6, <4>1 DEF Stored
        <3>7. CASE v # u
            <4>1. reported'[v] = reported[v]
                BY <1>1, <3>1, <3>2, <3>7
            <4>2. Stored(v, a)' = Stored(v, a)
                BY <4>1 DEF Stored
            <4>3. QED
                BY <3>7, <4>2
        <3>8. QED
            BY <3>6, <3>7
    <2>4. QED
        BY <2>2, <2>3
<1>4. ASSUME NEW v \in Users, NEW a \in Ages
      PROVE  PaidFor(v, a)'
    <2>1. PaidFor(v, a) /\ Fresh(v, a)' = Fresh(v, a)
        BY <1>1 DEF Paid, Fresh
    <2>2. Cardinality(Flying(v, a)') = IF v = u /\ b <= a THEN Cardinality(Flying(v, a)) - 1
                                                          ELSE Cardinality(Flying(v, a))
        BY <1>1, EndedFlyingSize
    <2>3. /\ Cardinality(Flying(v, a)) \in Nat /\ Cardinality(Stored(v, a)) \in Nat
        BY PaidTyped
    <2> HIDE DEF u, b
    <2>4. Cardinality(Stored(v, a)') + Cardinality(Flying(v, a)') =
             Cardinality(Stored(v, a)) + Cardinality(Flying(v, a))
        BY <1>3, <2>2, <2>3
    <2>5. QED
        BY <1>1, <2>1, <2>4 DEF PaidFor
<1>5. QED
    BY <1>4 DEF Paid

(* The last stamp goes with the report; where it was not the report's own,  *)
(* the user is owed one.                                                    *)
LEMMA ReleasePaid ==
    ASSUME TypeInv, Paid, NEW p \in Slots, Release(p)
    PROVE  Paid'
<1> DEFINE u == proc[p].u  b == proc[p].age  s == stamps["report"][u]
           own == s # <<>> /\ s[Len(s)] = b
<1>1. Stop(p) /\ At(p, "store") /\ reported' = reported
    BY DEF Release
<1>2. u \in Users \cup {None}
    BY <1>1, Constants DEF TypeInv, Asked, At
<1>3. stamps \in [Kinds -> [Users -> Seq(Nat)]] /\ mixed \in [Users -> Nat] /\ "report" \in Kinds
    BY DEF TypeInv, Typed, Kinds
<1>4. ASSUME NEW v \in Users, v # u
      PROVE  stamps'["report"][v] = stamps["report"][v] /\ mixed'[v] = mixed[v]
    BY <1>2, <1>3, <1>4 DEF Release
<1>5. ASSUME NEW v \in Users, v = u
      PROVE  /\ stamps'["report"][v] = IF s = <<>> THEN s ELSE SubSeq(s, 1, Len(s) - 1)
             /\ mixed'[v] = IF own \/ s = <<>> THEN mixed[v] ELSE mixed[v] + 1
    <2>1. u \in Users /\ u # None
        BY <1>5, Constants
    <2>2. /\ stamps' = [stamps EXCEPT !["report"][u] =
                           IF s = <<>> THEN s ELSE SubSeq(s, 1, Len(s) - 1)]
          /\ mixed' = [mixed EXCEPT ![u] = IF own \/ s = <<>> THEN mixed[u] ELSE mixed[u] + 1]
        BY <1>3, <2>1 DEF Release
    <2> HIDE DEF s, own, u
    <2>3. QED
        BY <1>3, <1>5, <2>1, <2>2
<1>6. ASSUME NEW v \in Users, NEW a \in Ages
      PROVE  PaidFor(v, a)'
    <2>1. PaidFor(v, a) /\ Stored(v, a)' = Stored(v, a) /\ a \in Nat
        BY <1>1, Constants DEF Paid, Stored, Ages
    <2>2. Cardinality(Flying(v, a)') = IF v = u /\ b <= a THEN Cardinality(Flying(v, a)) - 1
                                                          ELSE Cardinality(Flying(v, a))
        BY <1>1, EndedFlyingSize
    <2>3. /\ Cardinality(Flying(v, a)) \in Nat /\ Cardinality(Stored(v, a)) \in Nat
          /\ Cardinality(Fresh(v, a)) \in Nat /\ mixed[v] \in Nat /\ IsFiniteSet(Fresh(v, a))
          /\ stamps["report"][v] \in Seq(Nat)
        BY PaidTyped
    <2>4. CASE v # u
        <3>1. Fresh(v, a)' = Fresh(v, a) /\ mixed'[v] = mixed[v]
            BY <1>4, <2>4 DEF Fresh
        <3> HIDE DEF u, b, s, own
        <3>2. QED
            BY <2>1, <2>2, <2>4, <3>1 DEF PaidFor
    <2>5. CASE v = u /\ s = <<>>
        <3>1. Fresh(v, a)' = Fresh(v, a) /\ mixed'[v] = mixed[v]
            BY <1>5, <2>5 DEF Fresh
        <3> HIDE DEF u, b, s, own
        <3>2. Cardinality(Flying(v, a)') <= Cardinality(Flying(v, a))
              /\ Cardinality(Flying(v, a)') \in Int
            BY <2>2, <2>3
        <3>3. QED
            BY <2>1, <2>3, <3>1, <3>2 DEF PaidFor
    <2>6. CASE v = u /\ s # <<>>
        <3>1. /\ stamps'["report"][v] = SubSeq(s, 1, Len(s) - 1)
              /\ mixed'[v] = IF own THEN mixed[v] ELSE mixed[v] + 1
            BY <1>5, <2>6
        <3>2. s = stamps["report"][v] /\ s \in Seq(Nat) /\ s # <<>>
            BY <2>3, <2>6
        <3>3. own <=> s[Len(s)] = b
            BY <3>2
        <3> HIDE DEF u, b, s, own
        <3>4. FreshIn(SubSeq(s, 1, Len(s) - 1), a) = FreshIn(s, a) \ {Len(s)}
            BY <2>1, <3>2, FreshShortened
        <3>5. Fresh(v, a)' = Fresh(v, a) \ {Len(s)}
            BY <3>1, <3>2, <3>4 DEF Fresh
        <3>6. Cardinality(Fresh(v, a)') = IF Len(s) \in Fresh(v, a) THEN Cardinality(Fresh(v, a)) - 1
                                                                   ELSE Cardinality(Fresh(v, a))
            BY <2>3, <3>5, FS_RemoveElement
        <3>7. Len(s) \in Fresh(v, a) <=> s[Len(s)] <= a
            <4>1. Len(s) \in DOMAIN s
                BY <3>2
            <4>2. QED
                BY <3>2, <4>1 DEF Fresh, FreshIn
        <3>8. CASE own
            <4>1. Len(s) \in Fresh(v, a) <=> v = u /\ b <= a
                BY <2>6, <3>3, <3>7, <3>8
            <4>2. mixed'[v] = mixed[v]
                BY <3>1, <3>8
            <4>3. CASE Len(s) \in Fresh(v, a)
                BY <2>1, <2>2, <2>3, <3>6, <4>1, <4>2, <4>3 DEF PaidFor
            <4>4. CASE Len(s) \notin Fresh(v, a)
                BY <2>1, <2>2, <2>3, <3>6, <4>1, <4>2, <4>4 DEF PaidFor
            <4>5. QED
                BY <4>3, <4>4
        <3>9. CASE ~own
            <4>1. mixed'[v] = mixed[v] + 1
                BY <3>1, <3>9
            <4>2. /\ Cardinality(Flying(v, a)') <= Cardinality(Flying(v, a))
                  /\ Cardinality(Flying(v, a)') \in Int
                BY <2>2, <2>3
            <4>3. /\ Cardinality(Fresh(v, a)') >= Cardinality(Fresh(v, a)) - 1
                  /\ Cardinality(Fresh(v, a)') \in Int
                BY <2>3, <3>6
            <4>4. QED
                BY <2>1, <2>3, <4>1, <4>2, <4>3 DEF PaidFor
        <3>10. QED
            BY <3>8, <3>9
    <2>7. QED
        BY <2>4, <2>5, <2>6
<1>7. QED
    BY <1>6 DEF Paid

(* What was of an age is a tick older, on both sides. *)
LEMMA TickPaid ==
    ASSUME TypeInv, Paid, Tick
    PROVE  Paid'
<1>1. /\ proc' = [p \in Slots |-> Later(p)] /\ mixed' = mixed /\ Typed
      /\ reported' = [u \in Users |-> [a \in Ages |-> IF a = 0 THEN 0 ELSE reported[u][a - 1]]]
    BY DEF Tick, Later, TypeInv
<1>2. ASSUME NEW u \in Users
      PROVE  stamps'["report"][u] = Aged(stamps["report"][u], ReportWindow + 1)
    BY DEF Tick, Kinds, Window
<1>3. ASSUME NEW u \in Users, NEW a \in Ages
      PROVE  PaidFor(u, a)'
    <2>1. a \in Nat /\ a <= ReportWindow /\ ReportWindow \in Nat
        BY Constants DEF Ages
    <2>2. /\ stamps["report"][u] \in Seq(Nat) /\ reported[u] \in [Ages -> Nat] /\ mixed[u] \in Nat
        BY PaidTyped
    <2>3. Fresh(u, a)' = IF a = 0 THEN {} ELSE Fresh(u, a - 1)
        BY <1>2, <2>2, FreshAged DEF Fresh
    <2>4. Cardinality(Stored(u, a)') = IF a = 0 THEN 0 ELSE Cardinality(Stored(u, a - 1))
        <3> DEFINE g == [c \in Ages |-> IF c = 0 THEN 0 ELSE reported[u][c - 1]]
        <3>1. TypeInv'
            BY TickTyped
        <3>2. reported'[u] = g /\ reported'[u] \in [Ages -> Nat]
            BY <1>1, <3>1 DEF TypeInv, Typed
        <3>3. \A c \in Ages : g[c] = IF c = 0 THEN 0 ELSE reported[u][c - 1]
            OBVIOUS
        <3> HIDE DEF g
        <3>4. Cardinality(StoredIn(reported'[u], a)) =
                 IF a = 0 THEN 0 ELSE Cardinality(StoredIn(reported[u], a - 1))
            <4>1. g \in [Ages -> Nat] /\ reported[u] \in [Ages -> Nat]
                BY <2>2, <3>2
            <4>2. Cardinality(StoredIn(g, a)) =
                     IF a = 0 THEN 0 ELSE Cardinality(StoredIn(reported[u], a - 1))
                BY <3>3, <4>1, StoredAged, Zenon
            <4>3. QED
                BY <3>2, <4>2
        <3>5. QED
            BY <3>4 DEF Stored
    <2>5. ASSUME NEW q \in Slots
          PROVE  q \in Flying(u, a)' <=> a # 0 /\ q \in Flying(u, a - 1)
        <3>1. /\ proc'[q].pc = proc[q].pc /\ proc'[q].u = proc[q].u
              /\ proc[q].pc = "store" =>
                   proc'[q].age = IF proc[q].age <= ReportWindow THEN proc[q].age + 1 ELSE proc[q].age
            BY <1>1, LaterTyped DEF At
        <3>2. proc[q].age \in 0 .. ReportWindow + 1
            BY <1>1 DEF Typed, Process
        <3>3. proc[q].pc = "store" => (proc'[q].age <= a <=> a # 0 /\ proc[q].age <= a - 1)
            BY <2>1, <3>1, <3>2
        <3>4. QED
            BY <3>1, <3>3 DEF Flying, At
    <2>6. Flying(u, a)' = IF a = 0 THEN {} ELSE Flying(u, a - 1)
        <3>1. Flying(u, a)' \subseteq Slots /\ Flying(u, a - 1) \subseteq Slots
            BY DEF Flying
        <3>2. QED
            BY <2>5, <3>1
    <2>7. CASE a = 0
        <3>1. Cardinality({}) = 0
            BY FS_EmptySet
        <3>2. /\ Cardinality(Fresh(u, a)') = 0 /\ Cardinality(Flying(u, a)') = 0
              /\ Cardinality(Stored(u, a)') = 0 /\ mixed'[u] = mixed[u]
            BY <1>1, <2>3, <2>4, <2>6, <2>7, <3>1
        <3>3. QED
            BY <2>2, <3>2 DEF PaidFor
    <2>8. CASE a # 0
        <3>1. a - 1 \in Ages
            BY <2>1, <2>8 DEF Ages
        <3>2. /\ Cardinality(Fresh(u, a)') = Cardinality(Fresh(u, a - 1))
              /\ Cardinality(Flying(u, a)') = Cardinality(Flying(u, a - 1))
              /\ Cardinality(Stored(u, a)') = Cardinality(Stored(u, a - 1)) /\ mixed'[u] = mixed[u]
            BY <1>1, <2>3, <2>4, <2>6, <2>8
        <3>3. PaidFor(u, a - 1)
            BY <3>1 DEF Paid
        <3>4. QED
            BY <3>2, <3>3 DEF PaidFor
    <2>9. QED
        BY <2>7, <2>8
<1>4. QED
    BY <1>3 DEF Paid

(* Nothing is counted, and nothing stored. *)
LEMMA NothingStored ==
    ASSUME NEW f \in [Ages -> Nat], \A c \in Ages : f[c] = 0, NEW a \in Ages
    PROVE  Cardinality(StoredIn(f, a)) = 0
<1>1. \A c \in 0 .. a : c \in Ages
    BY Constants DEF Ages
<1>2. \A z : z \in StoredIn(f, a) <=> \E c \in 0 .. a : \E m \in 1 .. f[c] : z = <<c, m>>
    BY StoredMembers
<1>3. \A m : m \notin 1 .. 0
    OBVIOUS
<1>4. StoredIn(f, a) = {}
    BY <1>1, <1>2, <1>3
<1>5. QED
    BY <1>4, FS_EmptySet

LEMMA NoReportsStored ==
    ASSUME NEW u \in Users, NEW a \in Ages
    PROVE  Cardinality(StoredIn(NoReports[u], a)) = 0
<1>1. NoReports[u] \in [Ages -> Nat] /\ \A c \in Ages : NoReports[u][c] = 0
    BY DEF NoReports
<1>2. QED
    BY <1>1, NothingStored

LEMMA RestartPaid ==
    ASSUME Restart
    PROVE  Paid'
<1>1. ASSUME NEW u \in Users, NEW a \in Ages
      PROVE  PaidFor(u, a)'
    <2>1. Cardinality(Stored(u, a)') = 0
        BY NoReportsStored DEF Restart, Stored
    <2>2. Flying(u, a)' = {}
        BY DEF Restart, Flying, At, Idle
    <2>3. Fresh(u, a)' = {} /\ mixed'[u] = 0
        BY DEF Restart, Fresh, FreshIn, NoAges, Kinds
    <2>4. Cardinality({}) = 0
        BY FS_EmptySet
    <2>5. QED
        BY <2>1, <2>2, <2>3, <2>4 DEF PaidFor
<1>2. QED
    BY <1>1 DEF Paid

LEMMA InitPaid == Init => Paid
<1> SUFFICES ASSUME Init PROVE Paid
    OBVIOUS
<1>1. ASSUME NEW u \in Users, NEW a \in Ages
      PROVE  PaidFor(u, a)
    <2>1. Cardinality(Stored(u, a)) = 0
        BY NoReportsStored DEF Init, Stored
    <2>2. Flying(u, a) = {}
        BY DEF Init, Flying, At, Idle
    <2>3. Fresh(u, a) = {} /\ mixed[u] = 0
        BY DEF Init, Fresh, FreshIn, NoAges, Kinds
    <2>4. Cardinality({}) = 0
        BY FS_EmptySet
    <2>5. QED
        BY <2>1, <2>2, <2>3, <2>4 DEF PaidFor
<1>2. QED
    BY <1>1 DEF Paid

LEMMA PaidStep == TypeInv /\ Windows /\ Paid /\ [Next]_vars => Paid'
BY ReportSteps, KeptPaid, ReportBeginPaid, StorePaid, ReleasePaid, TickPaid, RestartPaid

(* No more stamps than the limit, and so no more reports. *)
LEMMA ReportsFollow == TypeInv /\ Windows /\ Counted /\ Paid => ReportsBounded
<1> SUFFICES ASSUME TypeInv, Windows, Counted, Paid PROVE ReportsBounded
    OBVIOUS
<1>1. ASSUME NEW u \in Users
      PROVE  InWindow(u) <= ReportLimit + mixed[u]
    <2>1. ReportWindow \in Ages /\ ReportLimit \in Nat /\ ReportWindow \in Nat
        BY Constants DEF Ages
    <2>2. InWindow(u) = Cardinality(Stored(u, ReportWindow)) + Cardinality(Flying(u, ReportWindow))
        BY DEF InWindow, Stored, StoredIn, Flying, Ages
    <2>3. PaidFor(u, ReportWindow)
        BY <2>1 DEF Paid
    <2>4. stamps["report"][u] \in Seq(Nat) /\ mixed[u] \in Nat
        BY <2>1, PaidTyped
    <2>5. Len(stamps["report"][u]) <= ReportLimit
        BY DEF Windows, Limit, Kinds
    <2>6. Cardinality(Fresh(u, ReportWindow)) <= Len(stamps["report"][u])
        BY <2>1, <2>4, FreshIsFinite DEF Fresh
    <2>7. /\ Cardinality(Stored(u, ReportWindow)) \in Nat
          /\ Cardinality(Flying(u, ReportWindow)) \in Nat
          /\ Cardinality(Fresh(u, ReportWindow)) \in Nat
        BY <2>1, PaidTyped
    <2>8. Len(stamps["report"][u]) \in Nat
        BY <2>4
    <2>9. QED
        BY <2>1, <2>2, <2>3, <2>4, <2>5, <2>6, <2>7, <2>8 DEF PaidFor
<1>2. QED
    BY <1>1 DEF Counted, ReportsBounded

-----------------------------------------------------------------------------
(* The cap on pending requests: a request let on to the add is an accept,   *)
(* or fitted under the cap with the list as it was then.                    *)

Sent(u) == {v \in Users : <<u, v>> \in invites}

CheckedBy(r) ==
    /\ r.pc = "incoming" => r.new = 0
    /\ r.pc = "add" => r.new = 0 \/ r.seen + r.new <= PendingCap

Checked == \A p \in Slots : CheckedBy(proc[p])

LEMMA PendingIsSent ==
    ASSUME NEW u
    PROVE  /\ Pending(u) = Cardinality(Sent(u)) /\ Pending(u)' = Cardinality(Sent(u)')
           /\ IsFiniteSet(Sent(u)) /\ IsFiniteSet(Sent(u)')
           /\ Pending(u) \in Nat /\ Pending(u)' \in Nat
BY UserSets DEF Pending, Sent

LEMMA SetChecked ==
    ASSUME Typed, Checked, NEW p \in Slots, NEW r \in Process, Set(p, r), CheckedBy(r)
    PROVE  Checked'
<1>1. proc'[p] = r /\ \A q \in Slots \ {p} : proc'[q] = proc[q]
    BY SetTyped DEF Typed
<1>2. QED
    BY <1>1 DEF Checked, CheckedBy

LEMMA QuietChecked ==
    ASSUME NEW r, r.pc \notin Adding
    PROVE  CheckedBy(r)
BY DEF CheckedBy, Adding

LEMMA StopChecked ==
    ASSUME Typed, Checked, NEW p \in Slots, Stop(p)
    PROVE  Checked'
<1>1. Idle \in Process /\ Idle.pc = "idle"
    BY IdleTyped DEF Idle
<1>2. CheckedBy(Idle)
    BY <1>1, QuietChecked DEF Adding
<1>3. Set(p, Idle)
    BY DEF Stop
<1>4. QED
    BY <1>1, <1>2, <1>3, SetChecked

LEMMA LimitedChecked ==
    ASSUME Typed, Checked, NEW p \in Slots, NEW k, NEW r \in Process, Limited(p, k, r), CheckedBy(r)
    PROVE  Checked'
<1>1. CASE Stop(p)
    BY <1>1, StopChecked
<1>2. CASE Set(p, r)
    BY <1>2, SetChecked
<1>3. QED
    BY <1>1, <1>2 DEF Limited

LEMMA FailsOpenChecked ==
    ASSUME Typed, Checked, NEW p \in Slots, FailsOpen(p)
    PROVE  Checked'
<1> DEFINE r == [proc[p] EXCEPT !.pc = "deliver", !.open = TRUE]
<1>1. r \in Process /\ r.pc = "deliver"
    BY OpenedTyped DEF Typed
<1>2. Set(p, r)
    BY DEF FailsOpen
<1> HIDE DEF r
<1>3. CheckedBy(r)
    BY <1>1 DEF CheckedBy
<1>4. QED
    BY <1>1, <1>2, <1>3, SetChecked

LEMMA AddIncomingChecked ==
    ASSUME TypeInv, Checked, NEW p \in Slots, AddIncoming(p)
    PROVE  Checked'
<1> DEFINE new == Asking(proc[p])
           onward == Onward(proc[p])
           limited == [proc[p] EXCEPT !.pc = "count", !.new = new]
<1>1. proc[p] \in Process /\ Typed /\ proc[p].pc = "incoming" /\ proc[p].new = 0
    BY DEF TypeInv, Typed, AddIncoming, At, Checked, CheckedBy
<1>2. onward \in Process /\ onward.new = 0 /\ onward.pc = "add" /\ new \in Nat
    BY <1>1, OnwardTyped
<1>3. limited \in Process /\ limited.pc = "count"
    <2> HIDE DEF new
    <2>1. QED
        BY <1>1, <1>2 DEF Process
<1>4. Set(p, onward) \/ Limited(p, "add", limited) \/ Stop(p)
    BY LetOnSet DEF AddIncoming
<1> HIDE DEF onward, limited
<1>5. CheckedBy(onward) /\ CheckedBy(limited)
    BY <1>2, <1>3 DEF CheckedBy
<1>6. QED
    BY <1>1, <1>2, <1>3, <1>4, <1>5, SetChecked, LimitedChecked, StopChecked

LEMMA CodeResolveChecked ==
    ASSUME TypeInv, Checked, NEW p \in Slots, CodeResolve(p)
    PROVE  Checked'
<1>1. proc[p] \in Process /\ Typed
    BY DEF TypeInv, Typed
<1>2. ASSUME NEW v \in Users, Set(p, [proc[p] EXCEPT !.pc = "count", !.ids = {v}])
      PROVE  Checked'
    <2> DEFINE r == [proc[p] EXCEPT !.pc = "count", !.ids = {v}]
    <2>1. r \in Process /\ r.pc = "count" /\ Set(p, r)
        BY <1>1, <1>2 DEF Process
    <2> HIDE DEF r
    <2>2. CheckedBy(r)
        BY <2>1 DEF CheckedBy
    <2>3. QED
        BY <1>1, <2>1, <2>2, SetChecked
<1>3. QED
    BY <1>1, <1>2, StopChecked DEF CodeResolve

LEMMA AddCountChecked ==
    ASSUME TypeInv, Checked, NEW p \in Slots, AddCount(p)
    PROVE  Checked'
<1> DEFINE r == Onward(proc[p])
<1>1. proc[p] \in Process /\ Typed
    BY DEF TypeInv, Typed
<1>2. r \in Process /\ r.pc = "add" /\ r.new = proc[p].new /\ r.seen = Pending(proc[p].u)
    BY <1>1, OnwardTyped
<1>3. \/ Pending(proc[p].u) + proc[p].new <= PendingCap /\ Set(p, r)
      \/ Stop(p)
    BY LetOnSet DEF AddCount
<1> HIDE DEF r
<1>4. Pending(proc[p].u) + proc[p].new <= PendingCap => CheckedBy(r)
    BY <1>2 DEF CheckedBy
<1>5. QED
    BY <1>1, <1>2, <1>3, <1>4, SetChecked, StopChecked

(* An add that lands grows no list but its caller's, by those asked who     *)
(* had not invited the caller.                                              *)
Landing(p) ==
    /\ \A v \in Users : v # proc[p].u => Sent(v)' \subseteq Sent(v)
    /\ \A v \in Users : v = proc[p].u =>
         Sent(v)' \subseteq (Sent(v) \cup proc[p].names) \cup (proc[p].ids \ Incoming(v))

LEMMA LandEdges ==
    ASSUME TypeInv, NEW p \in Slots, AddLand(p)
    PROVE  /\ proc[p] \in Process /\ proc[p].pc = "add" /\ proc[p].u \in Callers
           /\ invites' = invites \/ Landing(p)
<1> DEFINE r == proc[p]  u == r.u
           targets == {v \in r.ids \cup r.names : ~Blocked(u, v) /\ <<u, v>> \notin friends}
           mutual == targets \cap Incoming(u)
<1>1. r \in Process /\ r.pc = "add" /\ u \in Callers /\ u \in Users
    BY Constants DEF TypeInv, Typed, Asked, AddLand, At, Adding
<1>2. CASE invites' = invites
    BY <1>1, <1>2
<1>3. CASE invites' # invites
    <2>1. invites' = (invites \cup ({u} \X (targets \ mutual))) \ (mutual \X {u})
        BY <1>3 DEF AddLand
    <2>2. targets \subseteq r.ids \cup r.names
        OBVIOUS
    <2>3. \A v \in targets \ mutual : v \notin Incoming(u)
        OBVIOUS
    <2> HIDE DEF r, u, targets, mutual
    <2>4. ASSUME NEW x \in Users, NEW y \in Users, <<x, y>> \in invites'
          PROVE  <<x, y>> \in invites \/ (x = u /\ y \in targets \ mutual)
        BY <2>1, <2>4
    <2>5. ASSUME NEW v \in Users, v # u
          PROVE  Sent(v)' \subseteq Sent(v)
        BY <2>4, <2>5 DEF Sent
    <2>6. ASSUME NEW v \in Users, v = u, NEW y \in Sent(v)'
          PROVE  y \in (Sent(v) \cup r.names) \cup (r.ids \ Incoming(v))
        <3>1. y \in Users /\ <<v, y>> \in invites'
            BY DEF Sent
        <3>2. CASE <<v, y>> \in invites
            BY <3>1, <3>2 DEF Sent
        <3>3. CASE y \in targets \ mutual
            BY <2>2, <2>3, <2>6, <3>3
        <3>4. QED
            BY <2>4, <3>1, <3>2, <3>3
    <2>7. \A v \in Users : v = u => Sent(v)' \subseteq (Sent(v) \cup r.names) \cup (r.ids \ Incoming(v))
        BY <2>6
    <2>8. QED
        BY <1>1, <2>5, <2>7 DEF Landing, r, u
<1>4. QED
    BY <1>2, <1>3

LEMMA AddLandChecked ==
    ASSUME TypeInv, Checked, NEW p \in Slots, AddLand(p)
    PROVE  Checked'
BY StopChecked DEF AddLand, TypeInv

LEMMA FriendsChecked ==
    ASSUME TypeInv, Checked, NEW a \in Users \ Callers, NEW b \in Callers,
           Invite(a, b) \/ FriendsDelete(a, b) \/ Block(a, b)
    PROVE  Checked'
<1>1. CASE proc' = proc
    BY <1>1 DEF Checked, CheckedBy
<1>2. CASE FriendsDelete(a, b)
    <2> DEFINE freed(q) == [proc[q] EXCEPT !.blockers = proc[q].blockers \ {a}]
    <2>1. proc \in [Slots -> Process] /\ proc' = [q \in Slots |-> IF proc[q].u = b THEN freed(q) ELSE proc[q]]
        BY <1>2 DEF FriendsDelete, TypeInv, Typed
    <2>2. ASSUME NEW q \in Slots
          PROVE  CheckedBy(proc[q])'
        <3>1. freed(q).pc = proc[q].pc /\ freed(q).new = proc[q].new /\ freed(q).seen = proc[q].seen
            BY <2>1 DEF Process
        <3> HIDE DEF freed
        <3>2. /\ proc'[q].pc = proc[q].pc /\ proc'[q].new = proc[q].new /\ proc'[q].seen = proc[q].seen
            BY <2>1, <3>1
        <3>3. QED
            BY <3>2 DEF Checked, CheckedBy
    <2>3. QED
        BY <2>2 DEF Checked
<1>3. QED
    BY <1>1, <1>2 DEF Invite, Block

LEMMA ChatChecked ==
    ASSUME TypeInv, Checked, NEW p \in Slots,
           \/ ChatChannel(p) \/ ChatRoster(p) \/ ChatDeliver(p)
           \/ \E v \in Members : ChatList(p, v)
    PROVE  Checked'
<1>1. proc[p] \in Process /\ Typed
    BY DEF TypeInv, Typed
<1>2. CASE ChatChannel(p)
    <2> DEFINE r == [proc[p] EXCEPT !.pc = "roster"]
    <2>1. r \in Process /\ r.pc = "roster" /\ (Limited(p, "chat", r) \/ FailsOpen(p))
        BY <1>1, <1>2 DEF Process, ChatChannel
    <2> HIDE DEF r
    <2>2. CheckedBy(r)
        BY <2>1 DEF CheckedBy
    <2>3. QED
        BY <1>1, <2>1, <2>2, LimitedChecked, FailsOpenChecked
<1>3. CASE ChatRoster(p)
    <2> DEFINE others == Members \ {proc[p].u}
               r == [proc[p] EXCEPT !.pc = IF others = {} THEN "deliver" ELSE "lists", !.todo = others]
    <2>1. r \in Process /\ r.pc \notin Adding /\ (Set(p, r) \/ FailsOpen(p))
        <3>1. others \subseteq Users
            BY Constants
        <3>2. QED
            BY <1>1, <1>3, <3>1 DEF Process, ChatRoster, Adding
    <2> HIDE DEF r, others
    <2>2. QED
        BY <1>1, <2>1, QuietChecked, SetChecked, FailsOpenChecked
<1>4. CASE ChatDeliver(p)
    BY <1>1, <1>4, StopChecked DEF ChatDeliver
<1>5. ASSUME NEW v \in Members, ChatList(p, v)
      PROVE  Checked'
    <2> DEFINE r == [proc[p] EXCEPT !.todo = proc[p].todo \ {v}]
               last == [r EXCEPT !.pc = "deliver"]
    <2>1. r \in Process /\ r.pc = "lists"
        BY <1>1, <1>5 DEF Process, ChatList, At
    <2>2. last \in Process /\ last.pc = "deliver"
        <3> HIDE DEF r
        <3>1. QED
            BY <2>1 DEF Process
    <2>3. Stop(p) \/ FailsOpen(p) \/ Set(p, last) \/ Set(p, r)
        BY <1>1, <1>5, <2>1 DEF ChatList
    <2> HIDE DEF r, last
    <2>4. CheckedBy(r) /\ CheckedBy(last)
        BY <2>1, <2>2 DEF CheckedBy
    <2>5. QED
        BY <1>1, <2>1, <2>2, <2>3, <2>4, SetChecked, StopChecked, FailsOpenChecked
<1>6. QED
    BY <1>2, <1>3, <1>4, <1>5

LEMMA BeginChecked ==
    ASSUME TypeInv, Checked, NEW p \in Slots, NEW u \in Callers \cup {None},
           \/ u # None /\ (CodeBegin(p, u) \/ ChatBegin(p, u))
           \/ u # None /\ \E ids, names \in SUBSET Users : AddBegin(p, u, ids, names)
           \/ ReportBegin(p, u)
    PROVE  Checked'
<1>1. Idle \in Process /\ Typed /\ u \in Users \cup {None}
    BY IdleTyped, Constants DEF TypeInv
<1>2. CASE CodeBegin(p, u)
    <2> DEFINE r == [Idle EXCEPT !.op = "add", !.pc = "resolve", !.u = u, !.new = 1]
    <2>1. r \in Process /\ r.pc = "resolve" /\ Limited(p, "add", r)
        BY <1>1, <1>2 DEF Process, CodeBegin
    <2> HIDE DEF r
    <2>2. CheckedBy(r)
        BY <2>1 DEF CheckedBy
    <2>3. QED
        BY <1>1, <2>1, <2>2, LimitedChecked
<1>3. CASE ChatBegin(p, u)
    <2> DEFINE r == [Idle EXCEPT !.op = "chat", !.pc = "channel", !.u = u, !.blockers = BlockersOf(u)]
    <2>1. r \in Process /\ r.pc = "channel" /\ Set(p, r)
        <3>1. BlockersOf(u) \subseteq Users
            BY Constants DEF BlockersOf
        <3>2. QED
            BY <1>1, <1>3, <3>1 DEF Process, ChatBegin
    <2> HIDE DEF r
    <2>2. CheckedBy(r)
        BY <2>1 DEF CheckedBy
    <2>3. QED
        BY <1>1, <2>1, <2>2, SetChecked
<1>4. ASSUME NEW ids \in SUBSET Users, NEW names \in SUBSET Users, AddBegin(p, u, ids, names)
      PROVE  Checked'
    <2> DEFINE r == [Idle EXCEPT !.op = "add", !.pc = "incoming", !.u = u, !.ids = ids, !.names = names]
    <2>1. r \in Process /\ r.pc = "incoming" /\ r.new = 0 /\ Set(p, r)
        BY <1>1, <1>4 DEF Process, AddBegin, Idle
    <2> HIDE DEF r
    <2>2. CheckedBy(r)
        BY <2>1 DEF CheckedBy
    <2>3. QED
        BY <1>1, <2>1, <2>2, SetChecked
<1>5. CASE ReportBegin(p, u)
    <2> DEFINE r == [Idle EXCEPT !.op = "report", !.pc = "store", !.u = u, !.today = TRUE]
    <2>1. r \in Process /\ r.pc = "store"
        BY <1>1 DEF Process
    <2>2. Stop(p) \/ Set(p, r)
        BY <1>5 DEF ReportBegin
    <2> HIDE DEF r
    <2>3. CheckedBy(r)
        BY <2>1 DEF CheckedBy
    <2>4. QED
        BY <1>1, <2>1, <2>2, <2>3, SetChecked, StopChecked
<1>6. QED
    BY <1>2, <1>3, <1>4, <1>5

LEMMA TimeChecked ==
    ASSUME TypeInv, Checked, (\E p \in Slots : Store(p) \/ Release(p)) \/ Tick \/ Restart
    PROVE  Checked'
<1>1. ASSUME NEW p \in Slots, Store(p) \/ Release(p)
      PROVE  Checked'
    BY <1>1, StopChecked DEF TypeInv, Store, Release
<1>2. CASE Tick
    <2>1. proc' = [p \in Slots |-> Later(p)] /\ Typed
        BY <1>2 DEF Tick, Later, TypeInv
    <2>2. ASSUME NEW q \in Slots
          PROVE  CheckedBy(proc[q])'
        <3>1. proc'[q].pc = proc[q].pc /\ proc'[q].new = proc[q].new /\ proc'[q].seen = proc[q].seen
            BY <2>1, LaterTyped
        <3>2. QED
            BY <3>1 DEF Checked, CheckedBy
    <2>3. QED
        BY <2>2 DEF Checked
<1>3. CASE Restart
    BY <1>3 DEF Restart, Checked, CheckedBy, Idle
<1>4. QED
    BY <1>1, <1>2, <1>3

LEMMA CheckedStep == TypeInv /\ Checked /\ [Next]_vars => Checked'
<1> SUFFICES ASSUME TypeInv, Checked, [Next]_vars PROVE Checked'
    OBVIOUS
<1>1. CASE UNCHANGED vars
    BY <1>1 DEF vars, Checked, CheckedBy
<1>2. ASSUME NEW u \in Callers
      PROVE  u \in Callers \cup {None} /\ u # None
    BY Constants
<1>3. QED
    BY <1>1, <1>2, AddIncomingChecked, CodeResolveChecked, AddCountChecked, AddLandChecked,
        FriendsChecked, ChatChecked, BeginChecked, TimeChecked DEF Next

LEMMA InitChecked == Init => Checked
BY DEF Init, Checked, CheckedBy, Idle

-----------------------------------------------------------------------------
(* The theorems. *)

IInv == TypeInv /\ Social /\ Windows /\ Heard /\ Counted /\ Paid /\ Checked

LEMMA Initially == Init => IInv
BY InitTyped, InitWindows, InitHeard, InitCounted, InitPaid, InitChecked DEF IInv

LEMMA Inductive == IInv /\ [Next]_vars => IInv'
BY TypeStep, SocialStep, WindowStep, HeardStep, CountedStep, PaidStep, CheckedStep DEF IInv

LEMMA Always == Spec => []IInv
BY Initially, Inductive, PTL DEF Spec

(* A step of the caller's own request may leave more pending requests than  *)
(* the cap, and then it was overtaken since it was let on.                  *)
LEMMA LandBounded ==
    ASSUME TypeInv, Checked, NEW p \in Slots, AddLand(p), NEW u \in Users,
           Pending(u)' > Pending(u), Pending(u)' > PendingCap
    PROVE  At(p, "add") /\ proc[p].u = u /\ Overtaken(proc[p]) /\ At(p, "idle")'
<1>1. PICK r \in Process : r = proc[p] /\ CheckedBy(r)
    BY DEF TypeInv, Typed, Checked
<1>2. r.pc = "add" /\ r.u \in Users /\ (invites' = invites \/ Landing(p))
    BY <1>1, LandEdges, Constants
<1>3. /\ Pending(u) \in Nat /\ Pending(u)' \in Nat
      /\ Pending(u) = Cardinality(Sent(u)) /\ Pending(u)' = Cardinality(Sent(u)')
      /\ IsFiniteSet(Sent(u)) /\ IsFiniteSet(Sent(u)')
    BY PendingIsSent
<1>4. ASSUME Sent(u)' \subseteq Sent(u)
      PROVE  FALSE
    <2>1. Sent(u)' \in SUBSET Sent(u)
        BY <1>4
    <2>2. Cardinality(Sent(u)') <= Cardinality(Sent(u))
        BY <1>3, <2>1, FS_Subset
    <2>3. QED
        BY <1>3, <2>2
<1>5. Landing(p) /\ u = r.u
    <2>1. invites' = invites => Sent(u)' \subseteq Sent(u)
        BY DEF Sent
    <2>2. Landing(p) /\ u # r.u => Sent(u)' \subseteq Sent(u)
        BY <1>1 DEF Landing
    <2>3. QED
        BY <1>2, <1>4, <2>1, <2>2
<1>6. At(p, "idle")'
    <2>1. proc'[p] = Idle
        BY IdleTyped, SetTyped DEF AddLand, Stop, TypeInv, Typed
    <2>2. QED
        BY <2>1 DEF At, Idle
<1>7. Overtaken(r)
    <2>1. SUFFICES ASSUME ~Overtaken(r) PROVE FALSE
        OBVIOUS
    <2> DEFINE asked == r.ids \ Incoming(u)
    <2>2. /\ Asking(r) <= r.new /\ Asking(r) = Cardinality(r.names) + Cardinality(asked)
          /\ r.new = 0 \/ Pending(u) + r.new <= PendingCap
        <3>1. Asking(r) \in Nat /\ r.new \in Nat /\ r.seen \in Nat /\ PendingCap \in Nat
            BY OnwardTyped, Constants DEF Process
        <3>2. Asking(r) <= r.new /\ Pending(u) <= r.seen
            BY <1>3, <1>5, <2>1, <3>1 DEF Overtaken
        <3>3. r.new = 0 \/ r.seen + r.new <= PendingCap
            BY <1>1, <1>2 DEF CheckedBy
        <3>4. Asking(r) = Cardinality(r.names) + Cardinality(asked)
            BY <1>5 DEF Asking
        <3>5. QED
            BY <1>3, <3>1, <3>2, <3>3, <3>4
    <2>3. /\ IsFiniteSet(r.names) /\ Cardinality(r.names) \in Nat /\ IsFiniteSet(asked)
          /\ Cardinality(asked) \in Nat /\ r.new \in Nat /\ PendingCap \in Nat
        <3>1. r.names \subseteq Users /\ asked \subseteq Users /\ r.new \in Nat
            BY DEF Process
        <3>2. QED
            BY <3>1, UserSets, Constants
    <2> HIDE DEF asked
    <2>4. Sent(u)' \subseteq (Sent(u) \cup r.names) \cup asked
        BY <1>1, <1>5 DEF Landing, asked
    <2>5. IsFiniteSet(Sent(u) \cup r.names)
          /\ Cardinality(Sent(u) \cup r.names) <= Cardinality(Sent(u)) + Cardinality(r.names)
        <3>1. /\ IsFiniteSet(Sent(u) \cup r.names)
              /\ Cardinality(Sent(u) \cup r.names) =
                    Cardinality(Sent(u)) + Cardinality(r.names) - Cardinality(Sent(u) \cap r.names)
            BY <1>3, <2>3, FS_Union
        <3>2. Sent(u) \cap r.names \in SUBSET r.names
            OBVIOUS
        <3>3. IsFiniteSet(Sent(u) \cap r.names)
            BY <2>3, <3>2, FS_Subset
        <3>4. Cardinality(Sent(u) \cap r.names) \in Nat
            BY <3>3, FS_CardinalityType
        <3>5. QED
            BY <1>3, <2>3, <3>1, <3>4
    <2>6. /\ IsFiniteSet((Sent(u) \cup r.names) \cup asked)
          /\ Cardinality((Sent(u) \cup r.names) \cup asked) <=
                Cardinality(Sent(u)) + Cardinality(r.names) + Cardinality(asked)
        <3> DEFINE S == Sent(u) \cup r.names
        <3>1. IsFiniteSet(S) /\ Cardinality(S) <= Cardinality(Sent(u)) + Cardinality(r.names)
              /\ Cardinality(S) \in Nat
            BY <2>5, FS_CardinalityType
        <3> HIDE DEF S
        <3>2. /\ IsFiniteSet(S \cup asked)
              /\ Cardinality(S \cup asked) =
                    Cardinality(S) + Cardinality(asked) - Cardinality(S \cap asked)
            BY <2>3, <3>1, FS_Union
        <3>3. S \cap asked \in SUBSET asked
            OBVIOUS
        <3>4. IsFiniteSet(S \cap asked)
            BY <2>3, <3>3, FS_Subset
        <3>5. Cardinality(S \cap asked) \in Nat
            BY <3>4, FS_CardinalityType
        <3>6. Cardinality(S \cup asked) <= Cardinality(Sent(u)) + Cardinality(r.names) + Cardinality(asked)
            BY <1>3, <2>3, <3>1, <3>2, <3>5
        <3>7. QED
            BY <3>2, <3>6 DEF S
    <2>7. Cardinality(Sent(u)') <= Cardinality((Sent(u) \cup r.names) \cup asked)
        <3>1. Sent(u)' \in SUBSET ((Sent(u) \cup r.names) \cup asked)
            BY <2>4
        <3>2. QED
            BY <2>6, <3>1, FS_Subset
    <2>8. Cardinality((Sent(u) \cup r.names) \cup asked) \in Nat
        BY <2>6, FS_CardinalityType
    <2>9. Pending(u)' <= Pending(u) + r.new
        BY <1>3, <2>2, <2>3, <2>6, <2>7, <2>8
    <2>10. QED
        BY <1>3, <2>2, <2>3, <2>9
<1>8. QED
    BY <1>1, <1>2, <1>5, <1>6, <1>7 DEF At

LEMMA AddsBoundedStep ==
    ASSUME TypeInv, TypeInv', Windows', Checked, [Next]_vars
    PROVE  /\ \A k \in {"add", "chat"}, u \in Users : InAddWindow(k, u)' <= AddLimit
           /\ \A u \in Callers :
                Pending(u)' > Pending(u) /\ Pending(u)' > PendingCap =>
                    \E p \in Slots : At(p, "add") /\ proc[p].u = u /\ Overtaken(proc[p]) /\ At(p, "idle")'
<1>1. ASSUME NEW k \in {"add", "chat"}, NEW u \in Users
      PROVE  InAddWindow(k, u)' <= AddLimit
    <2>1. /\ k \in Kinds /\ Limit[k] = AddLimit /\ AddLimit \in Nat
          /\ Window[k] \in Nat /\ Window[k] <= Window[k]
        BY WindowIsNat, Constants DEF Kinds, Limit
    <2>2. PICK s \in Seq(Nat), a \in Seq(Nat) : s = stamps'[k][u] /\ a = accepts'[k][u]
        BY <2>1 DEF TypeInv, Typed
    <2>3. Within(a, k) = Within(s, k) /\ Len(s) <= AddLimit
        BY <2>1, <2>2 DEF Windows
    <2>4. InAddWindow(k, u)' = Cardinality(FreshIn(a, Window[k]))
        BY <2>2 DEF InAddWindow, FreshIn
    <2>5. Cardinality(FreshIn(a, Window[k])) = Cardinality(FreshIn(Within(s, k), Window[k]))
        BY <2>1, <2>3, FreshWithin
    <2>6. PICK w \in Seq(Nat) : w = Within(s, k) /\ Len(w) <= Len(s)
        BY <2>1, WithinIsShorter
    <2>7. Cardinality(FreshIn(w, Window[k])) \in Nat /\ Cardinality(FreshIn(w, Window[k])) <= Len(w)
        BY <2>1, FreshIsFinite
    <2>8. Len(s) \in Nat /\ Len(w) \in Nat
        OBVIOUS
    <2>9. QED
        BY <2>1, <2>3, <2>4, <2>5, <2>6, <2>7, <2>8
<1>2. ASSUME NEW u \in Callers, Pending(u)' > Pending(u), Pending(u)' > PendingCap
      PROVE  \E p \in Slots : At(p, "add") /\ proc[p].u = u /\ Overtaken(proc[p]) /\ At(p, "idle")'
    <2>1. Pending(u) \in Nat /\ Pending(u)' \in Nat
        BY PendingIsSent
    <2>2. ASSUME Sent(u)' \subseteq Sent(u)
          PROVE  FALSE
        <3>1. Sent(u)' \in SUBSET Sent(u)
            BY <2>2
        <3>2. Cardinality(Sent(u)') <= Cardinality(Sent(u))
            BY <3>1, PendingIsSent, FS_Subset
        <3>3. Pending(u)' <= Pending(u)
            BY <3>2, PendingIsSent
        <3>4. QED
            BY <1>2, <2>1, <3>3
    <2>3. CASE UNCHANGED socialVars
        BY <2>2, <2>3 DEF socialVars, Sent
    <2>4. CASE \E p \in Slots : AddLand(p)
        BY <1>2, <2>4, LandBounded, Constants
    <2>5. ASSUME NEW a \in Users \ Callers, NEW b \in Callers,
                 Invite(a, b) \/ FriendsDelete(a, b) \/ Block(a, b)
          PROVE  FALSE
        <3>1. \/ invites' = invites \cup {<<a, b>>} \/ invites' \subseteq invites
            BY <2>5 DEF Invite, FriendsDelete, Block
        <3>2. Sent(u)' \subseteq Sent(u)
            BY <3>1 DEF Sent
        <3>3. QED
            BY <2>2, <3>2
    <2>6. QED
        BY <2>3, <2>4, <2>5, EdgeSteps
<1>3. QED
    BY <1>1, <1>2

(* The friends lists, windows, counters and requests keep their types; no   *)
(* two players have invited each other, friends have no other edge, and no  *)
(* window or counter exceeds its limit.                                     *)
THEOREM LimitsTypeCorrect == Spec => []LimitsTypeOK
<1>1. IInv => LimitsTypeOK
    <2> SUFFICES ASSUME IInv PROVE LimitsTypeOK
        OBVIOUS
    <2>1. TypeInv /\ Typed /\ Social /\ Windows /\ Counted
        BY DEF IInv, TypeInv
    <2>2. ASSUME NEW u \in Users, NEW v \in Users
          PROVE  /\ Cardinality({<<u, v>>, <<v, u>>} \cap invites) <= 1
                 /\ {<<u, v>>, <<v, u>>} \cap friends # {} =>
                      {<<u, v>>, <<v, u>>} \cap (invites \cup blocks) = {}
        <3>1. PICK e : {<<u, v>>, <<v, u>>} \cap invites \subseteq {e}
            BY <2>1 DEF Social
        <3>2. IsFiniteSet({e}) /\ Cardinality({e}) = 1
            BY FS_Singleton
        <3>3. {<<u, v>>, <<v, u>>} \cap invites \in SUBSET {e}
            BY <3>1
        <3>4. Cardinality({<<u, v>>, <<v, u>>} \cap invites) <= 1
            BY <3>2, <3>3, FS_Subset
        <3>5. {<<u, v>>, <<v, u>>} \cap friends # {} =>
                  {<<u, v>>, <<v, u>>} \cap (invites \cup blocks) = {}
            BY <2>1 DEF Social
        <3>6. QED
            BY <3>4, <3>5
    <2>3. ASSUME NEW s \in Sources
          PROVE  counters[s] \in 0 .. Cap[s]
        <3>1. counters[s] \in Nat /\ counters[s] <= Cap[s] /\ Cap[s] \in Nat
            BY <2>1, CapIsPositive DEF Typed, Counted
        <3>2. QED
            BY <3>1
    <2>4. QED
        BY <2>1, <2>2, <2>3 DEF LimitsTypeOK, Typed, Windows
<1>2. QED
    BY <1>1, Always, PTL

(* "a message is refused when another active party member has blocked the   *)
(* sender" (chat_limits.go:23), unless a check failed and let it pass:      *)
(* whatever is blocked and unblocked while the lists are read one by one.   *)
THEOREM BlockedHolds == Spec => []BlockedUnheard
<1>1. IInv => BlockedUnheard
    BY DEF IInv, Heard, HeardBy, BlockedUnheard, At
<1>2. QED
    BY <1>1, Always, PTL

(* "the storage bound is the sum of both caps" (crash_report.go:94): the    *)
(* daily counters and the window of a player are exceeded only by           *)
(* reservations given back in another day or in place of another's stamp.   *)
THEOREM ReportsHold == Spec => []ReportsBounded
<1>1. IInv => ReportsBounded
    BY ReportsFollow DEF IInv
<1>2. QED
    BY <1>1, Always, PTL

(* No window holds more accepted requests than the limit, and a caller's    *)
(* pending list only grows past its cap by a request that was overtaken     *)
(* between its check and the add (friends_limits.go:17, :23).               *)
THEOREM AddsHold == Spec => AddsBounded
<1>1. IInv /\ IInv' /\ [Next]_vars =>
         [/\ \A k \in {"add", "chat"}, u \in Users : InAddWindow(k, u)' <= AddLimit
          /\ \A u \in Callers :
               Pending(u)' > Pending(u) /\ Pending(u)' > PendingCap =>
                   \E p \in Slots : At(p, "add") /\ proc[p].u = u /\ Overtaken(proc[p]) /\ At(p, "idle")']_vars
    BY AddsBoundedStep DEF IInv
<1>2. QED
    BY <1>1, Always, PTL DEF Spec, AddsBounded

=============================================================================
