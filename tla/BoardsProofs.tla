---------------------------- MODULE BoardsProofs ----------------------------
(***************************************************************************)
(* Theorems about Boards: its types, the registry, how long a hidden       *)
(* player stays listed, that a copy of the present generation is what the  *)
(* board shows now, and that the scores of ended matches are counted, for  *)
(* any players, matches, page sizes, lifetimes and number of requests in   *)
(* flight.                                                                 *)
(***************************************************************************)
EXTENDS Boards, FiniteSetTheorems, TLAPS

-----------------------------------------------------------------------------
(* Sets of rows with one row a player, and their order.                     *)

RowSet(S) == /\ S \subseteq Row /\ IsFiniteSet(S)
             /\ \A a, b \in S : a.player = b.player => a = b

Ahead(S, r) == {x \in S : Before(x, r)}
El(s) == {s[i] : i \in DOMAIN s}

(* A sequence of rows in the order of the board. *)
InOrder(s) == \A i, j \in DOMAIN s : i < j => Before(s[i], s[j])

LEMMA RowType ==
    ASSUME NEW r \in Row
    PROVE  r.player \in Players /\ r.player \in Nat /\ r.score \in Int
BY BoardsAssumption DEF BoardsAssumption, Row

LEMMA BeforeIsStrict ==
    ASSUME NEW a \in Row
    PROVE  ~Before(a, a)
<1>1. a.player \in Nat /\ a.score \in Int
    BY RowType
<1>2. QED
    BY <1>1 DEF Before, Better

LEMMA BeforeIsTransitive ==
    ASSUME NEW a \in Row, NEW b \in Row, NEW c \in Row, Before(a, b), Before(b, c)
    PROVE  Before(a, c)
<1>1. /\ a.player \in Nat /\ a.score \in Int /\ b.player \in Nat /\ b.score \in Int
      /\ c.player \in Nat /\ c.score \in Int
    BY RowType
<1>2. QED
    BY <1>1 DEF Before, Better

LEMMA BeforeIsTotal ==
    ASSUME NEW a \in Row, NEW b \in Row, a.player # b.player
    PROVE  Before(a, b) \/ Before(b, a)
<1>1. /\ a.player \in Nat /\ a.score \in Int /\ b.player \in Nat /\ b.score \in Int
    BY RowType
<1>2. QED
    BY <1>1 DEF Before, Better

LEMMA SubsetIsRowSet ==
    ASSUME NEW S, RowSet(S), NEW T, T \subseteq S
    PROVE  RowSet(T)
<1>1. T \in SUBSET S
    OBVIOUS
<1>2. IsFiniteSet(T)
    BY <1>1, FS_Subset DEF RowSet
<1>3. QED
    BY <1>2 DEF RowSet

LEMMA AheadIsSmaller ==
    ASSUME NEW S, RowSet(S), NEW r \in S
    PROVE  /\ IsFiniteSet(Ahead(S, r)) /\ Cardinality(S) \in Nat
           /\ Cardinality(Ahead(S, r)) \in Nat /\ Cardinality(Ahead(S, r)) < Cardinality(S)
<1>1. r \notin Ahead(S, r) /\ Ahead(S, r) \in SUBSET S
    BY BeforeIsStrict DEF Ahead, RowSet
<1>2. IsFiniteSet(S)
    BY DEF RowSet
<1>3. /\ IsFiniteSet(Ahead(S, r))
      /\ Cardinality(Ahead(S, r)) <= Cardinality(S)
      /\ Cardinality(S) = Cardinality(Ahead(S, r)) => S = Ahead(S, r)
    BY <1>1, <1>2, FS_Subset
<1>4. Cardinality(Ahead(S, r)) \in Nat /\ Cardinality(S) \in Nat
    BY <1>2, <1>3, FS_CardinalityType
<1>5. QED
    BY <1>1, <1>3, <1>4

(* The rows ahead of a row are fewer than those ahead of a later one. *)
LEMMA AheadGrows ==
    ASSUME NEW S, RowSet(S), NEW a \in S, NEW b \in S, Before(a, b)
    PROVE  Cardinality(Ahead(S, a)) < Cardinality(Ahead(S, b))
<1>1. a \in Row /\ b \in Row
    BY DEF RowSet
<1>2. Ahead(S, a) \subseteq Ahead(S, b)
    BY <1>1, BeforeIsTransitive DEF Ahead, RowSet
<1>3. a \in Ahead(S, b) /\ a \notin Ahead(S, a)
    BY <1>1, BeforeIsStrict DEF Ahead
<1>4. IsFiniteSet(Ahead(S, b)) /\ Cardinality(Ahead(S, a)) \in Nat /\ Cardinality(Ahead(S, b)) \in Nat
    BY AheadIsSmaller
<1>5. Ahead(S, a) \in SUBSET Ahead(S, b)
    BY <1>2
<1>6. /\ Cardinality(Ahead(S, a)) <= Cardinality(Ahead(S, b))
      /\ Cardinality(Ahead(S, b)) = Cardinality(Ahead(S, a)) => Ahead(S, b) = Ahead(S, a)
    BY <1>4, <1>5, FS_Subset
<1>7. QED
    BY <1>3, <1>4, <1>6

(* Every place of a set of rows is the place of one row. *)
LEMMA PlacesAreTaken ==
    ASSUME NEW S, RowSet(S), NEW i \in 1 .. Cardinality(S)
    PROVE  \E r \in S : Cardinality(Ahead(S, r)) = i - 1
<1> DEFINE n == Cardinality(S)
<1> DEFINE place == [r \in S |-> 1 + Cardinality(Ahead(S, r))]
<1>1. IsFiniteSet(S)
    BY DEF RowSet
<1>2. n \in Nat
    BY <1>1, FS_CardinalityType
<1>3. \A r \in S : Cardinality(Ahead(S, r)) \in Nat /\ Cardinality(Ahead(S, r)) < n
    BY AheadIsSmaller
<1>4. place \in [S -> 1 .. n]
    BY <1>2, <1>3
<1>5. ASSUME NEW a \in S, NEW b \in S, a # b
      PROVE  place[a] # place[b]
    <2>1. a \in Row /\ b \in Row /\ a.player # b.player
        BY <1>5 DEF RowSet
    <2>2. Before(a, b) \/ Before(b, a)
        BY <2>1, BeforeIsTotal
    <2>3. \/ Cardinality(Ahead(S, a)) < Cardinality(Ahead(S, b))
          \/ Cardinality(Ahead(S, b)) < Cardinality(Ahead(S, a))
        BY <2>2, AheadGrows
    <2>4. QED
        BY <2>3, <1>3
<1>6. place \in Injection(S, 1 .. n)
    BY <1>4, <1>5, Zenon DEF Injection, IsInjective
<1>7. 1 \in Int /\ n \in Int
    BY <1>2
<1>8. IsFiniteSet(1 .. n) /\ Cardinality(1 .. n) = IF 1 > n THEN 0 ELSE n - 1 + 1
    BY <1>7, FS_Interval
<1>9. Cardinality(1 .. n) = n
    BY <1>2, <1>8
<1>10. place \in Surjection(S, 1 .. n)
    BY <1>6, <1>8, <1>9, FS_Injection
<1>11. PICK r \in S : place[r] = i
    BY <1>10 DEF Surjection
<1>12. 1 + Cardinality(Ahead(S, r)) = i /\ Cardinality(Ahead(S, r)) \in Nat
    BY <1>3, <1>11
<1>13. QED
    BY <1>12

LEMMA SortedIsOrdered ==
    ASSUME NEW S, RowSet(S)
    PROVE  /\ Cardinality(S) \in Nat
           /\ Sorted(S) \in [1 .. Cardinality(S) -> S]
           /\ \A i \in 1 .. Cardinality(S) : Cardinality(Ahead(S, Sorted(S)[i])) = i - 1
           /\ InOrder(Sorted(S))
<1> DEFINE n == Cardinality(S)
<1> DEFINE s == Sorted(S)
<1>1. IsFiniteSet(S)
    BY DEF RowSet
<1>2. n \in Nat
    BY <1>1, FS_CardinalityType
<1>3. ASSUME NEW i \in 1 .. n
      PROVE  s[i] \in S /\ Cardinality(Ahead(S, s[i])) = i - 1
    <2>1. \E r \in S : Cardinality(Ahead(S, r)) = i - 1
        BY PlacesAreTaken
    <2>2. s[i] = CHOOSE r \in S : Cardinality(Ahead(S, r)) = i - 1
        BY DEF Sorted, Ahead
    <2>3. QED
        BY <2>1, <2>2
<1>4. s = [i \in 1 .. n |-> s[i]]
    BY DEF Sorted
<1>5. s \in [1 .. n -> S]
    BY <1>3, <1>4
<1>6. ASSUME NEW i \in DOMAIN s, NEW j \in DOMAIN s, i < j
      PROVE  Before(s[i], s[j])
    <2>1. i \in 1 .. n /\ j \in 1 .. n
        BY <1>5
    <2>2. /\ s[i] \in S /\ s[j] \in S
          /\ Cardinality(Ahead(S, s[i])) = i - 1 /\ Cardinality(Ahead(S, s[j])) = j - 1
        BY <2>1, <1>3
    <2>3. s[i] \in Row /\ s[j] \in Row /\ s[i] # s[j]
        BY <2>1, <2>2, <1>2, <1>6 DEF RowSet
    <2>4. s[i].player # s[j].player
        BY <2>2, <2>3 DEF RowSet
    <2>5. ~Before(s[j], s[i])
        <3>1. SUFFICES ASSUME Before(s[j], s[i])
                       PROVE  FALSE
            OBVIOUS
        <3>2. Cardinality(Ahead(S, s[j])) < Cardinality(Ahead(S, s[i]))
            BY <2>2, <3>1, AheadGrows
        <3>3. QED
            BY <3>2, <2>1, <2>2, <1>2, <1>6
    <2>6. QED
        BY <2>3, <2>4, <2>5, BeforeIsTotal
<1>7. InOrder(s)
    BY <1>6 DEF InOrder
<1>8. QED
    BY <1>2, <1>3, <1>5, <1>7

(* A row's place in its set is its place in the sorted sequence. *)
LEMMA SortedAtPlace ==
    ASSUME NEW S, RowSet(S), NEW r \in S
    PROVE  /\ 1 + Cardinality(Ahead(S, r)) \in 1 .. Cardinality(S)
           /\ Sorted(S)[1 + Cardinality(Ahead(S, r))] = r
<1> DEFINE i == 1 + Cardinality(Ahead(S, r))
<1>1. /\ Cardinality(Ahead(S, r)) \in Nat /\ Cardinality(S) \in Nat
      /\ Cardinality(Ahead(S, r)) < Cardinality(S)
    BY AheadIsSmaller
<1>2. i \in 1 .. Cardinality(S)
    BY <1>1
<1>3. Sorted(S)[i] \in S /\ Cardinality(Ahead(S, Sorted(S)[i])) = i - 1
    <2>1. /\ Sorted(S) \in [1 .. Cardinality(S) -> S]
          /\ \A k \in 1 .. Cardinality(S) : Cardinality(Ahead(S, Sorted(S)[k])) = k - 1
        BY SortedIsOrdered
    <2> HIDE DEF i
    <2>2. QED
        BY <1>2, <2>1
<1>4. ASSUME NEW x \in S, Cardinality(Ahead(S, x)) = i - 1
      PROVE  x = r
    <2>1. SUFFICES ASSUME x # r
                   PROVE  FALSE
        OBVIOUS
    <2>2. x \in Row /\ r \in Row /\ x.player # r.player
        BY <2>1 DEF RowSet
    <2>3. Before(x, r) \/ Before(r, x)
        BY <2>2, BeforeIsTotal
    <2>4. \/ Cardinality(Ahead(S, x)) < Cardinality(Ahead(S, r))
          \/ Cardinality(Ahead(S, r)) < Cardinality(Ahead(S, x))
        BY <2>3, AheadGrows
    <2>5. QED
        BY <2>4, <1>1, <1>4
<1>5. Sorted(S)[i] = r
    BY <1>3, <1>4
<1>6. QED
    BY <1>2, <1>5

LEMMA SortedIsSequence ==
    ASSUME NEW S, RowSet(S)
    PROVE  /\ Sorted(S) \in Seq(Row) /\ Len(Sorted(S)) = Cardinality(S)
           /\ DOMAIN Sorted(S) = 1 .. Cardinality(S) /\ Cardinality(S) \in Nat
           /\ El(Sorted(S)) = S /\ InOrder(Sorted(S))
<1>1. /\ Cardinality(S) \in Nat /\ Sorted(S) \in [1 .. Cardinality(S) -> S]
      /\ InOrder(Sorted(S)) /\ S \subseteq Row
    BY SortedIsOrdered DEF RowSet
<1>2. Sorted(S) \in Seq(Row) /\ Len(Sorted(S)) = Cardinality(S)
    <2>1. Sorted(S) \in [1 .. Cardinality(S) -> Row]
        BY <1>1
    <2>2. QED
        BY <1>1, <2>1
<1>3. El(Sorted(S)) \subseteq S
    BY <1>1 DEF El
<1>4. S \subseteq El(Sorted(S))
    BY <1>1, SortedAtPlace DEF El
<1>5. QED
    BY <1>1, <1>2, <1>3, <1>4

LEMMA FirstIsSequence ==
    ASSUME NEW T, NEW s \in Seq(T), NEW n \in Nat
    PROVE  /\ First(s, n) \in Seq(T) /\ Len(First(s, n)) \in 0 .. Len(s)
           /\ Len(First(s, n)) = (IF Len(s) < n THEN Len(s) ELSE n)
           /\ DOMAIN First(s, n) = 1 .. Len(First(s, n))
           /\ \A i \in 1 .. Len(First(s, n)) : First(s, n)[i] = s[i]
<1> DEFINE k == IF Len(s) < n THEN Len(s) ELSE n
<1>1. Len(s) \in Nat /\ k \in 0 .. Len(s)
    OBVIOUS
<1>2. First(s, n) = SubSeq(s, 1, k)
    BY DEF First
<1> HIDE DEF k
<1>3. SubSeq(s, 1, k) = [i \in 1 .. k |-> s[i]]
    BY <1>1
<1>4. \A i \in 1 .. k : s[i] \in T
    BY <1>1
<1>5. SubSeq(s, 1, k) \in Seq(T)
    <2>1. k \in Nat
        BY <1>1
    <2>2. [i \in 1 .. k |-> s[i]] \in Seq(T)
        BY <2>1, <1>4
    <2>3. QED
        BY <2>2, <1>3
<1>6. Len(SubSeq(s, 1, k)) = k
    BY <1>1
<1>7. QED
    BY <1>1, <1>2, <1>3, <1>6 DEF k

LEMMA FirstInOrder ==
    ASSUME NEW s \in Seq(Row), InOrder(s), NEW n \in Nat
    PROVE  InOrder(First(s, n)) /\ El(First(s, n)) \subseteq El(s)
<1>1. /\ DOMAIN First(s, n) \subseteq DOMAIN s
      /\ \A i \in DOMAIN First(s, n) : First(s, n)[i] = s[i]
    <2>1. /\ DOMAIN First(s, n) = 1 .. Len(First(s, n)) /\ Len(First(s, n)) \in 0 .. Len(s)
          /\ \A i \in 1 .. Len(First(s, n)) : First(s, n)[i] = s[i]
        BY FirstIsSequence
    <2>2. DOMAIN s = 1 .. Len(s) /\ Len(s) \in Nat
        OBVIOUS
    <2>3. QED
        BY <2>1, <2>2
<1>2. InOrder(First(s, n))
    BY <1>1 DEF InOrder
<1>3. QED
    BY <1>1, <1>2 DEF El

(* The first n rows are those with fewer than n rows ahead. *)
LEMMA FirstOfSorted ==
    ASSUME NEW S, RowSet(S), NEW n \in Nat
    PROVE  El(First(Sorted(S), n)) = {r \in S : Cardinality(Ahead(S, r)) < n}
<1> DEFINE s == Sorted(S)
<1>1. /\ s \in Seq(Row) /\ Len(s) = Cardinality(S) /\ Cardinality(S) \in Nat
      /\ s \in [1 .. Cardinality(S) -> S]
      /\ \A i \in 1 .. Cardinality(S) : Cardinality(Ahead(S, s[i])) = i - 1
    BY SortedIsOrdered, SortedIsSequence
<1>2. /\ Len(First(s, n)) = (IF Len(s) < n THEN Len(s) ELSE n)
      /\ DOMAIN First(s, n) = 1 .. Len(First(s, n))
      /\ \A i \in 1 .. Len(First(s, n)) : First(s, n)[i] = s[i]
    <2> HIDE DEF s
    <2>1. QED
        BY <1>1, FirstIsSequence
<1>3. ASSUME NEW r \in El(First(s, n))
      PROVE  r \in S /\ Cardinality(Ahead(S, r)) < n
    <2> HIDE DEF s
    <2>1. PICK i \in 1 .. Len(First(s, n)) : r = s[i]
        BY <1>2 DEF El
    <2>2. i \in 1 .. Cardinality(S) /\ i <= n /\ i \in Nat
        BY <1>1, <1>2, <2>1
    <2>3. QED
        BY <1>1, <2>1, <2>2
<1>4. ASSUME NEW r \in S, Cardinality(Ahead(S, r)) < n
      PROVE  r \in El(First(s, n))
    <2>1. /\ 1 + Cardinality(Ahead(S, r)) \in 1 .. Cardinality(S)
          /\ s[1 + Cardinality(Ahead(S, r))] = r
        BY SortedAtPlace
    <2>2. Cardinality(Ahead(S, r)) \in Nat
        BY AheadIsSmaller
    <2> HIDE DEF s
    <2>3. PICK i \in 1 .. Cardinality(S) : i = 1 + Cardinality(Ahead(S, r))
        BY <2>1
    <2>4. i <= n /\ s[i] = r
        BY <2>1, <2>2, <2>3, <1>4
    <2>5. i \in 1 .. Len(First(s, n))
        BY <1>1, <1>2, <2>4
    <2>6. QED
        BY <1>2, <2>4, <2>5 DEF El
<1>5. QED
    BY <1>3, <1>4

(* A sequence in the order of the board names each row once, and the rows   *)
(* before a position are those ahead of it.                                 *)
LEMMA InOrderAhead ==
    ASSUME NEW s \in Seq(Row), InOrder(s), NEW i \in DOMAIN s
    PROVE  /\ Ahead(El(s), s[i]) = {s[j] : j \in 1 .. i - 1}
           /\ \A j, k \in DOMAIN s : s[j] = s[k] => j = k
<1>1. Len(s) \in Nat /\ DOMAIN s = 1 .. Len(s) /\ \A j \in 1 .. Len(s) : s[j] \in Row
    OBVIOUS
<1>2. ASSUME NEW j \in DOMAIN s, NEW k \in DOMAIN s, s[j] = s[k]
      PROVE  j = k
    <2>1. ~(j < k) /\ ~(k < j)
        BY <1>1, <1>2, BeforeIsStrict DEF InOrder
    <2>2. QED
        BY <1>1, <2>1
<1>3. ASSUME NEW x \in Ahead(El(s), s[i])
      PROVE  x \in {s[j] : j \in 1 .. i - 1}
    <2>1. PICK j \in DOMAIN s : x = s[j]
        BY DEF Ahead, El
    <2>2. Before(s[j], s[i])
        BY <2>1 DEF Ahead
    <2>3. j # i
        BY <2>2, <1>1, BeforeIsStrict
    <2>4. ~(i < j)
        <3>1. SUFFICES ASSUME i < j PROVE FALSE
            OBVIOUS
        <3>2. Before(s[i], s[j])
            BY <3>1 DEF InOrder
        <3>3. s[i] \in Row /\ s[j] \in Row
            BY <1>1
        <3>4. Before(s[i], s[i])
            BY <3>2, <3>3, <2>2, BeforeIsTransitive
        <3>5. QED
            BY <3>3, <3>4, BeforeIsStrict
    <2>5. j \in 1 .. i - 1
        BY <1>1, <2>3, <2>4
    <2>6. QED
        BY <2>1, <2>5
<1>4. ASSUME NEW j \in 1 .. i - 1
      PROVE  s[j] \in Ahead(El(s), s[i])
    <2>1. j \in DOMAIN s /\ j < i
        BY <1>1
    <2>2. QED
        BY <2>1 DEF Ahead, El, InOrder
<1>5. QED
    BY <1>2, <1>3, <1>4

LEMMA CardOfPrefix ==
    ASSUME NEW s \in Seq(Row), InOrder(s), NEW n \in 0 .. Len(s)
    PROVE  /\ IsFiniteSet({s[j] : j \in 1 .. n})
           /\ Cardinality({s[j] : j \in 1 .. n}) = n
<1> DEFINE T == {s[j] : j \in 1 .. n}
<1> DEFINE f == [j \in 1 .. n |-> s[j]]
<1>1. Len(s) \in Nat /\ DOMAIN s = 1 .. Len(s) /\ n \in Nat /\ 1 \in Int /\ n \in Int
    OBVIOUS
<1>2. IsFiniteSet(1 .. n) /\ Cardinality(1 .. n) = IF 1 > n THEN 0 ELSE n - 1 + 1
    BY <1>1, FS_Interval
<1>3. Cardinality(1 .. n) = n
    BY <1>1, <1>2
<1>4. f \in [1 .. n -> T] /\ \A t \in T : \E j \in 1 .. n : f[j] = t
    OBVIOUS
<1>5. f \in Surjection(1 .. n, T)
    BY <1>4 DEF Surjection
<1>6. ASSUME NEW j \in 1 .. n, NEW k \in 1 .. n, f[j] = f[k]
      PROVE  j = k
    <2>1. j \in DOMAIN s /\ k \in DOMAIN s /\ s[j] = s[k]
        BY <1>1, <1>6
    <2>2. QED
        BY <2>1, InOrderAhead
<1>7. f \in Injection(1 .. n, T)
    BY <1>4, <1>6, Zenon DEF Injection, IsInjective
<1>8. QED
    <2> HIDE DEF f, T
    <2>1. IsFiniteSet(T) /\ (Cardinality(T) = Cardinality(1 .. n) <=> f \in Injection(1 .. n, T))
        BY <1>2, <1>5, FS_Surjection
    <2>2. IsFiniteSet(T) /\ Cardinality(T) = n
        BY <2>1, <1>3, <1>7
    <2>3. QED
        BY <2>2 DEF T

LEMMA InOrderIsRowSet ==
    ASSUME NEW s \in Seq(Row), InOrder(s)
    PROVE  /\ El(s) \subseteq Row /\ IsFiniteSet(El(s)) /\ Cardinality(El(s)) = Len(s)
           /\ \A i \in DOMAIN s : Cardinality(Ahead(El(s), s[i])) = i - 1
<1>1. Len(s) \in Nat /\ DOMAIN s = 1 .. Len(s) /\ \A j \in 1 .. Len(s) : s[j] \in Row
    OBVIOUS
<1>2. El(s) = {s[j] : j \in 1 .. Len(s)} /\ Len(s) \in 0 .. Len(s)
    BY <1>1 DEF El
<1>3. IsFiniteSet(El(s)) /\ Cardinality(El(s)) = Len(s)
    BY <1>2, CardOfPrefix
<1>4. ASSUME NEW i \in DOMAIN s
      PROVE  Cardinality(Ahead(El(s), s[i])) = i - 1
    <2>1. i - 1 \in 0 .. Len(s)
        BY <1>1
    <2>2. Cardinality({s[j] : j \in 1 .. i - 1}) = i - 1
        BY <2>1, CardOfPrefix
    <2>3. Ahead(El(s), s[i]) = {s[j] : j \in 1 .. i - 1}
        BY InOrderAhead
    <2>4. QED
        BY <2>2, <2>3
<1>5. QED
    BY <1>1, <1>3, <1>4 DEF El

(* A sequence in order is the sorted sequence of its rows. *)
LEMMA SortedIsUnique ==
    ASSUME NEW s \in Seq(Row), InOrder(s), RowSet(El(s))
    PROVE  s = Sorted(El(s))
<1>1. Len(s) \in Nat /\ DOMAIN s = 1 .. Len(s) /\ s = [i \in 1 .. Len(s) |-> s[i]]
    OBVIOUS
<1>2. Cardinality(El(s)) = Len(s) /\ \A i \in DOMAIN s : Cardinality(Ahead(El(s), s[i])) = i - 1
    BY InOrderIsRowSet
<1>3. ASSUME NEW i \in 1 .. Len(s)
      PROVE  Sorted(El(s))[i] = s[i]
    <2>1. s[i] \in El(s)
        BY <1>1 DEF El
    <2>2. Sorted(El(s))[1 + Cardinality(Ahead(El(s), s[i]))] = s[i]
        BY <2>1, SortedAtPlace
    <2>3. 1 + Cardinality(Ahead(El(s), s[i])) = i
        BY <1>1, <1>2
    <2>4. QED
        BY <2>2, <2>3
<1>4. Sorted(El(s)) = [i \in 1 .. Len(s) |-> Sorted(El(s))[i]]
    <2>1. Sorted(El(s)) \in [1 .. Cardinality(El(s)) -> El(s)]
        BY SortedIsOrdered
    <2>2. QED
        BY <1>2, <2>1
<1>5. QED
    BY <1>1, <1>3, <1>4

(* The rows of a set that nothing else is ahead of come first in it. *)
LEMMA LowerIsPrefix ==
    ASSUME NEW Z, RowSet(Z), NEW L, L \subseteq Z,
           \A x \in Z, y \in L : Before(x, y) => x \in L,
           NEW i \in 1 .. Cardinality(L)
    PROVE  Sorted(L)[i] = Sorted(Z)[i]
<1>1. RowSet(L)
    BY SubsetIsRowSet
<1>2. Sorted(L)[i] \in L /\ Cardinality(Ahead(L, Sorted(L)[i])) = i - 1 /\ i \in Nat
    BY <1>1, SortedIsOrdered
<1>3. Ahead(L, Sorted(L)[i]) = Ahead(Z, Sorted(L)[i])
    BY <1>2 DEF Ahead
<1>4. Sorted(L)[i] \in Z
    BY <1>2
<1>5. Sorted(Z)[1 + Cardinality(Ahead(Z, Sorted(L)[i]))] = Sorted(L)[i]
    BY <1>4, SortedAtPlace
<1>6. 1 + Cardinality(Ahead(Z, Sorted(L)[i])) = i
    BY <1>2, <1>3
<1>7. QED
    BY <1>5, <1>6

LEMMA ConcatInOrder ==
    ASSUME NEW s \in Seq(Row), NEW t \in Seq(Row), InOrder(s), InOrder(t),
           \A x \in El(s), y \in El(t) : Before(x, y)
    PROVE  s \o t \in Seq(Row) /\ InOrder(s \o t)
<1>1. Len(s) \in Nat /\ Len(t) \in Nat /\ DOMAIN s = 1 .. Len(s) /\ DOMAIN t = 1 .. Len(t)
    OBVIOUS
<1>2. DOMAIN (s \o t) = 1 .. Len(s) + Len(t)
    BY <1>1
<1>3. \A i \in 1 .. Len(s) + Len(t) :
        (s \o t)[i] = IF i <= Len(s) THEN s[i] ELSE t[i - Len(s)]
    BY <1>1
<1>4. ASSUME NEW i \in DOMAIN (s \o t), NEW j \in DOMAIN (s \o t), i < j
      PROVE  Before((s \o t)[i], (s \o t)[j])
    <2>1. i \in Nat /\ j \in Nat /\ i >= 1 /\ j <= Len(s) + Len(t)
        BY <1>1, <1>2
    <2>2. CASE j <= Len(s)
        <3>1. i \in DOMAIN s /\ j \in DOMAIN s
            BY <1>1, <1>4, <2>1, <2>2
        <3>2. (s \o t)[i] = s[i] /\ (s \o t)[j] = s[j]
            BY <1>2, <1>3, <1>4, <2>1, <2>2
        <3>3. QED
            BY <1>4, <3>1, <3>2 DEF InOrder
    <2>3. CASE i <= Len(s) /\ ~(j <= Len(s))
        <3>1. i \in DOMAIN s /\ j - Len(s) \in DOMAIN t
            BY <1>1, <2>1, <2>3
        <3>2. (s \o t)[i] = s[i] /\ (s \o t)[j] = t[j - Len(s)]
            BY <1>2, <1>3, <2>3
        <3>3. QED
            BY <3>1, <3>2 DEF El
    <2>4. CASE ~(i <= Len(s))
        <3>1. /\ i - Len(s) \in DOMAIN t /\ j - Len(s) \in DOMAIN t /\ i - Len(s) < j - Len(s)
              /\ ~(j <= Len(s))
            BY <1>1, <1>4, <2>1, <2>4
        <3>2. (s \o t)[i] = t[i - Len(s)] /\ (s \o t)[j] = t[j - Len(s)]
            BY <1>2, <1>3, <2>4, <3>1
        <3>3. QED
            BY <3>1, <3>2 DEF InOrder
    <2>5. QED
        BY <2>2, <2>3, <2>4
<1>5. QED
    BY <1>4 DEF InOrder

LEMMA ConcatEl ==
    ASSUME NEW s \in Seq(Row), NEW t \in Seq(Row)
    PROVE  El(s \o t) = El(s) \cup El(t)
<1>1. Len(s) \in Nat /\ Len(t) \in Nat /\ DOMAIN s = 1 .. Len(s) /\ DOMAIN t = 1 .. Len(t)
    OBVIOUS
<1>2. DOMAIN (s \o t) = 1 .. Len(s) + Len(t)
    BY <1>1
<1>3. \A i \in 1 .. Len(s) + Len(t) :
        (s \o t)[i] = IF i <= Len(s) THEN s[i] ELSE t[i - Len(s)]
    BY <1>1
<1>4. El(s \o t) \subseteq El(s) \cup El(t)
    <2>1. ASSUME NEW i \in 1 .. Len(s) + Len(t)
          PROVE  (s \o t)[i] \in El(s) \cup El(t)
        <3>1. CASE i <= Len(s)
            BY <3>1, <1>1, <1>3 DEF El
        <3>2. CASE ~(i <= Len(s))
            <4>1. i - Len(s) \in DOMAIN t
                BY <1>1, <3>2
            <4>2. QED
                BY <4>1, <1>3, <3>2 DEF El
        <3>3. QED
            BY <3>1, <3>2
    <2>2. QED
        BY <1>2, <2>1 DEF El
<1>5. ASSUME NEW i \in DOMAIN s
      PROVE  s[i] \in El(s \o t)
    <2>1. i \in 1 .. Len(s) + Len(t) /\ i <= Len(s)
        BY <1>1
    <2>2. QED
        BY <2>1, <1>2, <1>3 DEF El
<1>6. ASSUME NEW i \in DOMAIN t
      PROVE  t[i] \in El(s \o t)
    <2>1. /\ i + Len(s) \in 1 .. Len(s) + Len(t) /\ ~(i + Len(s) <= Len(s))
          /\ i + Len(s) - Len(s) = i
        BY <1>1
    <2>2. (s \o t)[i + Len(s)] = t[i]
        BY <2>1, <1>3
    <2>3. QED
        BY <2>1, <2>2, <1>2 DEF El
<1>7. QED
    BY <1>4, <1>5, <1>6 DEF El

-----------------------------------------------------------------------------
(* The rows of the board, what is kept of a page, and ranks.                *)

LEMMA LeastPlace ==
    ASSUME NEW n \in Nat, NEW S, S \subseteq 1 .. n, S # {}
    PROVE  \E i \in S : \A j \in S : i <= j
<1> DEFINE Upto(i) == {j \in S : j <= i}
<1> DEFINE T == {Upto(i) : i \in S}
<1> DEFINE R == StrictSubsetOrdering(S)
<1>1. IsFiniteSet(S)
    <2>1. 1 \in Int /\ n \in Int
        OBVIOUS
    <2>2. IsFiniteSet(1 .. n)
        BY <2>1, FS_Interval
    <2>3. S \in SUBSET (1 .. n)
        OBVIOUS
    <2>4. QED
        BY <2>2, <2>3, FS_Subset
<1>2. IsWellFoundedOn(R, SUBSET S)
    BY <1>1, FS_StrictSubsetOrderingWellFounded, FS_FiniteSubsetsOfFinite
<1>3. T \subseteq SUBSET S /\ T # {}
    OBVIOUS
<1>4. PICK X \in T : \A Y \in T : ~ (<<Y, X>> \in R)
    <2> HIDE DEF T, R
    <2>1. QED
        BY <1>2, <1>3, WFMin
<1>5. PICK i \in S : X = Upto(i)
    OBVIOUS
<1>6. ASSUME NEW j \in S, j < i
      PROVE  FALSE
    <2>1. Upto(j) \subseteq Upto(i) /\ i \in Upto(i) /\ i \notin Upto(j)
        <3>1. i \in Nat /\ j \in Nat /\ S \subseteq Nat
            OBVIOUS
        <3>2. ASSUME NEW x \in S, x <= j
              PROVE  x <= i
            <4>1. x \in Nat
                BY <3>1
            <4>2. QED
                BY <1>6, <3>1, <3>2, <4>1
        <3>3. i <= i /\ ~(i <= j)
            BY <1>6, <3>1
        <3>4. QED
            BY <3>2, <3>3
    <2>2. Upto(j) \in T /\ <<Upto(j), X>> \in R
        BY <1>5, <2>1 DEF StrictSubsetOrdering
    <2>3. QED
        BY <2>2, <1>4
<1>7. QED
    BY <1>6

LEMMA PlaceIsFirst ==
    ASSUME NEW s \in Seq(Row), NEW i \in DOMAIN s
    PROVE  /\ Place(s, i) \in 1 .. i
           /\ \A k \in Place(s, i) .. i : s[k].score = s[i].score
           /\ Place(s, i) > 1 => s[Place(s, i) - 1].score # s[i].score
<1> DEFINE S == {j \in 1 .. i : \A k \in j .. i : s[k].score = s[i].score}
<1>1. i \in Nat /\ i >= 1
    OBVIOUS
<1>2. i \in S
    BY <1>1
<1>3. PICK j \in S : \A k \in S : j <= k
    <2> HIDE DEF S
    <2>1. S \subseteq 1 .. i /\ S # {}
        BY <1>2 DEF S
    <2>2. QED
        BY <1>1, <2>1, LeastPlace
<1>4. j > 1 => s[j - 1].score # s[i].score
    <2>1. SUFFICES ASSUME j > 1, s[j - 1].score = s[i].score
                   PROVE  FALSE
        OBVIOUS
    <2>2. j \in 1 .. i /\ \A k \in j .. i : s[k].score = s[i].score
        BY <1>3
    <2>3. \A k \in j - 1 .. i : k = j - 1 \/ k \in j .. i
        BY <1>1, <2>2
    <2>4. j - 1 \in 1 .. i
        BY <1>1, <2>1, <2>2
    <2>5. j - 1 \in S
        BY <2>1, <2>2, <2>3, <2>4
    <2>6. j <= j - 1
        BY <2>5, <1>3
    <2>7. QED
        BY <2>6, <2>2, <1>1
<1>5. QED
    BY <1>3, <1>4 DEF Place

(* A rank is one more than the number of listed rows with a better score. *)
LEMMA RankCountsBetter ==
    ASSUME NEW s \in Seq(Row), InOrder(s), NEW i \in DOMAIN s
    PROVE  /\ Place(s, i) \in Nat
           /\ Place(s, i) =
                1 + Cardinality({j \in DOMAIN s : Better(board.sort, s[j].score, s[i].score)})
<1> DEFINE p == Place(s, i)
<1> DEFINE B == {j \in DOMAIN s : Better(board.sort, s[j].score, s[i].score)}
<1>1. /\ p \in 1 .. i /\ \A k \in p .. i : s[k].score = s[i].score
      /\ p > 1 => s[p - 1].score # s[i].score
    BY PlaceIsFirst
<1>2. /\ Len(s) \in Nat /\ DOMAIN s = 1 .. Len(s)
      /\ \A j \in 1 .. Len(s) : s[j] \in Row
    OBVIOUS
<1>3. \A j \in DOMAIN s : s[j].score \in Int /\ s[j].player \in Nat
    BY <1>2, RowType
<1> HIDE DEF p
<1>4. p \in Nat /\ p >= 1 /\ p <= i /\ i \in Nat /\ i <= Len(s)
    BY <1>1, <1>2
<1>5. ASSUME NEW j \in DOMAIN s, j < p
      PROVE  Better(board.sort, s[j].score, s[i].score)
    <2>1. p - 1 \in DOMAIN s /\ p > 1 /\ p - 1 < i /\ j <= p - 1
        BY <1>2, <1>4, <1>5
    <2>2. Before(s[p - 1], s[i])
        BY <2>1 DEF InOrder
    <2>3. Better(board.sort, s[p - 1].score, s[i].score)
        BY <1>1, <2>1, <2>2 DEF Before
    <2>4. CASE j = p - 1
        BY <2>3, <2>4
    <2>5. CASE j < p - 1
        <3>1. Before(s[j], s[p - 1])
            BY <2>1, <2>5 DEF InOrder
        <3>2. Better(board.sort, s[j].score, s[p - 1].score) \/ s[j].score = s[p - 1].score
            BY <3>1 DEF Before
        <3>3. s[j].score \in Int /\ s[p - 1].score \in Int /\ s[i].score \in Int
            BY <1>3, <2>1
        <3>4. QED
            BY <2>3, <3>2, <3>3 DEF Better
    <2>6. QED
        BY <2>1, <2>4, <2>5, <1>2, <1>4
<1>6. ASSUME NEW j \in DOMAIN s, ~(j < p)
      PROVE  ~Better(board.sort, s[j].score, s[i].score)
    <2>1. s[j].score \in Int /\ s[i].score \in Int
        BY <1>3
    <2>2. CASE j <= i
        <3>1. j \in p .. i
            BY <1>2, <1>4, <1>6, <2>2
        <3>2. s[j].score = s[i].score
            BY <3>1, <1>1
        <3>3. QED
            BY <2>1, <3>2 DEF Better
    <2>3. CASE ~(j <= i)
        <3>1. i < j
            BY <1>2, <1>4, <2>3
        <3>2. Before(s[i], s[j])
            BY <3>1 DEF InOrder
        <3>3. QED
            BY <2>1, <3>2 DEF Before, Better
    <2>4. QED
        BY <2>2, <2>3
<1>7. B = 1 .. p - 1
    BY <1>2, <1>4, <1>5, <1>6
<1>8. 1 \in Int /\ p - 1 \in Int
    BY <1>4
<1>9. Cardinality(1 .. p - 1) = IF 1 > p - 1 THEN 0 ELSE p - 1 - 1 + 1
    BY <1>8, FS_Interval
<1>10. Cardinality(1 .. p - 1) = p - 1
    BY <1>4, <1>9
<1>11. p = 1 + Cardinality(B)
    <2> HIDE DEF B
    <2>1. Cardinality(B) = p - 1
        BY <1>7, <1>10
    <2>2. QED
        BY <2>1, <1>4
<1>12. QED
    BY <1>4, <1>11 DEF p

LEMMA RankedIsListing ==
    ASSUME NEW s \in Seq(Row)
    PROVE  /\ Ranked(s) \in Seq(Entry) /\ DOMAIN Ranked(s) = DOMAIN s
           /\ \A i \in DOMAIN s : /\ Ranked(s)[i].player = s[i].player
                                  /\ Ranked(s)[i].score = s[i].score
                                  /\ Ranked(s)[i].rank = Place(s, i)
<1>1. Len(s) \in Nat /\ DOMAIN s = 1 .. Len(s) /\ \A i \in 1 .. Len(s) : s[i] \in Row
    OBVIOUS
<1>2. Ranked(s) = [i \in 1 .. Len(s) |->
                      [player |-> s[i].player, score |-> s[i].score, rank |-> Place(s, i)]]
    BY <1>1 DEF Ranked
<1>3. ASSUME NEW i \in 1 .. Len(s)
      PROVE  [player |-> s[i].player, score |-> s[i].score, rank |-> Place(s, i)] \in Entry
    <2>1. Place(s, i) \in 1 .. i
        BY <1>1, PlaceIsFirst
    <2>2. Place(s, i) \in Nat /\ s[i].player \in Players /\ s[i].score \in Int
        BY <1>1, <2>1 DEF Row
    <2>3. QED
        BY <2>2 DEF Entry
<1>4. Ranked(s) \in Seq(Entry)
    BY <1>1, <1>2, <1>3
<1>5. QED
    BY <1>1, <1>2, <1>4

LEMMA RowsAreRowSet ==
    ASSUME record \in [Players -> Int \cup {None}]
    PROVE  RowSet(Rows)
<1> DEFINE f == [r \in Rows |-> r.player]
<1>1. Rows \subseteq Row
    BY DEF Rows, Row
<1>2. \A a, b \in Rows : a.player = b.player => a = b
    BY DEF Rows
<1>3. f \in [Rows -> Players]
    BY <1>1 DEF Row
<1>4. f \in Injection(Rows, Players)
    BY <1>2, <1>3 DEF Injection, IsInjective
<1>5. IsFiniteSet(Players)
    BY BoardsAssumption DEF BoardsAssumption
<1>6. IsFiniteSet(Rows)
    BY <1>4, <1>5, FS_Injection
<1>7. QED
    BY <1>1, <1>2, <1>6 DEF RowSet

LEMMA KeptIsSorted ==
    ASSUME NEW s \in Seq(Row), RowSet(El(s)), NEW S
    PROVE  /\ Kept(s, S) \in Seq(Row) /\ InOrder(Kept(s, S)) /\ RowSet(El(Kept(s, S)))
           /\ El(Kept(s, S)) = {r \in El(s) : r.player \in S}
           /\ Kept(s, S) = Sorted({r \in El(s) : r.player \in S})
<1> DEFINE T == {r \in El(s) : r.player \in S}
<1>1. T = {s[i] : i \in {j \in DOMAIN s : s[j].player \in S}}
    BY DEF El
<1>2. Kept(s, S) = Sorted(T)
    BY <1>1 DEF Kept
<1>3. RowSet(T)
    BY SubsetIsRowSet
<1>4. QED
    BY <1>2, <1>3, SortedIsSequence

-----------------------------------------------------------------------------
(* The shape of the state: types, and what a request at a label is about.   *)

Typed ==
    /\ stored \in Config /\ cached \in Config /\ board \in Settings \cup {None}
    /\ record \in [Players -> Int \cup {None}]
    /\ hidden \in [Players -> Reasons] /\ hiddenAge \in [Players -> 0 .. MaxAge]
    /\ erasing \in [Players -> Nat] /\ erased \subseteq Players
    /\ copy \in Seq(Entry) \cup {None} /\ copyAge \in 0 .. MaxAge /\ current \in BOOLEAN
    /\ failAge \in 0 .. RetryInterval \cup {None} /\ moved \subseteq Players
    /\ proc \in [Slots -> Process]
    /\ ended \subseteq Matches /\ attempts \in [Matches -> Nat]
    /\ astray \in BOOLEAN /\ registered \in Config \cup {None} /\ unsure \in BOOLEAN
    /\ events \in 0 .. MaxEvents

AtBoard == {"page", "accounts", "pending"}      \* a read past the settings

Proper(r) ==
    /\ r.pc \in {"check", "record"} => r.op = "stats" /\ r.target \in Players
    /\ r.pc = "idle" <=> r.op = "none"
    /\ r.pc \in ReadLabels \cup {"lock", "answer"} <=> r.op = "list"
    /\ r.pc \in {"write", "history"} <=> r.op = "end"
    /\ r.op = "end" => r.match \in Matches /\ r.left \subseteq DOMAIN Results[r.match]
    /\ r.pc \in {"upsert", "cache", "create"} <=> r.op = "register"
    /\ r.op = "register" => r.config \in Config
    /\ r.pc = "lock" => r.since = 0 /\ r.moved = {}
    /\ r.pc \in {"lock", "settings"} =>
         r.pages = 0 /\ r.cursor = None /\ r.batch = <<>> /\ r.listed = <<>>
    /\ r.pc \in {"settings", "page"} => r.more /\ r.batch = <<>> /\ r.pages < MaxPages
    /\ r.pc \in {"accounts", "pending"} => RowSet(El(r.batch)) /\ r.cursor \in Row

Shape ==
    /\ Typed
    /\ \A p \in Slots : Proper(proc[p])
    /\ \A p, q \in Slots : Reading(p) /\ Reading(q) => p = q
    /\ \A p \in Slots : proc[p].pc \in AtBoard => board # None
    /\ copy # None => board # None

LEMMA ConstantTypes ==
    /\ Players \subseteq Nat /\ Unlistable \subseteq Players /\ Asked \subseteq Players
    /\ Leaving \subseteq Players /\ FirstConfigs \subseteq Config /\ Configs \subseteq Config
    /\ TTL \in Nat /\ StaleTTL \in Nat /\ RetryInterval \in Nat /\ ReadTimeout \in Nat
    /\ PageSize \in Nat /\ MaxPages \in Nat /\ MaxListed \in Nat /\ PageSize > 0 /\ MaxPages > 0
    /\ MaxListed > 0 /\ ReadTimeout < RetryInterval /\ ReadTimeout < TTL /\ TTL < StaleTTL
    /\ NSlots \in Nat /\ MaxEvents \in Nat /\ None \notin Int /\ TTL > 0 /\ ReadTimeout > 0
    /\ None \notin Row
    /\ MaxAge \in Nat /\ MaxAge = StaleTTL + ReadTimeout
BY BoardsAssumption DEF BoardsAssumption, MaxAge, Row

LEMMA IdleIsProper == Idle \in Process /\ Proper(Idle)
<1>1. Idle \in Process
    BY ConstantTypes DEF Idle, Process, Labels, ReadLabels
<1>2. Proper(Idle)
    BY DEF Proper, Idle, ReadLabels
<1>3. QED
    BY <1>1, <1>2

LEMMA InBoundTyped ==
    ASSUME Typed, InBound
    PROVE  events' \in 0 .. MaxEvents
BY ConstantTypes DEF Typed, InBound

(* A step of one request: its record is proper, and it only begins to read *)
(* when nobody reads.                                                       *)
LEMMA ShapeOfStep ==
    ASSUME Shape, NEW p \in Slots, NEW r \in Process, Proper(r), Set(p, r), Typed',
           r.pc \in ReadLabels => Reading(p) \/ ~Locked,
           r.pc \in AtBoard => board # None,
           board' = board,
           copy' = copy \/ board # None
    PROVE  Shape'
<1>1. proc \in [Slots -> Process] /\ proc' = [proc EXCEPT ![p] = r]
    BY DEF Shape, Typed, Set
<1>2. \A q \in Slots : proc'[q] = IF q = p THEN r ELSE proc[q]
    BY <1>1
<1>3. \A q \in Slots : Proper(proc[q])
    BY DEF Shape
<1>4. \A q \in Slots : Proper(proc'[q])
    BY <1>2, <1>3
<1>5. ASSUME NEW q \in Slots, NEW t \in Slots,
             proc'[q].pc \in ReadLabels, proc'[t].pc \in ReadLabels
      PROVE  q = t
    BY <1>2, <1>5 DEF Shape, Reading, Locked
<1>6. \A q \in Slots : proc'[q].pc \in AtBoard => board' # None
    BY <1>2 DEF Shape
<1>7. copy' # None => board' # None
    BY DEF Shape
<1>8. QED
    BY <1>4, <1>5, <1>6, <1>7 DEF Shape, Reading

LEMMA TypedIsFramed ==
    ASSUME Typed, NEW p \in Slots, NEW r \in Process, Set(p, r)
    PROVE  proc' \in [Slots -> Process]
BY DEF Typed, Set

LEMMA ShapeListBegin ==
    ASSUME Shape, NEW p \in Slots, ListBegin(p)
    PROVE  Shape'
<1> DEFINE r == [Idle EXCEPT !.op = "list", !.pc = "lock"]
<1>1. r \in Process /\ Proper(r) /\ r.pc = "lock"
    <2>1. r \in Process /\ r.pc = "lock"
        BY IdleIsProper DEF Process, Labels
    <2>2. Proper(r)
        BY ConstantTypes DEF Proper, Idle, ReadLabels
    <2>3. QED
        BY <2>1, <2>2
<1> HIDE DEF r
<1>2. Set(p, r) /\ InBound /\ UNCHANGED <<registryVars, matchVars, cacheVars, playerVars>>
    BY DEF ListBegin, Begin, r
<1>3. Typed'
    BY <1>1, <1>2, TypedIsFramed, InBoundTyped
       DEF Shape, Typed, registryVars, matchVars, cacheVars, playerVars
<1>4. QED
    BY <1>1, <1>2, <1>3, ShapeOfStep DEF registryVars, cacheVars, ReadLabels, AtBoard

LEMMA ShapeStatsBegin ==
    ASSUME Shape, NEW p \in Slots, NEW u \in Asked, StatsBegin(p, u)
    PROVE  Shape'
<1> DEFINE r == [Idle EXCEPT !.op = "stats", !.target = u, !.pc = "check"]
<1>1. r \in Process /\ Proper(r) /\ r.pc = "check"
    <2>1. r \in Process /\ r.pc = "check"
        BY IdleIsProper, ConstantTypes DEF Process, Labels
    <2>2. Proper(r)
        BY ConstantTypes DEF Proper, Idle, ReadLabels
    <2>3. QED
        BY <2>1, <2>2
<1> HIDE DEF r
<1>2. Set(p, r) /\ InBound /\ UNCHANGED <<registryVars, matchVars, cacheVars, playerVars>>
    BY DEF StatsBegin, Begin, r
<1>3. Typed'
    BY <1>1, <1>2, TypedIsFramed, InBoundTyped
       DEF Shape, Typed, registryVars, matchVars, cacheVars, playerVars
<1>4. QED
    BY <1>1, <1>2, <1>3, ShapeOfStep DEF registryVars, cacheVars, ReadLabels, AtBoard

(* A step that only moves its request on, and not into a read. *)
LEMMA ShapeOfMove ==
    ASSUME Shape, NEW p \in Slots, NEW r \in Process, Proper(r), Set(p, r),
           r.pc \notin ReadLabels,
           UNCHANGED <<registryVars, matchVars, cacheVars, playerVars, events>>
    PROVE  Shape'
<1>1. Typed'
    BY TypedIsFramed DEF Shape, Typed, registryVars, matchVars, cacheVars, playerVars
<1>2. QED
    BY <1>1, ShapeOfStep DEF registryVars, cacheVars, ReadLabels, AtBoard

LEMMA ShapeStatsCheck ==
    ASSUME Shape, NEW p \in Slots, StatsCheck(p)
    PROVE  Shape'
<1> DEFINE r == [proc[p] EXCEPT !.pc = "record"]
<1>1. At(p, "check") /\ UNCHANGED <<registryVars, matchVars, cacheVars, playerVars, events>>
    BY DEF StatsCheck
<1>2. proc[p] \in Process /\ Proper(proc[p]) /\ proc[p].pc = "check"
    BY <1>1 DEF Shape, Typed, At
<1>3. r \in Process /\ Proper(r) /\ r.pc \notin ReadLabels
    <2>1. r \in Process /\ r.pc = "record"
        BY <1>2 DEF Process, Labels
    <2>2. Proper(r)
        BY <1>2 DEF Proper, Process, ReadLabels
    <2>3. QED
        BY <2>1, <2>2 DEF ReadLabels
<1>4. CASE Set(p, Idle)
    BY <1>1, <1>4, IdleIsProper, ShapeOfMove DEF Idle, ReadLabels
<1>5. CASE Set(p, r)
    <2> HIDE DEF r
    <2>1. QED
        BY <1>1, <1>3, <1>5, ShapeOfMove
<1>6. QED
    BY <1>4, <1>5 DEF StatsCheck

LEMMA ShapeStatsRecord ==
    ASSUME Shape, NEW p \in Slots, StatsRecord(p)
    PROVE  Shape'
<1> DEFINE r == [Idle EXCEPT !.op = "list", !.pc = "lock"]
<1>1. UNCHANGED <<registryVars, matchVars, cacheVars, playerVars, events>>
    BY DEF StatsRecord
<1>2. r \in Process /\ Proper(r) /\ r.pc \notin ReadLabels
    <2>1. r \in Process /\ r.pc = "lock"
        BY IdleIsProper DEF Process, Labels
    <2>2. Proper(r)
        BY ConstantTypes DEF Proper, Idle, ReadLabels
    <2>3. QED
        BY <2>1, <2>2 DEF ReadLabels
<1>3. CASE Set(p, Idle)
    BY <1>1, <1>3, IdleIsProper, ShapeOfMove DEF Idle, ReadLabels
<1>4. CASE Set(p, r)
    <2> HIDE DEF r
    <2>1. QED
        BY <1>1, <1>2, <1>4, ShapeOfMove
<1>5. QED
    BY <1>3, <1>4 DEF StatsRecord

Answer(got) == [Idle EXCEPT !.op = "list", !.pc = "answer", !.got = got]

LEMMA AnswerIsProper ==
    ASSUME NEW got \in BOOLEAN
    PROVE  Answer(got) \in Process /\ Proper(Answer(got)) /\ Answer(got).pc = "answer"
<1>1. Answer(got) \in Process /\ Answer(got).pc = "answer"
    <2>1. Idle \in Process /\ "answer" \in Labels
        BY IdleIsProper DEF Labels
    <2>2. QED
        BY <2>1 DEF Process, Answer
<1>2. Proper(Answer(got))
    BY DEF Proper, Idle, ReadLabels, Answer
<1>3. QED
    BY <1>1, <1>2

LEMMA ShapeTake ==
    ASSUME Shape, NEW p \in Slots, Take(p)
    PROVE  Shape'
<1> DEFINE r == [proc[p] EXCEPT !.pc = "settings", !.current = TRUE, !.more = TRUE]
<1>1. At(p, "lock") /\ UNCHANGED <<registryVars, matchVars, cacheVars, playerVars, events>>
    BY DEF Take, ServeCopy, StartRead, BackOff
<1>2. CASE \E got \in BOOLEAN : Answered(p, got)
    <2>1. PICK got \in BOOLEAN : Set(p, Answer(got))
        BY <1>2 DEF Answered, Answer
    <2>2. Answer(got).pc \notin ReadLabels
        BY AnswerIsProper DEF ReadLabels
    <2>3. QED
        BY <1>1, <2>1, <2>2, AnswerIsProper, ShapeOfMove
<1>3. CASE StartRead(p)
    <2>1. proc[p] \in Process /\ Proper(proc[p]) /\ proc[p].pc = "lock"
        BY <1>1 DEF Shape, Typed, At
    <2>2. r \in Process /\ r.pc = "settings"
        BY <2>1 DEF Process, Labels, ReadLabels
    <2>3. Proper(r)
        BY <2>1, ConstantTypes DEF Proper, Process, ReadLabels
    <2>4. Set(p, r) /\ ~Locked
        BY <1>3 DEF StartRead
    <2> HIDE DEF r
    <2>5. Typed'
        BY <1>1, <2>2, <2>4, TypedIsFramed
           DEF Shape, Typed, registryVars, matchVars, cacheVars, playerVars
    <2>6. QED
        BY <1>1, <2>2, <2>3, <2>4, <2>5, ShapeOfStep DEF registryVars, cacheVars, AtBoard
<1>4. QED
    BY <1>2, <1>3 DEF Take, ServeCopy, BackOff, FallBack

LEMMA ShapeReadFails ==
    ASSUME Shape, NEW p \in Slots, ReadFails(p)
    PROVE  Shape'
<1>1. PICK got \in BOOLEAN : Set(p, Answer(got))
    BY DEF ReadFails, Answered, Answer, FallBack
<1>2. /\ UNCHANGED <<registryVars, matchVars, playerVars, copy, copyAge, current, moved>>
      /\ failAge' = proc[p].since /\ (UNCHANGED events \/ InBound)
    BY DEF ReadFails, Fault
<1>3. failAge' \in 0 .. RetryInterval
    <2>1. proc[p].since \in 0 .. ReadTimeout
        BY DEF Shape, Typed, Process
    <2>2. QED
        BY <1>2, <2>1, ConstantTypes
<1>4. Answer(got) \in Process /\ Proper(Answer(got)) /\ Answer(got).pc = "answer"
    BY AnswerIsProper
<1>5. Typed'
    BY <1>1, <1>2, <1>3, <1>4, TypedIsFramed, InBoundTyped
       DEF Shape, Typed, registryVars, matchVars, playerVars
<1>6. QED
    BY <1>1, <1>2, <1>4, <1>5, ShapeOfStep DEF registryVars, ReadLabels, AtBoard

LEMMA ShapeReadSettings ==
    ASSUME Shape, NEW p \in Slots, ReadSettings(p)
    PROVE  Shape'
<1> DEFINE r == [proc[p] EXCEPT !.pc = "page"]
<1>1. /\ Set(p, r) /\ board # None
      /\ UNCHANGED <<registryVars, matchVars, cacheVars, playerVars, events>>
    BY DEF ReadSettings
<1>2. proc[p] \in Process /\ Proper(proc[p]) /\ proc[p].pc = "settings" /\ Reading(p)
    BY DEF ReadSettings, Shape, Typed, At, Reading, ReadLabels
<1>3. r \in Process /\ r.pc = "page"
    BY <1>2 DEF Process, Labels, ReadLabels
<1>4. Proper(r)
    BY <1>2 DEF Proper, Process, ReadLabels
<1> HIDE DEF r
<1>5. Typed'
    BY <1>1, <1>3, TypedIsFramed
       DEF Shape, Typed, registryVars, matchVars, cacheVars, playerVars
<1>6. QED
    BY <1>1, <1>2, <1>3, <1>4, <1>5, ShapeOfStep DEF registryVars, cacheVars

-----------------------------------------------------------------------------
(* Pages, and what a finished read leaves.                                  *)

Rest(p) == {r \in Rows : proc[p].cursor = None \/ Before(proc[p].cursor, r)}
Batch(p) == First(Sorted(Rest(p)), PageSize)

LEMMA BatchOfRows ==
    ASSUME Typed, NEW p
    PROVE  /\ RowSet(Rows) /\ RowSet(Rest(p)) /\ Rest(p) \subseteq Rows
           /\ Sorted(Rest(p)) \in Seq(Row) /\ Len(Sorted(Rest(p))) = Cardinality(Rest(p))
           /\ Cardinality(Rest(p)) \in Nat
           /\ Batch(p) \in Seq(Row) /\ InOrder(Batch(p)) /\ RowSet(El(Batch(p)))
           /\ El(Batch(p)) = {r \in Rest(p) : Cardinality(Ahead(Rest(p), r)) < PageSize}
           /\ Len(Batch(p)) = (IF Cardinality(Rest(p)) < PageSize THEN Cardinality(Rest(p)) ELSE PageSize)
<1>1. RowSet(Rows)
    BY RowsAreRowSet DEF Typed
<1>2. Rest(p) \subseteq Rows
    BY DEF Rest
<1>3. RowSet(Rest(p))
    BY <1>1, <1>2, SubsetIsRowSet
<1>4. /\ Sorted(Rest(p)) \in Seq(Row) /\ Len(Sorted(Rest(p))) = Cardinality(Rest(p))
      /\ Cardinality(Rest(p)) \in Nat /\ InOrder(Sorted(Rest(p)))
    BY <1>3, SortedIsSequence
<1>5. PageSize \in Nat
    BY ConstantTypes
<1>6. Batch(p) \in Seq(Row) /\ InOrder(Batch(p))
    BY <1>4, <1>5, FirstIsSequence, FirstInOrder DEF Batch
<1>7. El(Batch(p)) = {r \in Rest(p) : Cardinality(Ahead(Rest(p), r)) < PageSize}
    BY <1>3, <1>5, FirstOfSorted DEF Batch
<1>8. RowSet(El(Batch(p)))
    BY <1>3, <1>7, SubsetIsRowSet
<1>9. Len(Batch(p)) = (IF Cardinality(Rest(p)) < PageSize THEN Cardinality(Rest(p)) ELSE PageSize)
    BY <1>4, <1>5, FirstIsSequence DEF Batch
<1>10. QED
    BY <1>1, <1>2, <1>3, <1>4, <1>6, <1>7, <1>8, <1>9

(* The step that reads a page, with the page named. *)
LEMMA ReadPageCases ==
    ASSUME Shape, NEW p \in Slots, ReadPage(p)
    PROVE  /\ At(p, "page") /\ UNCHANGED <<registryVars, matchVars, playerVars, events>>
           /\ \/ Batch(p) = <<>> /\ Store(p, proc[p].listed)
              \/ /\ Batch(p) # <<>> /\ UNCHANGED cacheVars
                 /\ Set(p, [proc[p] EXCEPT !.pc = "accounts", !.batch = Batch(p),
                              !.more = Len(Sorted(Rest(p))) > PageSize,
                              !.pages = proc[p].pages + 1, !.cursor = Batch(p)[Len(Batch(p))]])
BY DEF ReadPage, Rest, Batch

LEMMA StoredListing ==
    ASSUME NEW s \in Seq(Row)
    PROVE  /\ First(s, MaxListed) \in Seq(Row)
           /\ Ranked(First(s, MaxListed)) \in Seq(Entry)
           /\ El(First(s, MaxListed)) \subseteq El(s)
           /\ DOMAIN Ranked(First(s, MaxListed)) = DOMAIN First(s, MaxListed)
           /\ DOMAIN First(s, MaxListed) \subseteq DOMAIN s
           /\ \A i \in DOMAIN First(s, MaxListed) :
                /\ First(s, MaxListed)[i] = s[i] /\ s[i] \in Row
                /\ Ranked(First(s, MaxListed))[i].player = s[i].player
                /\ Ranked(First(s, MaxListed))[i].score = s[i].score
                /\ Ranked(First(s, MaxListed))[i].rank = Place(First(s, MaxListed), i)
<1> DEFINE f == First(s, MaxListed)
<1>1. /\ f \in Seq(Row) /\ Len(f) \in 0 .. Len(s) /\ DOMAIN f = 1 .. Len(f)
      /\ \A i \in 1 .. Len(f) : f[i] = s[i]
    BY ConstantTypes, FirstIsSequence
<1> HIDE DEF f
<1>2. /\ Ranked(f) \in Seq(Entry) /\ DOMAIN Ranked(f) = DOMAIN f
      /\ \A i \in DOMAIN f : /\ Ranked(f)[i].player = f[i].player
                             /\ Ranked(f)[i].score = f[i].score
                             /\ Ranked(f)[i].rank = Place(f, i)
    BY <1>1, RankedIsListing
<1>3. DOMAIN s = 1 .. Len(s) /\ Len(s) \in Nat /\ \A i \in 1 .. Len(s) : s[i] \in Row
    OBVIOUS
<1>4. DOMAIN f \subseteq DOMAIN s
    BY <1>1, <1>3
<1>5. El(f) \subseteq El(s)
    BY <1>1, <1>4 DEF El
<1>6. \A i \in DOMAIN f : /\ f[i] = s[i] /\ s[i] \in Row
                          /\ Ranked(f)[i].player = s[i].player /\ Ranked(f)[i].score = s[i].score
                          /\ Ranked(f)[i].rank = Place(f, i)
    BY <1>1, <1>2, <1>3, <1>4
<1>7. QED
    BY <1>1, <1>2, <1>4, <1>5, <1>6 DEF f

LEMMA ShapeStore ==
    ASSUME Shape, NEW p \in Slots, NEW s \in Seq(Row), Store(p, s), proc[p].pc \in AtBoard,
           UNCHANGED <<registryVars, matchVars, playerVars, events>>
    PROVE  Shape'
<1>1. Set(p, Answer(TRUE))
    BY DEF Store, Answered, Answer
<1>2. /\ copy' = Ranked(First(s, MaxListed)) /\ copyAge' = proc[p].since
      /\ current' = proc[p].current /\ failAge' = None /\ moved' = proc[p].moved
    BY DEF Store
<1>3. /\ proc[p].since \in 0 .. ReadTimeout /\ proc[p].current \in BOOLEAN
      /\ proc[p].moved \subseteq Players
    BY DEF Shape, Typed, Process
<1>4. copy' \in Seq(Entry) /\ copyAge' \in 0 .. MaxAge
    BY <1>2, <1>3, StoredListing, ConstantTypes
<1>5. Answer(TRUE) \in Process /\ Proper(Answer(TRUE)) /\ Answer(TRUE).pc = "answer"
    BY AnswerIsProper
<1>6. Typed'
    BY <1>1, <1>2, <1>3, <1>4, <1>5, TypedIsFramed
       DEF Shape, Typed, registryVars, matchVars, playerVars
<1>7. board # None
    BY DEF Shape
<1>8. QED
    BY <1>1, <1>5, <1>6, <1>7, ShapeOfStep DEF registryVars, ReadLabels, AtBoard

LEMMA ShapeReadPage ==
    ASSUME Shape, NEW p \in Slots, ReadPage(p)
    PROVE  Shape'
<1>1. /\ At(p, "page") /\ UNCHANGED <<registryVars, matchVars, playerVars, events>>
    BY ReadPageCases
<1>2. /\ proc[p] \in Process /\ Proper(proc[p]) /\ proc[p].pc = "page" /\ Reading(p)
      /\ proc[p].pc \in AtBoard
    BY <1>1 DEF Shape, Typed, At, Reading, ReadLabels, AtBoard
<1>3. CASE Batch(p) = <<>> /\ Store(p, proc[p].listed)
    <2>1. proc[p].listed \in Seq(Row)
        BY <1>2 DEF Process
    <2>2. QED
        BY <1>1, <1>2, <1>3, <2>1, ShapeStore
<1>4. CASE Batch(p) # <<>>
    <2> DEFINE more == Len(Sorted(Rest(p))) > PageSize
    <2> DEFINE r == [proc[p] EXCEPT !.pc = "accounts", !.batch = Batch(p), !.more = more,
                           !.pages = proc[p].pages + 1, !.cursor = Batch(p)[Len(Batch(p))]]
    <2>1. Set(p, r) /\ UNCHANGED cacheVars
        BY <1>4, ReadPageCases
    <2>2. Batch(p) \in Seq(Row) /\ RowSet(El(Batch(p)))
        BY BatchOfRows DEF Shape
    <2>3. Batch(p)[Len(Batch(p))] \in Row
        <3>1. Len(Batch(p)) \in 1 .. Len(Batch(p))
            BY <2>2, <1>4
        <3>2. QED
            BY <2>2, <3>1
    <2>4. proc[p].pages + 1 \in 0 .. MaxPages
        BY <1>2, ConstantTypes DEF Proper, Process
    <2>5. more \in BOOLEAN
        OBVIOUS
    <2> HIDE DEF more
    <2>6. r \in Process /\ r.pc = "accounts"
        BY <1>2, <2>2, <2>3, <2>4, <2>5 DEF Process, Labels, ReadLabels
    <2>7. Proper(r)
        BY <1>2, <2>2, <2>3 DEF Proper, Process, ReadLabels
    <2> HIDE DEF r
    <2>8. Typed'
        BY <1>1, <2>1, <2>6, TypedIsFramed
           DEF Shape, Typed, registryVars, matchVars, cacheVars, playerVars
    <2>9. QED
        BY <1>1, <1>2, <2>1, <2>6, <2>7, <2>8, ShapeOfStep DEF registryVars, cacheVars, Shape
<1>5. QED
    BY <1>3, <1>4, ReadPageCases

LEMMA ShapeReadAccounts ==
    ASSUME Shape, NEW p \in Slots, ReadAccounts(p)
    PROVE  Shape'
<1> DEFINE kept == Kept(proc[p].batch, {u \in Players \ Unlistable : hidden[u] \in {"no", "queued"}})
<1> DEFINE r == [proc[p] EXCEPT !.pc = "pending", !.batch = kept]
<1>1. Set(p, r) /\ UNCHANGED <<registryVars, matchVars, cacheVars, playerVars, events>>
    BY DEF ReadAccounts
<1>2. /\ proc[p] \in Process /\ Proper(proc[p]) /\ proc[p].pc = "accounts" /\ Reading(p)
      /\ proc[p].pc \in AtBoard
    BY DEF ReadAccounts, Shape, Typed, At, Reading, ReadLabels, AtBoard
<1>3. proc[p].batch \in Seq(Row) /\ RowSet(El(proc[p].batch))
    BY <1>2 DEF Process, Proper
<1>4. kept \in Seq(Row) /\ RowSet(El(kept))
    BY <1>3, KeptIsSorted
<1> HIDE DEF kept
<1>5. r \in Process /\ r.pc = "pending"
    BY <1>2, <1>4 DEF Process, Labels, ReadLabels
<1>6. Proper(r)
    BY <1>2, <1>4 DEF Proper, Process, ReadLabels
<1> HIDE DEF r
<1>7. Typed'
    BY <1>1, <1>5, TypedIsFramed
       DEF Shape, Typed, registryVars, matchVars, cacheVars, playerVars
<1>8. QED
    BY <1>1, <1>2, <1>5, <1>6, <1>7, ShapeOfStep DEF registryVars, cacheVars, Shape

(* What the deletion queue leaves of a page. *)
Pended(p) == Kept(proc[p].batch, {u \in Players : hidden[u] # "queued"})

LEMMA ReadPendingCases ==
    ASSUME Shape, NEW p \in Slots, ReadPending(p)
    PROVE  /\ At(p, "pending") /\ UNCHANGED <<registryVars, matchVars, playerVars, events>>
           /\ \/ /\ proc[p].more /\ proc[p].pages < MaxPages
                 /\ Len(proc[p].listed \o Pended(p)) < MaxListed /\ UNCHANGED cacheVars
                 /\ Set(p, [proc[p] EXCEPT !.pc = "page", !.listed = proc[p].listed \o Pended(p),
                                           !.batch = <<>>])
              \/ /\ \/ ~proc[p].more \/ ~(proc[p].pages < MaxPages)
                    \/ ~(Len(proc[p].listed \o Pended(p)) < MaxListed)
                 /\ Store(p, proc[p].listed \o Pended(p))
BY DEF ReadPending, Collect, Pended

LEMMA PendedType ==
    ASSUME Shape, NEW p \in Slots, At(p, "pending")
    PROVE  /\ proc[p] \in Process /\ Proper(proc[p]) /\ proc[p].pc = "pending"
           /\ Pended(p) \in Seq(Row) /\ InOrder(Pended(p))
           /\ El(Pended(p)) = {r \in El(proc[p].batch) : hidden[r.player] # "queued"}
           /\ proc[p].listed \in Seq(Row) /\ proc[p].listed \o Pended(p) \in Seq(Row)
           /\ El(proc[p].listed \o Pended(p)) = El(proc[p].listed) \cup El(Pended(p))
<1>1. proc[p] \in Process /\ Proper(proc[p]) /\ proc[p].pc = "pending"
    BY DEF Shape, Typed, At
<1>2. /\ proc[p].batch \in Seq(Row) /\ RowSet(El(proc[p].batch))
      /\ proc[p].listed \in Seq(Row)
    BY <1>1 DEF Process, Proper
<1>3. /\ Pended(p) \in Seq(Row) /\ InOrder(Pended(p))
      /\ El(Pended(p)) = {r \in El(proc[p].batch) : r.player \in {u \in Players : hidden[u] # "queued"}}
    BY <1>2, KeptIsSorted DEF Pended
<1>4. \A r \in El(proc[p].batch) : r.player \in Players
    BY <1>2, RowType DEF RowSet
<1>5. proc[p].listed \o Pended(p) \in Seq(Row)
    BY <1>2, <1>3
<1>6. El(proc[p].listed \o Pended(p)) = El(proc[p].listed) \cup El(Pended(p))
    BY <1>2, <1>3, ConcatEl
<1>7. El(Pended(p)) = {r \in El(proc[p].batch) : hidden[r.player] # "queued"}
    BY <1>3, <1>4
<1>8. QED
    BY <1>1, <1>2, <1>3, <1>5, <1>6, <1>7

LEMMA ShapeReadPending ==
    ASSUME Shape, NEW p \in Slots, ReadPending(p)
    PROVE  Shape'
<1> DEFINE s == proc[p].listed \o Pended(p)
<1>1. /\ At(p, "pending") /\ UNCHANGED <<registryVars, matchVars, playerVars, events>>
    BY ReadPendingCases
<1>2. /\ proc[p] \in Process /\ Proper(proc[p]) /\ proc[p].pc = "pending" /\ s \in Seq(Row)
      /\ Reading(p) /\ proc[p].pc \in AtBoard
    BY <1>1, PendedType DEF Reading, ReadLabels, AtBoard
<1>3. CASE Store(p, s)
    <2> HIDE DEF s
    <2>1. QED
        BY <1>1, <1>2, <1>3, ShapeStore
<1>4. CASE ~Store(p, s)
    <2> DEFINE r == [proc[p] EXCEPT !.pc = "page", !.listed = s, !.batch = <<>>]
    <2>1. Set(p, r) /\ UNCHANGED cacheVars /\ proc[p].pages < MaxPages /\ proc[p].more
        BY <1>4, ReadPendingCases
    <2> HIDE DEF s
    <2>2. <<>> \in Seq(Row)
        OBVIOUS
    <2>3. r \in Process /\ r.pc = "page"
        BY <1>2, <2>2 DEF Process, Labels, ReadLabels
    <2>4. Proper(r)
        BY <1>2, <2>1 DEF Proper, Process, ReadLabels
    <2> HIDE DEF r
    <2>5. Typed'
        BY <1>1, <2>1, <2>3, TypedIsFramed
           DEF Shape, Typed, registryVars, matchVars, cacheVars, playerVars
    <2>6. QED
        BY <1>1, <1>2, <2>1, <2>3, <2>4, <2>5, ShapeOfStep DEF registryVars, cacheVars, Shape
<1>5. QED
    BY <1>3, <1>4

LEMMA ShapeRespond ==
    ASSUME Shape, NEW p \in Slots, Respond(p)
    PROVE  Shape'
<1>1. Set(p, Idle) /\ UNCHANGED <<registryVars, matchVars, cacheVars, playerVars, events>>
    BY DEF Respond
<1>2. QED
    BY <1>1, IdleIsProper, ShapeOfMove DEF Idle, ReadLabels

-----------------------------------------------------------------------------
(* The shape through match ends, registrations, bans, restarts and time.    *)

LEMMA ShapeEndBegin ==
    ASSUME Shape, NEW p \in Slots, NEW m \in Matches, EndBegin(p, m)
    PROVE  Shape'
<1> DEFINE r == [Idle EXCEPT !.op = "end", !.match = m, !.left = DOMAIN Results[m], !.pc = "write"]
<1>1. DOMAIN Results[m] \subseteq Players
    BY BoardsAssumption DEF BoardsAssumption
<1>2. r \in Process /\ r.pc = "write"
    BY <1>1, IdleIsProper DEF Process, Labels
<1>3. Proper(r)
    BY <1>2 DEF Proper, Idle, ReadLabels
<1> HIDE DEF r
<1>4. /\ Set(p, r) /\ InBound /\ attempts' = [attempts EXCEPT ![m] = @ + 1]
      /\ UNCHANGED <<registryVars, record, erased, ended, unsure, cacheVars, playerVars>>
    BY DEF EndBegin, Begin, r
<1>5. attempts' \in [Matches -> Nat]
    BY <1>4 DEF Shape, Typed
<1>6. Typed'
    BY <1>2, <1>4, <1>5, TypedIsFramed, InBoundTyped
       DEF Shape, Typed, registryVars, cacheVars, playerVars
<1>7. QED
    BY <1>2, <1>3, <1>4, <1>6, ShapeOfStep DEF registryVars, cacheVars, ReadLabels, AtBoard

LEMMA CombinedType ==
    ASSUME board \in Settings, NEW old \in Int \cup {None}, NEW score \in Int
    PROVE  Combined(old, score) \in Int
<1>1. CASE old = None
    <2>1. Combined(old, score) = IF board.operator = "decr" THEN -score ELSE score
        BY <1>1 DEF Combined
    <2>2. -score \in Int
        OBVIOUS
    <2>3. QED
        BY <2>1, <2>2
<1>2. CASE old \in Int /\ old # None
    <2>1. CASE board.operator = "set"
        BY <1>2, <2>1 DEF Combined
    <2>2. CASE board.operator = "incr"
        BY <1>2, <2>2 DEF Combined
    <2>3. CASE board.operator = "decr"
        BY <1>2, <2>3 DEF Combined
    <2>4. CASE board.operator \notin {"set", "incr", "decr"}
        BY <1>2, <2>4 DEF Combined
    <2>5. QED
        BY <2>1, <2>2, <2>3, <2>4
<1>3. QED
    BY <1>1, <1>2

(* A request that has still a record to write, after one. *)
AfterWrite(p, u, ok) ==
    LET r == [proc[p] EXCEPT !.left = @ \ {u}, !.recorded = @ \/ ok, !.failed = @ \/ ~ok]
    IN  IF r.left = {} THEN [r EXCEPT !.pc = "history"] ELSE r

LEMMA WrittenType ==
    ASSUME NEW s \in Process, s.pc = "write",
           NEW l \in SUBSET Players, NEW a \in BOOLEAN, NEW b \in BOOLEAN
    PROVE  /\ [s EXCEPT !.left = l, !.recorded = a, !.failed = b] \in Process
           /\ [s EXCEPT !.left = l, !.recorded = a, !.failed = b].pc = "write"
BY DEF Process

LEMMA AfterWriteType ==
    ASSUME Shape, NEW p \in Slots, At(p, "write"), NEW u, NEW ok \in BOOLEAN
    PROVE  /\ AfterWrite(p, u, ok) \in Process /\ Proper(AfterWrite(p, u, ok))
           /\ AfterWrite(p, u, ok).pc \in {"write", "history"}
           /\ AfterWrite(p, u, ok).op = "end"
           /\ AfterWrite(p, u, ok).recorded = (proc[p].recorded \/ ok)
           /\ AfterWrite(p, u, ok).match = proc[p].match
<1> DEFINE r == [proc[p] EXCEPT !.left = @ \ {u}, !.recorded = @ \/ ok, !.failed = @ \/ ~ok]
<1> DEFINE t == [r EXCEPT !.pc = "history"]
<1>1. /\ proc[p] \in Process /\ Proper(proc[p]) /\ proc[p].pc = "write" /\ proc[p].op = "end"
    BY DEF Shape, Typed, At, Proper
<1>2. r \in Process /\ r.pc = "write"
    <2>1. proc[p].left \ {u} \in SUBSET Players
        BY <1>1 DEF Process
    <2>2. (proc[p].recorded \/ ok) \in BOOLEAN /\ (proc[p].failed \/ ~ok) \in BOOLEAN
        OBVIOUS
    <2>3. \A l \in SUBSET Players, a \in BOOLEAN, b \in BOOLEAN :
            /\ [proc[p] EXCEPT !.left = l, !.recorded = a, !.failed = b] \in Process
            /\ [proc[p] EXCEPT !.left = l, !.recorded = a, !.failed = b].pc = "write"
        BY <1>1, WrittenType
    <2>4. QED
        BY <2>1, <2>2, <2>3, Zenon
<1>3. r.op = "end" /\ r.recorded = (proc[p].recorded \/ ok) /\ r.match = proc[p].match
    BY <1>1 DEF Process
<1>4. Proper(r)
    BY <1>1 DEF Proper, Process, ReadLabels
<1> HIDE DEF r
<1>5. t \in Process /\ t.pc = "history"
    BY <1>2 DEF Process, Labels
<1>6. t.op = "end" /\ t.recorded = (proc[p].recorded \/ ok) /\ t.match = proc[p].match
    BY <1>2, <1>3 DEF Process
<1>7. Proper(t)
    BY <1>2, <1>4 DEF Proper, Process, ReadLabels
<1> HIDE DEF t
<1>8. AfterWrite(p, u, ok) = IF r.left = {} THEN t ELSE r
    BY DEF AfterWrite, r, t
<1>9. QED
    BY <1>2, <1>3, <1>4, <1>5, <1>6, <1>7, <1>8

LEMMA WriteRecordCases ==
    ASSUME NEW p, NEW u, WriteRecord(p, u)
    PROVE  /\ At(p, "write") /\ u \in proc[p].left
           /\ UNCHANGED <<registryVars, erased, ended, attempts, cacheVars, playerVars>>
           /\ UNCHANGED events \/ InBound
           /\ \/ /\ board # None /\ Set(p, AfterWrite(p, u, TRUE)) /\ UNCHANGED unsure
                 /\ record' = [record EXCEPT ![u] = Combined(@, Results[proc[p].match][u])]
              \/ /\ board # None /\ Set(p, AfterWrite(p, u, FALSE)) /\ unsure' = TRUE
                 /\ record' = [record EXCEPT ![u] = Combined(@, Results[proc[p].match][u])]
              \/ Set(p, AfterWrite(p, u, FALSE)) /\ UNCHANGED <<record, unsure>>
BY DEF WriteRecord, Written, AfterWrite, Fault

LEMMA ShapeWriteRecord ==
    ASSUME Shape, NEW p \in Slots, NEW u \in Players, WriteRecord(p, u)
    PROVE  Shape'
<1>1. /\ At(p, "write") /\ u \in proc[p].left
      /\ UNCHANGED <<registryVars, erased, ended, attempts, cacheVars, playerVars>>
      /\ UNCHANGED events \/ InBound
    BY WriteRecordCases
<1>2. PICK ok \in BOOLEAN : Set(p, AfterWrite(p, u, ok))
    BY WriteRecordCases
<1>3. /\ AfterWrite(p, u, ok) \in Process /\ Proper(AfterWrite(p, u, ok))
      /\ AfterWrite(p, u, ok).pc \in {"write", "history"}
    BY <1>1, AfterWriteType
<1>4. unsure' \in BOOLEAN
    BY WriteRecordCases DEF Shape, Typed
<1>5. record' \in [Players -> Int \cup {None}]
    <2>1. CASE record' = record
        BY <2>1 DEF Shape, Typed
    <2>2. CASE /\ board # None
               /\ record' = [record EXCEPT ![u] = Combined(@, Results[proc[p].match][u])]
        <3>1. Results[proc[p].match][u] \in Int
            <4>1. proc[p].match \in Matches /\ u \in DOMAIN Results[proc[p].match]
                BY <1>1 DEF Shape, Proper, At
            <4>2. QED
                BY <4>1, BoardsAssumption DEF BoardsAssumption
        <3>2. board \in Settings /\ record[u] \in Int \cup {None}
            BY <2>2 DEF Shape, Typed
        <3>3. Combined(record[u], Results[proc[p].match][u]) \in Int
            BY <3>1, <3>2, CombinedType
        <3>4. QED
            BY <2>2, <3>3 DEF Shape, Typed
    <2>3. QED
        BY <2>1, <2>2, WriteRecordCases
<1>6. Typed'
    BY <1>1, <1>2, <1>3, <1>4, <1>5, TypedIsFramed, InBoundTyped
       DEF Shape, Typed, registryVars, cacheVars, playerVars
<1>7. QED
    BY <1>1, <1>2, <1>3, <1>6, ShapeOfStep DEF registryVars, cacheVars, ReadLabels, AtBoard

(* Requests that keep their place and what Proper says of them. *)
LEMMA ShapeOfAll ==
    ASSUME Shape, Typed', board' = board, copy' = copy,
           \A q \in Slots : Proper(proc'[q]) /\ proc'[q].pc \in {proc[q].pc, "idle"}
    PROVE  Shape'
BY DEF Shape, Reading, ReadLabels, AtBoard

LEMMA ShapeWriteHistory ==
    ASSUME Shape, NEW p \in Slots, WriteHistory(p)
    PROVE  Shape'
<1> DEFINE r == [proc EXCEPT ![p] = Idle]
<1>1. /\ proc' = (IF proc[p].recorded THEN Invalidated(r) ELSE r)
      /\ current' = (current /\ ~proc[p].recorded) /\ unsure' = (unsure /\ ~proc[p].recorded)
      /\ UNCHANGED <<registryVars, record, erased, attempts, copy, copyAge, failAge, moved, playerVars>>
      /\ At(p, "history") /\ (UNCHANGED events \/ InBound)
      /\ (ended' = ended \/ ended' = ended \cup {proc[p].match})
    BY DEF WriteHistory, Fault
<1>2. r \in [Slots -> Process] /\ \A q \in Slots : Proper(r[q]) /\ r[q].pc \in {proc[q].pc, "idle"}
    BY IdleIsProper DEF Shape, Typed, Idle
<1> HIDE DEF r
<1>3. /\ Invalidated(r) \in [Slots -> Process]
      /\ \A q \in Slots : Proper(Invalidated(r)[q]) /\ Invalidated(r)[q].pc \in {proc[q].pc, "idle"}
    <2>1. ASSUME NEW q \in Slots
          PROVE  /\ Invalidated(r)[q] \in Process /\ Proper(Invalidated(r)[q])
                 /\ Invalidated(r)[q].pc \in {proc[q].pc, "idle"}
        <3> DEFINE t == [r[q] EXCEPT !.current = FALSE]
        <3>1. r[q] \in Process /\ Proper(r[q]) /\ r[q].pc \in {proc[q].pc, "idle"}
            BY <1>2
        <3>2. t \in Process /\ t.pc = r[q].pc
            BY <3>1 DEF Process
        <3>3. Proper(t)
            BY <3>1 DEF Proper, Process
        <3>4. QED
            BY <3>1, <3>2, <3>3 DEF Invalidated
    <2>2. Invalidated(r) = [q \in Slots |-> Invalidated(r)[q]]
        BY DEF Invalidated
    <2>3. QED
        BY <2>1, <2>2
<1>4. /\ proc' \in [Slots -> Process]
      /\ \A q \in Slots : Proper(proc'[q]) /\ proc'[q].pc \in {proc[q].pc, "idle"}
    BY <1>1, <1>2, <1>3
<1>5. proc[p].match \in Matches /\ proc[p].recorded \in BOOLEAN
    BY <1>1 DEF Shape, Typed, Proper, At, Process
<1>6. Typed'
    BY <1>1, <1>4, <1>5, InBoundTyped DEF Shape, Typed, registryVars, playerVars
<1>7. QED
    BY <1>1, <1>4, <1>6, ShapeOfAll DEF registryVars

LEMMA ShapeRegisterBegin ==
    ASSUME Shape, NEW p \in Slots, NEW c \in Configs, RegisterBegin(p, c)
    PROVE  Shape'
<1> DEFINE r == [Idle EXCEPT !.op = "register", !.config = c, !.pc = "upsert"]
<1>1. c \in Config
    BY ConstantTypes
<1>2. r \in Process /\ r.pc = "upsert"
    BY <1>1, IdleIsProper DEF Process, Labels
<1>3. Proper(r)
    BY <1>1 DEF Proper, Idle, ReadLabels
<1> HIDE DEF r
<1>4. /\ Set(p, r) /\ InBound /\ astray' = (astray \/ \E q \in Slots : proc[q].op = "register")
      /\ UNCHANGED <<stored, cached, board, registered, matchVars, cacheVars, playerVars>>
    BY DEF RegisterBegin, Begin, r
<1>5. Typed'
    BY <1>2, <1>4, TypedIsFramed, InBoundTyped DEF Shape, Typed, matchVars, cacheVars, playerVars
<1>6. QED
    BY <1>2, <1>3, <1>4, <1>5, ShapeOfStep DEF cacheVars, ReadLabels, AtBoard

LEMMA RegisterConfig ==
    ASSUME Shape, NEW p \in Slots, proc[p].pc \in {"upsert", "cache", "create"}
    PROVE  proc[p] \in Process /\ Proper(proc[p]) /\ proc[p].op = "register" /\ proc[p].config \in Config
BY DEF Shape, Typed, Proper

LEMMA ShapeUpsert ==
    ASSUME Shape, NEW p \in Slots, Upsert(p)
    PROVE  Shape'
<1> DEFINE r == [proc[p] EXCEPT !.pc = "cache"]
<1>1. /\ proc[p].pc = "upsert" /\ UNCHANGED <<cached, board, registered, matchVars, cacheVars, playerVars>>
      /\ (UNCHANGED events \/ InBound) /\ (astray' = astray \/ astray' = TRUE)
      /\ (stored' = stored \/ stored' = proc[p].config) /\ (Set(p, r) \/ Set(p, Idle))
    BY DEF Upsert, At, Fault
<1>2. proc[p] \in Process /\ Proper(proc[p]) /\ proc[p].config \in Config
    BY <1>1, RegisterConfig
<1>3. r \in Process /\ r.pc = "cache"
    BY <1>2 DEF Process, Labels
<1>4. Proper(r)
    BY <1>1, <1>2 DEF Proper, Process, ReadLabels
<1> HIDE DEF r
<1>5. PICK t \in {r, Idle} : Set(p, t)
    BY <1>1
<1>6. t \in Process /\ Proper(t) /\ t.pc \in {"cache", "idle"}
    <2>1. Idle.pc = "idle"
        BY DEF Idle
    <2>2. QED
        BY <2>1, <1>3, <1>4, <1>5, IdleIsProper
<1>7. Typed'
    BY <1>1, <1>2, <1>5, <1>6, TypedIsFramed, InBoundTyped
       DEF Shape, Typed, matchVars, cacheVars, playerVars
<1>8. QED
    BY <1>1, <1>5, <1>6, <1>7, ShapeOfStep DEF cacheVars, ReadLabels, AtBoard

LEMMA ShapePutCache ==
    ASSUME Shape, NEW p \in Slots, PutCache(p)
    PROVE  Shape'
<1> DEFINE r == [proc[p] EXCEPT !.pc = "create"]
<1>1. /\ proc[p].pc = "cache" /\ cached' = proc[p].config /\ Set(p, r)
      /\ UNCHANGED <<stored, board, astray, registered, matchVars, cacheVars, playerVars, events>>
    BY DEF PutCache, At
<1>2. proc[p] \in Process /\ Proper(proc[p]) /\ proc[p].config \in Config
    BY <1>1, RegisterConfig
<1>3. r \in Process /\ r.pc = "create"
    BY <1>2 DEF Process, Labels
<1>4. Proper(r)
    BY <1>1, <1>2 DEF Proper, Process, ReadLabels
<1> HIDE DEF r
<1>5. Typed'
    BY <1>1, <1>2, <1>3, TypedIsFramed DEF Shape, Typed, matchVars, cacheVars, playerVars
<1>6. QED
    BY <1>1, <1>3, <1>4, <1>5, ShapeOfStep DEF cacheVars, ReadLabels, AtBoard

LEMMA CreatedType ==
    ASSUME Typed, NEW c \in Config
    PROVE  Created(c) \in Settings \cup {None} /\ (board # None => Created(c) = board)
BY DEF Typed, Created, Config

LEMMA ShapeCreateBoard ==
    ASSUME Shape, NEW p \in Slots, CreateBoard(p)
    PROVE  Shape'
<1>1. /\ proc[p].pc = "create" /\ Set(p, Idle)
      /\ UNCHANGED <<stored, cached, astray, matchVars, cacheVars, playerVars>>
      /\ (UNCHANGED events \/ InBound)
      /\ \/ board' = Created(proc[p].config) /\ registered' = proc[p].config
         \/ UNCHANGED <<board, registered>>
    BY DEF CreateBoard, At, Fault
<1>2. proc[p].config \in Config
    BY <1>1, RegisterConfig
<1>3. /\ board' \in Settings \cup {None} /\ (board # None => board' = board)
      /\ registered' \in Config \cup {None}
    BY <1>1, <1>2, CreatedType DEF Shape, Typed
<1>4. proc' \in [Slots -> Process]
    BY <1>1, IdleIsProper, TypedIsFramed DEF Shape
<1>5. Typed'
    BY <1>1, <1>3, <1>4, InBoundTyped DEF Shape, Typed, matchVars, cacheVars, playerVars
<1>6. \A q \in Slots : proc'[q] = IF q = p THEN Idle ELSE proc[q]
    BY <1>1 DEF Set, Shape, Typed
<1>7. \A q \in Slots : Proper(proc'[q]) /\ proc'[q].pc \in {proc[q].pc, "idle"}
    BY <1>6, IdleIsProper DEF Shape, Idle
<1>8. QED
    BY <1>1, <1>3, <1>5, <1>7 DEF Shape, Reading, ReadLabels, AtBoard, cacheVars

LEMMA ShapeRestart ==
    ASSUME Shape, Restart
    PROVE  Shape'
<1>1. \A q \in Slots : proc'[q] = Idle
    BY DEF Restart
<1>2. board' \in Settings \cup {None}
    BY CreatedType DEF Restart, Shape, Typed
<1>3. proc' \in [Slots -> Process]
    BY IdleIsProper DEF Restart
<1>4. events' \in 0 .. MaxEvents
    BY InBoundTyped DEF Restart, Shape
<1>5. Typed'
    <2>1. /\ copy' = None /\ copyAge' = 0 /\ current' = FALSE /\ failAge' = None /\ moved' = {}
          /\ cached' = stored /\ astray' = FALSE /\ unsure' = FALSE
          /\ UNCHANGED <<stored, registered, record, erased, ended, attempts, hidden, hiddenAge>>
        BY DEF Restart
    <2>2. 0 \in 0 .. MaxAge /\ erasing' \in [Players -> Nat]
        BY ConstantTypes DEF Restart
    <2>3. QED
        BY <1>2, <1>3, <1>4, <2>1, <2>2 DEF Shape, Typed
<1>6. QED
    BY <1>1, <1>5, IdleIsProper DEF Shape, Restart, Reading, ReadLabels, AtBoard, Idle

LEMMA MovedRequest ==
    ASSUME Shape, NEW u \in Players, Moved(u)
    PROVE  /\ moved' = moved \cup {u} /\ proc' \in [Slots -> Process]
           /\ \A q \in Slots :
                /\ Proper(proc'[q]) /\ proc'[q].pc = proc[q].pc
                /\ ~Reading(q) => proc'[q] = proc[q]
                /\ Reading(q) => proc'[q] = [proc[q] EXCEPT !.moved = @ \cup {u}]
<1>1. proc' = [q \in Slots |-> IF Reading(q) THEN [proc[q] EXCEPT !.moved = @ \cup {u}] ELSE proc[q]]
    BY DEF Moved
<1>2. ASSUME NEW q \in Slots
      PROVE  /\ proc'[q] \in Process /\ Proper(proc'[q]) /\ proc'[q].pc = proc[q].pc
             /\ ~Reading(q) => proc'[q] = proc[q]
             /\ Reading(q) => proc'[q] = [proc[q] EXCEPT !.moved = @ \cup {u}]
    <2>1. proc[q] \in Process /\ Proper(proc[q])
        BY DEF Shape, Typed
    <2>2. CASE ~Reading(q)
        BY <1>1, <2>1, <2>2
    <2>3. CASE Reading(q)
        <3> DEFINE t == [proc[q] EXCEPT !.moved = @ \cup {u}]
        <3>1. proc'[q] = t
            BY <1>1, <2>3
        <3>2. t \in Process /\ t.pc = proc[q].pc
            BY <2>1 DEF Process
        <3>3. Proper(t)
            BY <2>1, <2>3 DEF Proper, Process, Reading, ReadLabels
        <3>4. QED
            BY <2>3, <3>1, <3>2, <3>3
    <2>4. QED
        BY <2>2, <2>3
<1>3. QED
    BY <1>1, <1>2 DEF Moved

(* What a ban, a deletion or their end changes, and of whom. *)
LEMMA PlayerStepLeaves ==
    ASSUME Shape, NEW u \in Leaving, PlayerStep(u)
    PROVE  /\ u \in Players /\ Moved(u) /\ (UNCHANGED events \/ InBound)
           /\ UNCHANGED <<registryVars, ended, attempts, unsure, copy, copyAge, current, failAge>>
           /\ \/ UNCHANGED <<hidden, hiddenAge>>
              \/ \E why \in Reasons : Hides(u, why)
           /\ erasing' \in [Players -> Nat]
           /\ Erase(u) \/ UNCHANGED <<record, erased>>
<1>1. u \in Players /\ erasing \in [Players -> Nat]
    BY ConstantTypes DEF Shape, Typed
<1>2. CASE Ban(u) \/ Unban(u)
    BY <1>1, <1>2 DEF Ban, Unban, Reasons, matchVars, cacheKept
<1>3. CASE RequestDeletion(u)
    BY <1>1, <1>3 DEF RequestDeletion, Reasons, matchVars, cacheKept
<1>4. CASE EraseRecord(u)
    <2>1. erasing[u] - 1 \in Nat
        BY <1>1, <1>4 DEF EraseRecord
    <2>2. QED
        BY <1>1, <1>4, <2>1 DEF EraseRecord, Fault, cacheKept
<1>5. CASE CancelDeletion(u) \/ Rename(u)
    BY <1>1, <1>5 DEF CancelDeletion, Rename, Reasons, matchVars, cacheKept
<1>6. CASE HardDelete(u)
    BY <1>1, <1>6 DEF HardDelete, Reasons, cacheKept
<1>7. QED
    BY <1>2, <1>3, <1>4, <1>5, <1>6 DEF PlayerStep

LEMMA ShapePlayerStep ==
    ASSUME Shape, NEW u \in Leaving, PlayerStep(u)
    PROVE  Shape'
<1>1. /\ u \in Players /\ Moved(u) /\ (UNCHANGED events \/ InBound)
      /\ UNCHANGED <<registryVars, ended, attempts, unsure, copy, copyAge, current, failAge>>
      /\ erasing' \in [Players -> Nat]
    BY PlayerStepLeaves
<1>2. /\ moved' = moved \cup {u} /\ proc' \in [Slots -> Process]
      /\ \A q \in Slots : Proper(proc'[q]) /\ proc'[q].pc = proc[q].pc
    BY <1>1, MovedRequest
<1>3. hidden' \in [Players -> Reasons] /\ hiddenAge' \in [Players -> 0 .. MaxAge]
    <2>1. /\ hidden \in [Players -> Reasons] /\ hiddenAge \in [Players -> 0 .. MaxAge]
          /\ 0 \in 0 .. MaxAge
        BY ConstantTypes DEF Shape, Typed
    <2>2. CASE UNCHANGED <<hidden, hiddenAge>>
        BY <2>1, <2>2
    <2>3. CASE \E why \in Reasons : Hides(u, why)
        BY <1>1, <2>1, <2>3 DEF Hides
    <2>4. QED
        BY <2>2, <2>3, PlayerStepLeaves
<1>4. record' \in [Players -> Int \cup {None}] /\ erased' \subseteq Players
    BY <1>1, PlayerStepLeaves DEF Erase, Shape, Typed
<1>5. Typed'
    BY <1>1, <1>2, <1>3, <1>4, InBoundTyped DEF Shape, Typed, registryVars
<1>6. QED
    BY <1>1, <1>2, <1>5, ShapeOfAll DEF registryVars

LEMMA TickedRequest ==
    ASSUME Shape, Tick
    PROVE  /\ proc' \in [Slots -> Process]
           /\ \A q \in Slots :
                /\ Proper(proc'[q]) /\ proc'[q].pc = proc[q].pc
                /\ ~Reading(q) => proc'[q] = proc[q]
                /\ Reading(q) => proc'[q] = [proc[q] EXCEPT !.since = @ + 1]
<1>1. proc' = [q \in Slots |-> IF Reading(q) THEN [proc[q] EXCEPT !.since = @ + 1] ELSE proc[q]]
    BY DEF Tick
<1>2. ASSUME NEW q \in Slots
      PROVE  /\ proc'[q] \in Process /\ Proper(proc'[q]) /\ proc'[q].pc = proc[q].pc
             /\ ~Reading(q) => proc'[q] = proc[q]
             /\ Reading(q) => proc'[q] = [proc[q] EXCEPT !.since = @ + 1]
    <2>1. proc[q] \in Process /\ Proper(proc[q])
        BY DEF Shape, Typed
    <2>2. CASE ~Reading(q)
        BY <1>1, <2>1, <2>2
    <2>3. CASE Reading(q)
        <3> DEFINE t == [proc[q] EXCEPT !.since = @ + 1]
        <3>1. proc'[q] = t
            BY <1>1, <2>3
        <3>2. proc[q].since + 1 \in 0 .. ReadTimeout
            <4>1. proc[q].since < ReadTimeout
                BY <2>3 DEF Tick
            <4>2. proc[q].since \in 0 .. ReadTimeout
                BY <2>1 DEF Process
            <4>3. QED
                BY <4>1, <4>2, ConstantTypes
        <3>3. t \in Process /\ t.pc = proc[q].pc
            BY <2>1, <3>2 DEF Process
        <3>4. Proper(t)
            BY <2>1, <2>3 DEF Proper, Process, Reading, ReadLabels
        <3>5. QED
            BY <2>3, <3>1, <3>3, <3>4
    <2>4. QED
        BY <2>2, <2>3
<1>3. QED
    BY <1>1, <1>2

LEMMA OlderType ==
    ASSUME NEW cap \in Nat, NEW age \in 0 .. cap
    PROVE  /\ Older(age, cap) \in 0 .. cap /\ Older(age, cap) <= age + 1
           /\ \A b \in 0 .. cap : age <= b => Older(age, cap) <= Older(b, cap)
BY DEF Older

LEMMA ShapeTick ==
    ASSUME Shape, Tick
    PROVE  Shape'
<1>1. proc' \in [Slots -> Process] /\ \A q \in Slots : Proper(proc'[q]) /\ proc'[q].pc = proc[q].pc
    BY TickedRequest
<1>2. UNCHANGED <<registryVars, matchVars, hidden, erasing, copy, current, moved, events>>
    BY DEF Tick
<1>3. copyAge' \in 0 .. MaxAge
    BY ConstantTypes, OlderType DEF Tick, Shape, Typed
<1>4. failAge' \in 0 .. RetryInterval \cup {None}
    BY ConstantTypes, OlderType DEF Tick, Shape, Typed
<1>5. hiddenAge' \in [Players -> 0 .. MaxAge]
    <2>1. ASSUME NEW u \in Players
          PROVE  (IF hidden[u] = "no" THEN 0 ELSE Older(hiddenAge[u], MaxAge)) \in 0 .. MaxAge
        <3>1. MaxAge \in Nat /\ hiddenAge[u] \in 0 .. MaxAge
            BY ConstantTypes DEF Shape, Typed
        <3>2. Older(hiddenAge[u], MaxAge) \in 0 .. MaxAge
            BY <3>1, OlderType
        <3>3. QED
            BY <3>1, <3>2
    <2>2. QED
        BY <2>1 DEF Tick
<1>6. Typed'
    BY <1>1, <1>2, <1>3, <1>4, <1>5 DEF Shape, Typed, registryVars, matchVars
<1>7. QED
    BY <1>1, <1>2, <1>6, ShapeOfAll DEF registryVars

LEMMA ShapeInit == Init => Shape
<1> SUFFICES ASSUME Init
             PROVE  Shape
    OBVIOUS
<1>1. stored \in Config /\ cached = stored /\ board = stored.board /\ stored.board \in Settings \cup {None}
    BY ConstantTypes DEF Init, Config
<1>2. record \in [Players -> Int \cup {None}]
    BY BoardsAssumption DEF Init, BoardsAssumption
<1>3. proc \in [Slots -> Process] /\ \A p \in Slots : proc[p] = Idle
    BY IdleIsProper DEF Init
<1>4. Typed
    <2>1. 0 \in 0 .. MaxAge /\ 0 \in 0 .. MaxEvents
        BY ConstantTypes
    <2>2. /\ hidden = [u \in Players |-> "no"] /\ hiddenAge = [u \in Players |-> 0]
          /\ copy = None /\ copyAge = 0 /\ current = FALSE /\ failAge = None /\ moved = {}
          /\ ended = {} /\ attempts = [m \in Matches |-> 0]
          /\ astray = FALSE /\ registered = None /\ unsure = FALSE /\ events = 0
          /\ erasing = [u \in Players |-> 0] /\ erased = {}
        BY DEF Init
    <2>3. /\ hidden \in [Players -> Reasons] /\ erasing \in [Players -> Nat]
          /\ hiddenAge \in [Players -> 0 .. MaxAge] /\ attempts \in [Matches -> Nat]
        BY <2>1, <2>2 DEF Reasons
    <2>4. QED
        BY <1>1, <1>2, <1>3, <2>1, <2>2, <2>3 DEF Typed
<1>5. QED
    BY <1>3, <1>4, IdleIsProper DEF Init, Shape, Reading, ReadLabels, AtBoard, Idle

LEMMA ShapeNext == Shape /\ [Next]_vars => Shape'
<1> SUFFICES ASSUME Shape, [Next]_vars
             PROVE  Shape'
    OBVIOUS
<1>1. CASE UNCHANGED vars
    BY <1>1 DEF vars, registryVars, matchVars, cacheVars, playerVars, Shape, Typed, Reading
<1>2. CASE Restart \/ Tick
    BY <1>2, ShapeRestart, ShapeTick
<1>3. CASE \E u \in Leaving : PlayerStep(u)
    BY <1>3, ShapePlayerStep
<1>4. ASSUME NEW p \in Slots,
             \/ ListBegin(p) \/ Take(p) \/ ReadStep(p) \/ StatsStep(p) \/ Respond(p)
             \/ WriteHistory(p) \/ Upsert(p) \/ PutCache(p) \/ CreateBoard(p)
      PROVE  Shape'
    BY <1>4, ShapeListBegin, ShapeTake, ShapeReadFails, ShapeReadSettings, ShapeReadPage,
       ShapeReadAccounts, ShapeReadPending, ShapeStatsCheck, ShapeStatsRecord, ShapeRespond,
       ShapeWriteHistory, ShapeUpsert, ShapePutCache, ShapeCreateBoard DEF ReadStep, StatsStep
<1>5. ASSUME NEW p \in Slots,
             \/ \E u \in Asked : StatsBegin(p, u)
             \/ \E u \in Players : WriteRecord(p, u)
             \/ \E m \in Matches : EndBegin(p, m)
             \/ \E c \in Configs : RegisterBegin(p, c)
      PROVE  Shape'
    BY <1>5, ShapeStatsBegin, ShapeWriteRecord, ShapeEndBegin, ShapeRegisterBegin
<1>6. QED
    BY <1>1, <1>2, <1>3, <1>4, <1>5 DEF Next

LEMMA ShapeIsTypeOK ==
    ASSUME Shape
    PROVE  BoardsTypeOK
<1> DEFINE S == {p \in Slots : Reading(p)}
<1>1. Cardinality(S) <= 1
    <2>1. CASE S = {}
        BY <2>1, FS_EmptySet
    <2>2. CASE S # {}
        <3>1. PICK p : p \in S
            BY <2>2
        <3>2. S = {p}
            BY <3>1 DEF Shape
        <3>3. QED
            BY <3>2, FS_Singleton
    <2>3. QED
        BY <2>1, <2>2
<1>2. QED
    BY <1>1 DEF BoardsTypeOK, Shape, Typed

-----------------------------------------------------------------------------
(* Steps that leave the listing and the players alone.                      *)

AsideStep(p) ==
    \/ ListBegin(p) \/ StatsStep(p) \/ Respond(p) \/ ServeCopy(p) \/ BackOff(p)
    \/ \E u \in Asked : StatsBegin(p, u)
    \/ \E m \in Matches : EndBegin(p, m)
    \/ \E u \in Players : WriteRecord(p, u)

RegistryStep(p) ==
    Upsert(p) \/ PutCache(p) \/ CreateBoard(p) \/ \E c \in Configs : RegisterBegin(p, c)

(* No request but this one has moved. *)
Alone(p) == \A q \in Slots : q # p => proc'[q] = proc[q]

LEMMA AsideLeaves ==
    ASSUME Shape, NEW p \in Slots, AsideStep(p)
    PROVE  /\ UNCHANGED <<registryVars, cacheVars, playerVars>> /\ ~Reading(p)
           /\ proc[p].op # "register" /\ proc[p].pc # "cache"
           /\ Alone(p) /\ proc'[p].pc \notin ReadLabels /\ proc'[p].op # "register"
           /\ proc'[p].pc # "cache"
<1>1. proc[p] \in Process /\ Proper(proc[p]) /\ Idle \in Process /\ proc \in [Slots -> Process]
    BY IdleIsProper DEF Shape, Typed
<1>2. CASE ListBegin(p)
    <2>1. /\ UNCHANGED <<registryVars, cacheVars, playerVars>> /\ At(p, "idle")
          /\ Set(p, [Idle EXCEPT !.op = "list", !.pc = "lock"])
        BY <1>2 DEF ListBegin, Begin
    <2>2. Alone(p) /\ proc'[p].pc = "lock" /\ proc'[p].op = "list"
        BY <1>1, <2>1 DEF Set, Alone, Idle
    <2>3. QED
        BY <1>1, <2>1, <2>2 DEF At, Reading, ReadLabels, Proper
<1>3. CASE \E u \in Asked : StatsBegin(p, u)
    <2>1. PICK u \in Asked : StatsBegin(p, u)
        BY <1>3
    <2>2. /\ UNCHANGED <<registryVars, cacheVars, playerVars>> /\ At(p, "idle")
          /\ Set(p, [Idle EXCEPT !.op = "stats", !.target = u, !.pc = "check"])
        BY <2>1 DEF StatsBegin, Begin
    <2>3. Alone(p) /\ proc'[p].pc = "check" /\ proc'[p].op = "stats"
        BY <1>1, <2>2 DEF Set, Alone, Idle
    <2>4. QED
        BY <1>1, <2>2, <2>3 DEF At, Reading, ReadLabels, Proper
<1>4. CASE \E m \in Matches : EndBegin(p, m)
    <2>1. PICK m \in Matches : EndBegin(p, m)
        BY <1>4
    <2>2. /\ UNCHANGED <<registryVars, cacheVars, playerVars>> /\ At(p, "idle")
          /\ Set(p, [Idle EXCEPT !.op = "end", !.match = m, !.left = DOMAIN Results[m], !.pc = "write"])
        BY <2>1 DEF EndBegin, Begin
    <2>3. Alone(p) /\ proc'[p].pc = "write" /\ proc'[p].op = "end"
        BY <1>1, <2>2 DEF Set, Alone, Idle
    <2>4. QED
        BY <1>1, <2>2, <2>3 DEF At, Reading, ReadLabels, Proper
<1>5. CASE Respond(p) \/ StatsStep(p)
    <2>1. /\ UNCHANGED <<registryVars, cacheVars, playerVars>>
          /\ proc[p].pc \in {"check", "record", "answer"}
        BY <1>5 DEF StatsStep, StatsCheck, StatsRecord, Respond, At
    <2>2. CASE Set(p, Idle)
        <3>1. Alone(p) /\ proc'[p].pc = "idle" /\ proc'[p].op = "none"
            BY <1>1, <2>2 DEF Set, Alone, Idle
        <3>2. QED
            BY <1>1, <2>1, <3>1 DEF Reading, ReadLabels, Proper
    <2>3. CASE At(p, "check") /\ Set(p, [proc[p] EXCEPT !.pc = "record"])
        <3>1. Alone(p) /\ proc'[p].pc = "record" /\ proc'[p].op = "stats"
            BY <1>1, <2>3 DEF Set, Alone, Proper, Process, At
        <3>2. QED
            BY <1>1, <2>1, <3>1 DEF Reading, ReadLabels, Proper
    <2>4. CASE Set(p, [Idle EXCEPT !.op = "list", !.pc = "lock"])
        <3>1. Alone(p) /\ proc'[p].pc = "lock" /\ proc'[p].op = "list"
            BY <1>1, <2>4 DEF Set, Alone, Idle
        <3>2. QED
            BY <1>1, <2>1, <3>1 DEF Reading, ReadLabels, Proper
    <2>5. QED
        BY <1>5, <2>2, <2>3, <2>4 DEF StatsStep, StatsCheck, StatsRecord, Respond
<1>6. CASE ServeCopy(p) \/ BackOff(p)
    <2>1. /\ UNCHANGED <<registryVars, cacheVars, playerVars>> /\ proc[p].pc = "lock"
        BY <1>6 DEF ServeCopy, BackOff, At
    <2>2. PICK got \in BOOLEAN : Set(p, Answer(got))
        BY <1>6 DEF ServeCopy, BackOff, Answered, Answer, FallBack
    <2>3. Alone(p) /\ proc'[p].pc = "answer" /\ proc'[p].op = "list"
        BY <1>1, <2>2 DEF Set, Alone, Answer, Idle
    <2>4. QED
        BY <1>1, <2>1, <2>3 DEF Reading, ReadLabels, Proper
<1>7. CASE \E u \in Players : WriteRecord(p, u)
    <2>1. PICK u \in Players : WriteRecord(p, u)
        BY <1>7
    <2>2. UNCHANGED <<registryVars, cacheVars, playerVars>> /\ At(p, "write")
        BY <2>1, WriteRecordCases
    <2>3. PICK ok \in BOOLEAN : Set(p, AfterWrite(p, u, ok))
        BY <2>1, WriteRecordCases
    <2>4. Alone(p) /\ proc'[p].pc \in {"write", "history"} /\ proc'[p].op = "end"
        BY <1>1, <2>2, <2>3, AfterWriteType DEF Set, Alone
    <2>5. QED
        BY <1>1, <2>2, <2>4 DEF At, Reading, ReadLabels, Proper
<1>8. QED
    BY <1>2, <1>3, <1>4, <1>5, <1>6, <1>7 DEF AsideStep

LEMMA RegistryLeaves ==
    ASSUME Shape, NEW p \in Slots, RegistryStep(p)
    PROVE  /\ UNCHANGED <<matchVars, cacheVars, playerVars>> /\ ~Reading(p)
           /\ proc[p].op # "end"
           /\ Alone(p) /\ proc'[p].pc \notin ReadLabels /\ proc'[p].op \notin {"end", "list"}
<1>1. proc[p] \in Process /\ Proper(proc[p]) /\ proc \in [Slots -> Process]
    BY DEF Shape, Typed
<1>2. /\ UNCHANGED <<matchVars, cacheVars, playerVars>>
      /\ proc[p].pc \in {"idle", "upsert", "cache", "create"}
    BY DEF RegistryStep, RegisterBegin, Upsert, PutCache, CreateBoard, Begin, At
<1>3. /\ Alone(p) /\ proc'[p].pc \in {"idle", "upsert", "cache", "create"}
      /\ proc'[p].op \in {"none", "register"}
    <2>1. CASE Set(p, Idle)
        BY <1>1, <2>1 DEF Set, Alone, Idle
    <2>2. CASE At(p, "upsert") /\ Set(p, [proc[p] EXCEPT !.pc = "cache"])
        BY <1>1, <2>2 DEF Set, Alone, Proper, Process, At
    <2>3. CASE At(p, "cache") /\ Set(p, [proc[p] EXCEPT !.pc = "create"])
        BY <1>1, <2>3 DEF Set, Alone, Proper, Process, At
    <2>4. ASSUME NEW c \in Configs,
                 Set(p, [Idle EXCEPT !.op = "register", !.config = c, !.pc = "upsert"])
          PROVE  /\ Alone(p) /\ proc'[p].pc \in {"idle", "upsert", "cache", "create"}
                 /\ proc'[p].op \in {"none", "register"}
        BY <1>1, <2>4 DEF Set, Alone, Idle
    <2>5. QED
        BY <2>1, <2>2, <2>3, <2>4 DEF RegistryStep, RegisterBegin, Upsert, PutCache, CreateBoard, Begin
<1>4. QED
    BY <1>1, <1>2, <1>3 DEF Reading, ReadLabels, Proper

-----------------------------------------------------------------------------
(* The registry.  While nothing is astray, one registration at most is      *)
(* under way, and the copy differs from the row only between its two writes.*)

Registering(p) == proc[p].op = "register"

Registry ==
    /\ registered # None /\ registered.board # None => board # None
    /\ ~astray =>
         /\ \A p, q \in Slots : Registering(p) /\ Registering(q) => p = q
         /\ \A p \in Slots : proc[p].pc = "cache" => stored = proc[p].config
         /\ (\A p \in Slots : proc[p].pc # "cache") => cached = stored

(* Requests that are not registrations leave the registry as it is. *)
LEMMA RegistryFrame ==
    ASSUME Shape, Shape', Registry, UNCHANGED registryVars,
           \A q \in Slots : /\ proc'[q].op = "register" => Registering(q) /\ proc'[q].config = proc[q].config
                            /\ proc[q].pc = "cache" <=> proc'[q].pc = "cache"
    PROVE  Registry'
<1>1. \A q \in Slots : proc'[q].pc = "cache" => proc'[q].op = "register"
    BY DEF Shape, Proper
<1>2. QED
    BY <1>1 DEF Registry, registryVars, Registering

LEMMA RegistryKept ==
    ASSUME Shape, Shape', Registry, NEW p \in Slots, RegistryStep(p)
    PROVE  Registry'
<1>1. proc \in [Slots -> Process] /\ \A q \in Slots : Proper(proc[q])
    BY DEF Shape, Typed
<1>2. CASE \E c \in Configs : RegisterBegin(p, c)
    <2>1. PICK c \in Configs : RegisterBegin(p, c)
        BY <1>2
    <2>2. /\ Set(p, [Idle EXCEPT !.op = "register", !.config = c, !.pc = "upsert"]) /\ At(p, "idle")
          /\ astray' = (astray \/ \E q \in Slots : Registering(q))
          /\ UNCHANGED <<stored, cached, board, registered>>
        BY <2>1 DEF RegisterBegin, Begin, Registering
    <2>3. \A q \in Slots : q # p => proc'[q] = proc[q]
        BY <1>1, <2>2 DEF Set
    <2>4. proc'[p].op = "register" /\ proc'[p].pc = "upsert" /\ proc[p].pc = "idle"
        BY <1>1, <2>2 DEF Set, Idle, At
    <2>5. QED
        BY <2>2, <2>3, <2>4 DEF Registry, Registering
<1>3. CASE Upsert(p)
    <2>1. proc[p].pc = "upsert" /\ Registering(p) /\ UNCHANGED <<cached, board, registered>>
        BY <1>1, <1>3 DEF Upsert, At, Proper, Registering
    <2>2. CASE stored' = proc[p].config /\ Set(p, [proc[p] EXCEPT !.pc = "cache"]) /\ UNCHANGED astray
        <3>1. \A q \in Slots : q # p => proc'[q] = proc[q]
            BY <1>1, <2>2 DEF Set
        <3>2. /\ proc'[p].op = "register" /\ proc'[p].pc = "cache"
              /\ proc'[p].config = proc[p].config
            BY <1>1, <2>1, <2>2 DEF Set, Registering, Process
        <3>3. \A q \in Slots : proc[q].pc = "cache" => Registering(q)
            BY <1>1 DEF Proper, Registering
        <3>4. QED
            BY <2>1, <2>2, <3>1, <3>2, <3>3 DEF Registry, Registering
    <2>3. CASE astray' = TRUE
        BY <2>1, <2>3 DEF Registry
    <2>4. CASE Set(p, Idle) /\ UNCHANGED <<stored, astray>>
        <3>1. \A q \in Slots : q # p => proc'[q] = proc[q]
            BY <1>1, <2>4 DEF Set
        <3>2. proc'[p].op = "none" /\ proc'[p].pc = "idle"
            BY <1>1, <2>4 DEF Set, Idle
        <3>3. QED
            BY <2>1, <2>4, <3>1, <3>2 DEF Registry, Registering
    <2>5. QED
        BY <1>3, <2>2, <2>3, <2>4 DEF Upsert
<1>4. CASE PutCache(p)
    <2>1. /\ proc[p].pc = "cache" /\ Registering(p) /\ cached' = proc[p].config
          /\ Set(p, [proc[p] EXCEPT !.pc = "create"])
          /\ UNCHANGED <<stored, board, registered, astray>>
        BY <1>1, <1>4 DEF PutCache, At, Proper, Registering
    <2>2. \A q \in Slots : q # p => proc'[q] = proc[q]
        BY <1>1, <2>1 DEF Set
    <2>3. proc'[p].op = "register" /\ proc'[p].pc = "create"
        BY <1>1, <2>1 DEF Set, Registering, Process
    <2>4. \A q \in Slots : proc[q].pc = "cache" => Registering(q)
        BY <1>1 DEF Proper, Registering
    <2>5. QED
        BY <2>1, <2>2, <2>3, <2>4 DEF Registry, Registering
<1>5. CASE CreateBoard(p)
    <2>1. /\ proc[p].pc = "create" /\ Registering(p) /\ Set(p, Idle)
          /\ UNCHANGED <<stored, cached, astray>>
        BY <1>1, <1>5 DEF CreateBoard, At, Proper, Registering
    <2>2. \A q \in Slots : q # p => proc'[q] = proc[q]
        BY <1>1, <2>1 DEF Set
    <2>3. proc'[p].op = "none" /\ proc'[p].pc = "idle"
        BY <1>1, <2>1 DEF Set, Idle
    <2>4. registered' # None /\ registered'.board # None => board' # None
        BY <1>5 DEF CreateBoard, Created, Registry
    <2>5. QED
        BY <2>1, <2>2, <2>3, <2>4 DEF Registry, Registering
<1>6. QED
    BY <1>2, <1>3, <1>4, <1>5 DEF RegistryStep

(* A step of a read, by what it leaves alone. *)
LEMMA ReadLeaves ==
    ASSUME Shape, NEW p \in Slots, ReadStep(p) \/ StartRead(p)
    PROVE  /\ UNCHANGED <<registryVars, matchVars, playerVars>>
           /\ proc[p].pc \in ReadLabels \cup {"lock"} /\ proc[p].op = "list"
           /\ Alone(p) /\ proc'[p].pc \in ReadLabels \cup {"answer"} /\ proc'[p].op = "list"
<1>1. proc[p] \in Process /\ Proper(proc[p]) /\ proc \in [Slots -> Process]
    BY DEF Shape, Typed
<1>2. /\ UNCHANGED <<registryVars, matchVars, playerVars>>
      /\ proc[p].pc \in ReadLabels \cup {"lock"}
    BY DEF ReadStep, StartRead, ReadFails, ReadSettings, ReadPage, ReadAccounts, ReadPending, At,
           Reading, ReadLabels
<1>3. proc[p].op = "list"
    BY <1>1, <1>2 DEF Proper
<1>4. ASSUME NEW got, Set(p, Answer(got))
      PROVE  Alone(p) /\ proc'[p].pc = "answer" /\ proc'[p].op = "list"
    BY <1>1, <1>4 DEF Set, Alone, Answer, Idle
<1>5. CASE StartRead(p)
    <2>1. Set(p, [proc[p] EXCEPT !.pc = "settings", !.current = TRUE, !.more = TRUE])
        BY <1>5 DEF StartRead
    <2>2. Alone(p) /\ proc'[p].pc = "settings" /\ proc'[p].op = "list"
        BY <1>1, <1>3, <2>1 DEF Set, Alone, Process
    <2>3. QED
        BY <1>2, <1>3, <2>2 DEF ReadLabels
<1>6. CASE ReadFails(p)
    BY <1>2, <1>3, <1>4, <1>6 DEF ReadFails, Answered, Answer
<1>7. CASE ReadSettings(p)
    <2>1. Set(p, [proc[p] EXCEPT !.pc = "page"])
        BY <1>7 DEF ReadSettings
    <2>2. Alone(p) /\ proc'[p].pc = "page" /\ proc'[p].op = "list"
        BY <1>1, <1>3, <2>1 DEF Set, Alone, Process
    <2>3. QED
        BY <1>2, <1>3, <2>2 DEF ReadLabels
<1>8. CASE ReadPage(p)
    <2>1. CASE Store(p, proc[p].listed)
        BY <1>2, <1>3, <1>4, <2>1 DEF Store, Answered, Answer
    <2>2. CASE ~Store(p, proc[p].listed)
        <3>1. Set(p, [proc[p] EXCEPT !.pc = "accounts", !.batch = Batch(p),
                        !.more = Len(Sorted(Rest(p))) > PageSize,
                        !.pages = proc[p].pages + 1, !.cursor = Batch(p)[Len(Batch(p))]])
            BY <1>8, <2>2, ReadPageCases
        <3>2. Alone(p) /\ proc'[p].pc = "accounts" /\ proc'[p].op = "list"
            BY <1>1, <1>3, <3>1 DEF Set, Alone, Process
        <3>3. QED
            BY <1>2, <1>3, <3>2 DEF ReadLabels
    <2>3. QED
        BY <2>1, <2>2
<1>9. CASE ReadAccounts(p)
    <2>1. Set(p, [proc[p] EXCEPT !.pc = "pending", !.batch =
                    Kept(proc[p].batch, {u \in Players \ Unlistable : hidden[u] \in {"no", "queued"}})])
        BY <1>9 DEF ReadAccounts
    <2>2. Alone(p) /\ proc'[p].pc = "pending" /\ proc'[p].op = "list"
        BY <1>1, <1>3, <2>1 DEF Set, Alone, Process
    <2>3. QED
        BY <1>2, <1>3, <2>2 DEF ReadLabels
<1>10. CASE ReadPending(p)
    <2>1. CASE Store(p, proc[p].listed \o Pended(p))
        BY <1>2, <1>3, <1>4, <2>1 DEF Store, Answered, Answer
    <2>2. CASE ~Store(p, proc[p].listed \o Pended(p))
        <3>1. Set(p, [proc[p] EXCEPT !.pc = "page", !.listed = proc[p].listed \o Pended(p),
                                     !.batch = <<>>])
            BY <1>10, <2>2, ReadPendingCases
        <3>2. Alone(p) /\ proc'[p].pc = "page" /\ proc'[p].op = "list"
            BY <1>1, <1>3, <3>1 DEF Set, Alone, Process
        <3>3. QED
            BY <1>2, <1>3, <3>2 DEF ReadLabels
    <2>3. QED
        BY <2>1, <2>2
<1>11. QED
    BY <1>5, <1>6, <1>7, <1>8, <1>9, <1>10 DEF ReadStep

LEMMA InvalidatedRequest ==
    ASSUME Shape, NEW p \in Slots, WriteHistory(p)
    PROVE  /\ proc'[p].op = "none" /\ proc'[p].pc = "idle"
           /\ \A q \in Slots : q # p =>
                /\ proc'[q] = proc[q] \/ proc'[q] = [proc[q] EXCEPT !.current = FALSE]
                /\ proc[p].recorded => ~proc'[q].current
<1>1. proc \in [Slots -> Process]
    BY DEF Shape, Typed
<1>2. proc' = LET r == [proc EXCEPT ![p] = Idle] IN IF proc[p].recorded THEN Invalidated(r) ELSE r
    BY DEF WriteHistory
<1>3. CASE proc[p].recorded
    <2> DEFINE r == [proc EXCEPT ![p] = Idle]
    <2>1. proc' = [q \in Slots |-> [r[q] EXCEPT !.current = FALSE]]
        BY <1>2, <1>3 DEF Invalidated
    <2>2. proc'[p] = [Idle EXCEPT !.current = FALSE]
        BY <1>1, <2>1
    <2>3. \A q \in Slots : q # p => proc'[q] = [proc[q] EXCEPT !.current = FALSE]
        BY <1>1, <2>1
    <2> HIDE DEF r
    <2>4. \A q \in Slots : q # p => ~proc'[q].current
        BY <1>1, <2>3 DEF Process
    <2>5. QED
        BY <2>2, <2>3, <2>4 DEF Idle
<1>4. CASE ~proc[p].recorded
    BY <1>1, <1>2, <1>4 DEF Idle
<1>5. QED
    BY <1>3, <1>4

LEMMA RegistryNext ==
    ASSUME Shape, Shape', Registry, [Next]_vars
    PROVE  Registry'
<1> DEFINE Framed(q) == /\ proc'[q].op = "register" => Registering(q) /\ proc'[q].config = proc[q].config
                        /\ proc[q].pc = "cache" <=> proc'[q].pc = "cache"
<1>1. \A q \in Slots : /\ proc[q].pc = "cache" => proc[q].op = "register"
                       /\ proc[q] \in Process
    BY DEF Shape, Proper, Typed
<1>2. CASE UNCHANGED vars
    BY <1>2 DEF vars, registryVars, Registry, Registering
<1>3. CASE Restart
    <2>1. /\ \A q \in Slots : proc'[q].op = "none" /\ proc'[q].pc = "idle"
          /\ cached' = stored' /\ registered' = registered /\ board' \in {board, Created(stored)}
        BY <1>3 DEF Restart, Idle
    <2>2. board # None => board' # None
        BY <2>1 DEF Created
    <2>3. QED
        BY <2>1, <2>2 DEF Registry, Registering
<1>4. CASE Tick
    <2>1. ASSUME NEW q \in Slots
          PROVE  Framed(q)
        <3>1. proc'[q] = proc[q] \/ proc'[q] = [proc[q] EXCEPT !.since = @ + 1]
            BY <1>4, TickedRequest
        <3>2. /\ proc'[q].op = proc[q].op /\ proc'[q].pc = proc[q].pc
              /\ proc'[q].config = proc[q].config
            BY <1>1, <3>1 DEF Process
        <3>3. QED
            BY <3>2 DEF Registering
    <2>2. UNCHANGED registryVars
        BY <1>4 DEF Tick
    <2>3. QED
        BY <2>1, <2>2, RegistryFrame
<1>5. CASE \E u \in Leaving : PlayerStep(u)
    <2>1. PICK u \in Leaving : PlayerStep(u)
        BY <1>5
    <2>2. u \in Players /\ Moved(u) /\ UNCHANGED registryVars
        BY <2>1, PlayerStepLeaves
    <2>3. ASSUME NEW q \in Slots
          PROVE  Framed(q)
        <3>1. proc'[q] = proc[q] \/ proc'[q] = [proc[q] EXCEPT !.moved = @ \cup {u}]
            BY <2>2, MovedRequest
        <3>2. /\ proc'[q].op = proc[q].op /\ proc'[q].pc = proc[q].pc
              /\ proc'[q].config = proc[q].config
            BY <1>1, <3>1 DEF Process
        <3>3. QED
            BY <3>2 DEF Registering
    <2>4. QED
        BY <2>2, <2>3, RegistryFrame
<1>6. ASSUME NEW p \in Slots, AsideStep(p)
      PROVE  Registry'
    <2>1. \A q \in Slots : Framed(q)
        BY <1>6, AsideLeaves DEF Alone, Registering
    <2>2. UNCHANGED registryVars
        BY <1>6, AsideLeaves
    <2>3. QED
        BY <2>1, <2>2, RegistryFrame
<1>7. ASSUME NEW p \in Slots, ReadStep(p) \/ StartRead(p)
      PROVE  Registry'
    <2>1. \A q \in Slots : Framed(q)
        BY <1>7, ReadLeaves DEF Alone, Registering, ReadLabels
    <2>2. UNCHANGED registryVars
        BY <1>7, ReadLeaves
    <2>3. QED
        BY <2>1, <2>2, RegistryFrame
<1>8. ASSUME NEW p \in Slots, WriteHistory(p)
      PROVE  Registry'
    <2>1. proc[p].pc = "history"
        BY <1>8 DEF WriteHistory, At
    <2>2. ASSUME NEW q \in Slots
          PROVE  Framed(q)
        <3>1. CASE q = p
            BY <1>8, <2>1, <3>1, InvalidatedRequest
        <3>2. CASE q # p
            <4>1. proc'[q] = proc[q] \/ proc'[q] = [proc[q] EXCEPT !.current = FALSE]
                BY <1>8, <3>2, InvalidatedRequest
            <4>2. /\ proc'[q].op = proc[q].op /\ proc'[q].pc = proc[q].pc
                  /\ proc'[q].config = proc[q].config
                BY <1>1, <4>1 DEF Process
            <4>3. QED
                BY <4>2 DEF Registering
        <3>3. QED
            BY <3>1, <3>2
    <2>3. UNCHANGED registryVars
        BY <1>8 DEF WriteHistory
    <2>4. QED
        BY <2>2, <2>3, RegistryFrame
<1>9. ASSUME NEW p \in Slots, RegistryStep(p)
      PROVE  Registry'
    BY <1>9, RegistryKept
<1>10. QED
    BY <1>2, <1>3, <1>4, <1>5, <1>6, <1>7, <1>8, <1>9
       DEF Next, AsideStep, RegistryStep, Take

LEMMA RegistryInit == Init => Registry
BY DEF Init, Registry, Idle, Registering

-----------------------------------------------------------------------------
(* Who is hidden.  What a read has seen of a player it saw since it began,  *)
(* so a player it lists has not been hidden for longer than it runs.        *)

Recent(s, age) == \A x \in El(s) : hidden[x.player] # "no" => hiddenAge[x.player] <= age

Timely ==
    /\ \A u \in Players : hidden[u] = "no" => hiddenAge[u] = 0
    /\ copy # None => Recent(copy, copyAge)
    /\ \A p \in Slots : Reading(p) =>
         /\ Recent(proc[p].listed, proc[p].since)
         /\ proc[p].pc = "pending" =>
              \A x \in El(proc[p].batch) :
                  hidden[x.player] \notin {"no", "queued"} => hiddenAge[x.player] <= proc[p].since

LEMMA TimelyFrame ==
    ASSUME Timely, UNCHANGED <<playerVars, copy, copyAge>>,
           \A q \in Slots : proc'[q].pc \in ReadLabels =>
              /\ proc'[q].pc = proc[q].pc /\ proc'[q].listed = proc[q].listed
              /\ proc'[q].batch = proc[q].batch /\ proc'[q].since = proc[q].since
    PROVE  Timely'
BY DEF Timely, Recent, Reading, playerVars

(* A step of one read that leaves the copy as it is. *)
LEMMA TimelyOfRead ==
    ASSUME Shape, Timely, NEW p \in Slots, Alone(p), UNCHANGED <<playerVars, copy, copyAge>>,
           proc'[p].pc \in ReadLabels =>
              /\ Recent(proc'[p].listed, proc'[p].since)
              /\ proc'[p].pc = "pending" =>
                   \A x \in El(proc'[p].batch) :
                       hidden[x.player] \notin {"no", "queued"} => hiddenAge[x.player] <= proc'[p].since
    PROVE  Timely'
BY DEF Timely, Recent, Reading, playerVars, Alone

LEMMA TimelyStore ==
    ASSUME Shape, Timely, NEW p \in Slots, NEW s \in Seq(Row), Store(p, s),
           UNCHANGED playerVars, Recent(s, proc[p].since)
    PROVE  Timely' /\ Recent(copy, copyAge)'
<1>1. proc \in [Slots -> Process]
    BY DEF Shape, Typed
<1>2. Alone(p) /\ proc'[p].pc = "answer"
    BY <1>1 DEF Store, Answered, Set, Alone, Idle
<1>3. copy' = Ranked(First(s, MaxListed)) /\ copyAge' = proc[p].since
    BY DEF Store
<1>4. ASSUME NEW i \in DOMAIN copy', hidden[copy'[i].player] # "no"
      PROVE  hiddenAge[copy'[i].player] <= copyAge'
    <2>1. i \in DOMAIN s /\ copy'[i].player = s[i].player
        BY <1>3, <1>4, StoredListing
    <2>2. QED
        BY <1>3, <1>4, <2>1 DEF Recent, El
<1>5. QED
    BY <1>2, <1>4 DEF Timely, Recent, Reading, ReadLabels, playerVars, Alone, El

(* A listing with what is kept of its last page. *)
LEMMA PendedIsRecent ==
    ASSUME Shape, Timely, NEW p \in Slots, At(p, "pending")
    PROVE  Recent(proc[p].listed \o Pended(p), proc[p].since)
<1>1. /\ El(Pended(p)) = {r \in El(proc[p].batch) : hidden[r.player] # "queued"}
      /\ El(proc[p].listed \o Pended(p)) = El(proc[p].listed) \cup El(Pended(p))
      /\ proc[p] \in Process /\ Proper(proc[p])
    BY PendedType
<1>2. Recent(proc[p].listed, proc[p].since)
    BY DEF Timely, Reading, ReadLabels, At
<1>3. \A x \in El(proc[p].batch) : hidden[x.player] \notin {"no", "queued"} => hiddenAge[x.player] <= proc[p].since
    BY DEF Timely, Reading, ReadLabels, At
<1>4. \A x \in El(proc[p].batch) : hidden[x.player] \in Reasons
    <2>1. \A x \in El(proc[p].batch) : x.player \in Players
        BY <1>1, RowType DEF Process, Proper, At, RowSet
    <2>2. QED
        BY <2>1 DEF Shape, Typed
<1>5. \A x \in El(Pended(p)) : hidden[x.player] # "no" => hiddenAge[x.player] <= proc[p].since
    BY <1>1, <1>3, <1>4
<1>6. QED
    BY <1>1, <1>2, <1>5 DEF Recent

LEMMA TimelyReadStep ==
    ASSUME Shape, Timely, NEW p \in Slots, ReadStep(p) \/ StartRead(p)
    PROVE  Timely'
<1>1. proc[p] \in Process /\ Proper(proc[p]) /\ proc \in [Slots -> Process]
    BY DEF Shape, Typed
<1>2. Alone(p) /\ UNCHANGED playerVars
    BY ReadLeaves
<1>3. CASE StartRead(p)
    <2>1. /\ proc'[p] = [proc[p] EXCEPT !.pc = "settings", !.current = TRUE, !.more = TRUE]
          /\ UNCHANGED cacheVars /\ proc[p].pc = "lock"
        BY <1>1, <1>3 DEF StartRead, Set, At
    <2>2. proc'[p].pc = "settings" /\ proc'[p].listed = <<>>
        BY <1>1, <2>1 DEF Process, Proper
    <2>3. El(proc'[p].listed) = {}
        BY <2>2 DEF El
    <2>4. QED
        BY <1>2, <2>1, <2>2, <2>3, TimelyOfRead DEF Recent, cacheVars
<1>4. CASE ReadFails(p)
    <2>1. proc'[p].pc = "answer" /\ UNCHANGED <<copy, copyAge>>
        BY <1>1, <1>4 DEF ReadFails, Answered, Set, Idle
    <2>2. QED
        BY <1>2, <2>1, TimelyOfRead DEF ReadLabels
<1>5. CASE ReadSettings(p)
    <2>1. /\ proc'[p] = [proc[p] EXCEPT !.pc = "page"]
          /\ UNCHANGED cacheVars /\ proc[p].pc = "settings"
        BY <1>1, <1>5 DEF ReadSettings, Set, At
    <2>2. proc'[p].pc = "page" /\ proc'[p].listed = <<>>
        BY <1>1, <2>1 DEF Process, Proper
    <2>3. El(proc'[p].listed) = {}
        BY <2>2 DEF El
    <2>4. QED
        BY <1>2, <2>1, <2>2, <2>3, TimelyOfRead DEF Recent, cacheVars
<1>6. CASE ReadPage(p)
    <2>1. At(p, "page") /\ proc[p].listed \in Seq(Row)
        BY <1>1, <1>6, ReadPageCases DEF Process
    <2>2. Recent(proc[p].listed, proc[p].since)
        BY <2>1 DEF Timely, Reading, ReadLabels, At
    <2>3. CASE Store(p, proc[p].listed)
        BY <1>2, <2>1, <2>2, <2>3, TimelyStore
    <2>4. CASE ~Store(p, proc[p].listed)
        <3>1. /\ UNCHANGED cacheVars
              /\ proc'[p] = [proc[p] EXCEPT !.pc = "accounts", !.batch = Batch(p),
                               !.more = Len(Sorted(Rest(p))) > PageSize,
                               !.pages = proc[p].pages + 1, !.cursor = Batch(p)[Len(Batch(p))]]
            BY <1>1, <1>6, <2>4, ReadPageCases DEF Set
        <3>2. /\ proc'[p].pc = "accounts" /\ proc'[p].listed = proc[p].listed
              /\ proc'[p].since = proc[p].since
            BY <1>1, <3>1 DEF Process
        <3>3. QED
            BY <1>2, <2>2, <3>1, <3>2, TimelyOfRead DEF cacheVars
    <2>5. QED
        BY <2>3, <2>4
<1>7. CASE ReadAccounts(p)
    <2> DEFINE shown == {u \in Players \ Unlistable : hidden[u] \in {"no", "queued"}}
    <2>1. /\ UNCHANGED cacheVars /\ proc[p].pc = "accounts"
          /\ proc'[p] = [proc[p] EXCEPT !.pc = "pending", !.batch = Kept(proc[p].batch, shown)]
        BY <1>1, <1>7 DEF ReadAccounts, Set, At
    <2>2. Recent(proc[p].listed, proc[p].since)
        BY <2>1 DEF Timely, Reading, ReadLabels
    <2>3. /\ proc'[p].pc = "pending" /\ proc'[p].listed = proc[p].listed
          /\ proc'[p].since = proc[p].since /\ proc'[p].batch = Kept(proc[p].batch, shown)
        BY <1>1, <2>1 DEF Process
    <2>4. El(proc'[p].batch) = {r \in El(proc[p].batch) : r.player \in shown}
        <3>1. proc[p].batch \in Seq(Row) /\ RowSet(El(proc[p].batch))
            BY <1>1, <2>1 DEF Process, Proper
        <3> HIDE DEF shown
        <3>2. El(Kept(proc[p].batch, shown)) = {r \in El(proc[p].batch) : r.player \in shown}
            BY <3>1, KeptIsSorted
        <3>3. QED
            BY <2>3, <3>2
    <2>5. QED
        BY <1>2, <2>1, <2>2, <2>3, <2>4, TimelyOfRead DEF cacheVars
<1>8. CASE ReadPending(p)
    <2>1. At(p, "pending") /\ proc[p].listed \o Pended(p) \in Seq(Row)
        BY <1>8, ReadPendingCases, PendedType
    <2>2. Recent(proc[p].listed \o Pended(p), proc[p].since)
        BY <2>1, PendedIsRecent
    <2>3. CASE Store(p, proc[p].listed \o Pended(p))
        BY <1>2, <2>1, <2>2, <2>3, TimelyStore
    <2>4. CASE ~Store(p, proc[p].listed \o Pended(p))
        <3>1. /\ UNCHANGED cacheVars
              /\ proc'[p] = [proc[p] EXCEPT !.pc = "page", !.listed = proc[p].listed \o Pended(p),
                                            !.batch = <<>>]
            BY <1>1, <1>8, <2>4, ReadPendingCases DEF Set
        <3>2. /\ proc'[p].pc = "page" /\ proc'[p].listed = proc[p].listed \o Pended(p)
              /\ proc'[p].since = proc[p].since
            BY <1>1, <3>1 DEF Process
        <3>3. QED
            BY <1>2, <2>2, <3>1, <3>2, TimelyOfRead DEF cacheVars
    <2>5. QED
        BY <2>3, <2>4
<1>9. QED
    BY <1>3, <1>4, <1>5, <1>6, <1>7, <1>8 DEF ReadStep

LEMMA ListedPlayers ==
    ASSUME Shape
    PROVE  /\ \A p \in Slots : /\ \A x \in El(proc[p].listed) : x.player \in Players
                               /\ \A x \in El(proc[p].batch) : x.player \in Players
                               /\ proc[p].since \in 0 .. ReadTimeout
           /\ copy # None => \A x \in El(copy) : x.player \in Players
<1>1. ASSUME NEW p \in Slots
      PROVE  /\ \A x \in El(proc[p].listed) : x.player \in Players
             /\ \A x \in El(proc[p].batch) : x.player \in Players
             /\ proc[p].since \in 0 .. ReadTimeout
    <2>1. proc[p].listed \in Seq(Row) /\ proc[p].batch \in Seq(Row) /\ proc[p].since \in 0 .. ReadTimeout
        BY DEF Shape, Typed, Process
    <2>2. ASSUME NEW s \in Seq(Row), NEW x \in El(s)
          PROVE  x.player \in Players
        <3>1. PICK i \in DOMAIN s : x = s[i]
            BY <2>2 DEF El
        <3>2. s[i] \in Row
            BY <3>1
        <3>3. QED
            BY <3>1, <3>2 DEF Row
    <2>3. QED
        BY <2>1, <2>2
<1>2. ASSUME copy # None, NEW x \in El(copy)
      PROVE  x.player \in Players
    <2>1. copy \in Seq(Entry)
        BY <1>2 DEF Shape, Typed
    <2>2. PICK i \in DOMAIN copy : x = copy[i]
        BY <1>2 DEF El
    <2>3. copy[i] \in Entry
        BY <2>1, <2>2
    <2>4. QED
        BY <2>2, <2>3 DEF Entry
<1>3. QED
    BY <1>1, <1>2

LEMMA TimelyPlayerStep ==
    ASSUME Shape, Timely, NEW u \in Leaving, PlayerStep(u)
    PROVE  Timely'
<1>1. u \in Players /\ Moved(u) /\ UNCHANGED <<copy, copyAge>>
    BY PlayerStepLeaves
<1>2. /\ \A v \in Players : v # u => hidden'[v] = hidden[v] /\ hiddenAge'[v] = hiddenAge[v]
      /\ (hidden'[u] = hidden[u] /\ hiddenAge'[u] = hiddenAge[u]) \/ hiddenAge'[u] = 0
    <2>1. CASE UNCHANGED <<hidden, hiddenAge>>
        BY <2>1
    <2>2. CASE \E why \in Reasons : Hides(u, why)
        BY <1>1, <2>2 DEF Hides, Shape, Typed
    <2>3. QED
        BY <2>1, <2>2, PlayerStepLeaves
<1>3. ASSUME NEW q \in Slots
      PROVE  /\ proc'[q].pc = proc[q].pc /\ proc'[q].listed = proc[q].listed
             /\ proc'[q].batch = proc[q].batch /\ proc'[q].since = proc[q].since
    <2>1. proc[q] \in Process
        BY DEF Shape, Typed
    <2>2. proc'[q] = proc[q] \/ proc'[q] = [proc[q] EXCEPT !.moved = @ \cup {u}]
        BY <1>1, MovedRequest
    <2>3. QED
        BY <2>1, <2>2 DEF Process
<1>4. copyAge \in Nat /\ \A q \in Slots : proc[q].since \in Nat
    BY ListedPlayers, ConstantTypes DEF Shape, Typed
<1>5. \A s, age : Recent(s, age) /\ age \in Nat /\ (\A x \in El(s) : x.player \in Players) => Recent(s, age)'
    BY <1>2 DEF Recent, El
<1>6. copy' # None => Recent(copy, copyAge)'
    BY <1>1, <1>2, <1>4, ListedPlayers DEF Timely, Recent
<1>7. ASSUME NEW q \in Slots, Reading(q)'
      PROVE  /\ Recent(proc[q].listed, proc[q].since)'
             /\ (proc[q].pc = "pending")' =>
                  \A x \in El(proc[q].batch)' :
                      (hidden[x.player] \notin {"no", "queued"})' => (hiddenAge[x.player] <= proc[q].since)'
    <2>1. Reading(q)
        BY <1>3, <1>7 DEF Reading
    <2>2. /\ Recent(proc[q].listed, proc[q].since)
          /\ proc[q].pc = "pending" =>
               \A x \in El(proc[q].batch) : hidden[x.player] \notin {"no", "queued"} => hiddenAge[x.player] <= proc[q].since
        BY <2>1 DEF Timely
    <2>3. QED
        BY <1>2, <1>3, <1>4, <2>2, ListedPlayers DEF Recent, El
<1>8. \A v \in Players : (hidden[v] = "no")' => hiddenAge'[v] = 0
    BY <1>2 DEF Timely
<1>9. QED
    BY <1>6, <1>7, <1>8 DEF Timely

LEMMA TimelyTick ==
    ASSUME Shape, Timely, Tick
    PROVE  Timely'
<1>1. UNCHANGED <<hidden, copy>>
    BY DEF Tick
<1>2. /\ hiddenAge \in [Players -> 0 .. MaxAge] /\ copyAge \in 0 .. MaxAge /\ MaxAge \in Nat
      /\ ReadTimeout \in Nat
    BY ConstantTypes DEF Shape, Typed
<1>3. ASSUME NEW v \in Players
      PROVE  /\ hidden[v] = "no" => hiddenAge'[v] = 0
             /\ hidden[v] # "no" => /\ hiddenAge'[v] = Older(hiddenAge[v], MaxAge)
                                    /\ hiddenAge'[v] <= hiddenAge[v] + 1
    BY <1>2, OlderType DEF Tick
<1>4. copy # None => copyAge' = Older(copyAge, MaxAge)
    BY DEF Tick
<1>5. copy' # None => Recent(copy, copyAge)'
    <2>1. ASSUME copy # None, NEW x \in El(copy), hidden[x.player] # "no"
          PROVE  hiddenAge'[x.player] <= copyAge'
        <3>1. x.player \in Players
            BY <2>1, ListedPlayers
        <3>2. hiddenAge[x.player] <= copyAge /\ hiddenAge[x.player] \in 0 .. MaxAge
            BY <2>1, <3>1, <1>2 DEF Timely, Recent
        <3>3. Older(hiddenAge[x.player], MaxAge) <= Older(copyAge, MaxAge)
            BY <3>2, <1>2, OlderType
        <3>4. QED
            BY <3>1, <3>3, <1>3, <1>4, <2>1
    <2>2. QED
        BY <2>1, <1>1 DEF Recent
<1>6. ASSUME NEW q \in Slots, Reading(q)'
      PROVE  /\ Reading(q) /\ proc'[q].pc = proc[q].pc /\ proc'[q].listed = proc[q].listed
             /\ proc'[q].batch = proc[q].batch /\ proc'[q].since = proc[q].since + 1
    <2>1. proc[q] \in Process
        BY DEF Shape, Typed
    <2>2. proc'[q].pc = proc[q].pc
        BY TickedRequest
    <2>3. Reading(q)
        BY <1>6, <2>2 DEF Reading
    <2>4. proc'[q] = [proc[q] EXCEPT !.since = @ + 1]
        BY <2>3, TickedRequest
    <2>5. QED
        BY <2>1, <2>2, <2>3, <2>4 DEF Process
<1>7. ASSUME NEW q \in Slots, Reading(q)'
      PROVE  /\ Recent(proc[q].listed, proc[q].since)'
             /\ (proc[q].pc = "pending")' =>
                  \A x \in El(proc[q].batch)' :
                      (hidden[x.player] \notin {"no", "queued"})' => (hiddenAge[x.player] <= proc[q].since)'
    <2>1. ASSUME NEW x, x.player \in Players, hidden[x.player] # "no",
                 hiddenAge[x.player] <= proc[q].since
          PROVE  hiddenAge'[x.player] <= proc'[q].since
        <3>1. hiddenAge'[x.player] <= hiddenAge[x.player] + 1 /\ proc'[q].since = proc[q].since + 1
            BY <1>3, <1>6, <1>7, <2>1
        <3>2. hiddenAge'[x.player] \in 0 .. MaxAge
            BY <2>1, <1>2, <1>3, OlderType
        <3>3. proc[q].since \in 0 .. ReadTimeout /\ hiddenAge[x.player] \in 0 .. MaxAge
            BY <2>1, <1>2, ListedPlayers
        <3>4. QED
            BY <2>1, <3>1, <3>2, <3>3, <1>2
    <2>2. /\ Recent(proc[q].listed, proc[q].since)
          /\ proc[q].pc = "pending" =>
               \A x \in El(proc[q].batch) : hidden[x.player] \notin {"no", "queued"} => hiddenAge[x.player] <= proc[q].since
        BY <1>6, <1>7 DEF Timely
    <2>3. (\A x \in El(proc[q].listed) : x.player \in Players)
          /\ (\A x \in El(proc[q].batch) : x.player \in Players)
        BY ListedPlayers
    <2>4. Recent(proc[q].listed, proc[q].since)'
        BY <1>1, <1>6, <1>7, <2>1, <2>2, <2>3 DEF Recent
    <2>5. ASSUME proc'[q].pc = "pending", NEW x \in El(proc'[q].batch), hidden'[x.player] \notin {"no", "queued"}
          PROVE  hiddenAge'[x.player] <= proc'[q].since
        <3>1. x \in El(proc[q].batch) /\ proc[q].pc = "pending" /\ hidden[x.player] \notin {"no", "queued"}
            BY <1>1, <1>6, <1>7, <2>5
        <3>2. QED
            BY <2>1, <2>2, <2>3, <3>1
    <2>6. El(proc[q].batch)' = El(proc'[q].batch)
        BY DEF El
    <2>7. QED
        BY <2>4, <2>5, <2>6
<1>8. \A v \in Players : (hidden[v] = "no")' => hiddenAge'[v] = 0
    BY <1>1, <1>3
<1>9. QED
    BY <1>5, <1>7, <1>8 DEF Timely

LEMMA TimelyNext ==
    ASSUME Shape, Shape', Timely, [Next]_vars
    PROVE  Timely'
<1>1. CASE UNCHANGED vars
    BY <1>1 DEF vars, cacheVars, playerVars, Timely, Recent, Reading
<1>2. CASE Restart
    BY <1>2 DEF Restart, Timely, Recent, Reading, ReadLabels, Idle, playerVars
<1>3. CASE \E u \in Leaving : PlayerStep(u)
    BY <1>3, TimelyPlayerStep
<1>4. ASSUME NEW p \in Slots, AsideStep(p)
      PROVE  Timely'
    BY <1>4, AsideLeaves, TimelyFrame DEF Alone, cacheVars
<1>5. ASSUME NEW p \in Slots, RegistryStep(p)
      PROVE  Timely'
    BY <1>5, RegistryLeaves, TimelyFrame DEF Alone, cacheVars
<1>6. ASSUME NEW p \in Slots, WriteHistory(p)
      PROVE  Timely'
    <2>1. UNCHANGED <<playerVars, copy, copyAge>>
        BY <1>6 DEF WriteHistory
    <2>2. ASSUME NEW q \in Slots, proc'[q].pc \in ReadLabels
          PROVE  /\ proc'[q].pc = proc[q].pc /\ proc'[q].listed = proc[q].listed
                 /\ proc'[q].batch = proc[q].batch /\ proc'[q].since = proc[q].since
        <3>1. q # p
            BY <1>6, <2>2, InvalidatedRequest DEF ReadLabels
        <3>2. proc'[q] = proc[q] \/ proc'[q] = [proc[q] EXCEPT !.current = FALSE]
            BY <1>6, <3>1, InvalidatedRequest
        <3>3. proc[q] \in Process
            BY DEF Shape, Typed
        <3>4. QED
            BY <3>2, <3>3 DEF Process
    <2>3. QED
        BY <2>1, <2>2, TimelyFrame
<1>7. ASSUME NEW p \in Slots, ReadStep(p) \/ StartRead(p)
      PROVE  Timely'
    BY <1>7, TimelyReadStep
<1>8. QED
    BY <1>1, <1>2, <1>3, <1>4, <1>5, <1>6, <1>7, TimelyTick
       DEF Next, AsideStep, RegistryStep, Take

LEMMA TimelyInit == Init => Timely
BY DEF Init, Timely, Idle, Reading, ReadLabels

(* What a request is answered with: the copy, young enough. *)
YoungCopy ==
    /\ copy \in Seq(Entry) /\ Recent(copy, copyAge)
    /\ copyAge < MaxAge
    /\ failAge = None => copyAge < TTL

LEMMA AsideAnswers ==
    ASSUME Shape, Shape', Timely', NEW p \in Slots, AsideStep(p), proc'[p].pc = "answer",
           ~At(p, "answer"), proc'[p].got
    PROVE  YoungCopy'
<1>1. proc[p] \in Process /\ proc \in [Slots -> Process] /\ UNCHANGED cacheVars
    BY AsideLeaves DEF Shape, Typed
<1>2. copyAge \in Nat /\ (copy # None => copy \in Seq(Entry)) /\ (copy' # None => Recent(copy, copyAge)')
    BY ConstantTypes DEF Shape, Typed, Timely
<1>3. CASE ServeCopy(p)
    <2>1. copy # None /\ copyAge < TTL
        BY <1>3 DEF ServeCopy, Fresh
    <2>2. QED
        BY <1>1, <1>2, <2>1, ConstantTypes DEF cacheVars, YoungCopy
<1>4. CASE BackOff(p)
    <2>1. Set(p, Answer(FallBack(0))) /\ ~MayRead
        BY <1>4 DEF BackOff, Answered, Answer
    <2>2. FallBack(0)
        BY <1>1, <2>1 DEF Set, Answer, Idle
    <2>3. QED
        BY <1>1, <1>2, <2>1, <2>2, ConstantTypes DEF FallBack, MayRead, cacheVars, YoungCopy
<1>5. ASSUME NEW r, Set(p, r), r.pc # "answer"
      PROVE  FALSE
    BY <1>1, <1>5 DEF Set
<1>6. CASE ListBegin(p) \/ StatsStep(p)
    <2>1. \/ Set(p, [Idle EXCEPT !.op = "list", !.pc = "lock"])
          \/ Set(p, Idle)
          \/ Set(p, [proc[p] EXCEPT !.pc = "record"])
        BY <1>6 DEF ListBegin, Begin, StatsStep, StatsCheck, StatsRecord
    <2>2. CASE Set(p, Idle)
        BY <1>1, <2>2 DEF Set, Idle
    <2>3. CASE Set(p, [proc[p] EXCEPT !.pc = "record"])
        <3>1. proc'[p] = [proc[p] EXCEPT !.pc = "record"]
            BY <1>1, <2>3 DEF Set
        <3>2. proc'[p].pc = "record"
            BY <1>1, <3>1 DEF Process
        <3>3. QED
            BY <3>2
    <2>4. CASE Set(p, [Idle EXCEPT !.op = "list", !.pc = "lock"])
        BY <1>1, <2>4 DEF Set, Idle
    <2>5. QED
        BY <2>1, <2>2, <2>3, <2>4
<1>7. CASE \E u \in Asked : StatsBegin(p, u)
    BY <1>1, <1>7 DEF StatsBegin, Begin, Set, Idle
<1>8. CASE \E m \in Matches : EndBegin(p, m)
    BY <1>1, <1>8 DEF EndBegin, Begin, Set, Idle
<1>9. CASE \E u \in Players : WriteRecord(p, u)
    <2>1. PICK u \in Players : WriteRecord(p, u)
        BY <1>9
    <2>2. \E ok \in BOOLEAN : Set(p, AfterWrite(p, u, ok)) /\ At(p, "write")
        BY <2>1, WriteRecordCases
    <2>3. proc'[p].pc \in {"write", "history"}
        BY <1>1, <2>2, AfterWriteType DEF Set
    <2>4. QED
        BY <2>3
<1>10. CASE Respond(p)
    BY <1>10 DEF Respond
<1>11. QED
    BY <1>3, <1>4, <1>6, <1>7, <1>8, <1>9, <1>10 DEF AsideStep

LEMMA ReadAnswers ==
    ASSUME Shape, Shape', Timely, Timely', NEW p \in Slots, ReadStep(p) \/ StartRead(p),
           proc'[p].pc = "answer", proc'[p].got
    PROVE  YoungCopy'
<1>1. proc[p] \in Process /\ Proper(proc[p]) /\ proc \in [Slots -> Process] /\ UNCHANGED playerVars
    BY ReadLeaves DEF Shape, Typed
<1>2. copyAge \in Nat /\ proc[p].since \in 0 .. ReadTimeout
    BY <1>1, ConstantTypes DEF Shape, Typed, Process
<1>3. CASE ReadFails(p)
    <2>1. /\ Set(p, Answer(FallBack(proc[p].since))) /\ failAge' = proc[p].since
          /\ UNCHANGED <<copy, copyAge>>
        BY <1>3 DEF ReadFails, Answered, Answer
    <2>2. FallBack(proc[p].since)
        BY <1>1, <2>1 DEF Set, Answer, Idle
    <2>3. copy' # None /\ copyAge < StaleTTL + proc[p].since /\ failAge' # None
        BY <1>2, <2>1, <2>2, ConstantTypes DEF FallBack
    <2>4. Recent(copy, copyAge)' /\ copy' \in Seq(Entry)
        BY <2>3 DEF Timely, Shape, Typed
    <2>5. QED
        BY <1>2, <2>1, <2>3, <2>4, ConstantTypes DEF YoungCopy
<1>4. ASSUME NEW s \in Seq(Row), Store(p, s), Recent(s, proc[p].since)
      PROVE  YoungCopy'
    <2>1. copyAge' = proc[p].since /\ copy' = Ranked(First(s, MaxListed))
        BY <1>4 DEF Store
    <2>2. Recent(copy, copyAge)'
        BY <1>1, <1>4, TimelyStore
    <2>3. copy' \in Seq(Entry)
        BY <2>1, StoredListing
    <2>4. QED
        BY <1>2, <2>1, <2>2, <2>3, ConstantTypes DEF YoungCopy
<1>5. CASE ReadPage(p)
    <2>1. proc[p].listed \in Seq(Row) /\ At(p, "page")
        BY <1>1, <1>5, ReadPageCases DEF Process
    <2>2. Recent(proc[p].listed, proc[p].since)
        BY <2>1 DEF Timely, Reading, ReadLabels, At
    <2>3. CASE Store(p, proc[p].listed)
        BY <1>4, <2>1, <2>2, <2>3
    <2>4. CASE ~Store(p, proc[p].listed)
        <3>1. proc'[p] = [proc[p] EXCEPT !.pc = "accounts", !.batch = Batch(p),
                            !.more = Len(Sorted(Rest(p))) > PageSize,
                            !.pages = proc[p].pages + 1, !.cursor = Batch(p)[Len(Batch(p))]]
            BY <1>1, <1>5, <2>4, ReadPageCases DEF Set
        <3>2. proc'[p].pc = "accounts"
            BY <1>1, <3>1 DEF Process
        <3>3. QED
            BY <3>2
    <2>5. QED
        BY <2>3, <2>4
<1>6. CASE ReadPending(p)
    <2>1. At(p, "pending") /\ proc[p].listed \o Pended(p) \in Seq(Row)
        BY <1>6, ReadPendingCases, PendedType
    <2>2. Recent(proc[p].listed \o Pended(p), proc[p].since)
        BY <2>1, PendedIsRecent
    <2>3. CASE Store(p, proc[p].listed \o Pended(p))
        BY <1>4, <2>1, <2>2, <2>3
    <2>4. CASE ~Store(p, proc[p].listed \o Pended(p))
        <3>1. proc'[p] = [proc[p] EXCEPT !.pc = "page", !.listed = proc[p].listed \o Pended(p),
                                         !.batch = <<>>]
            BY <1>1, <1>6, <2>4, ReadPendingCases DEF Set
        <3>2. proc'[p].pc = "page"
            BY <1>1, <3>1 DEF Process
        <3>3. QED
            BY <3>2
    <2>5. QED
        BY <2>3, <2>4
<1>7. CASE StartRead(p) \/ ReadSettings(p) \/ ReadAccounts(p)
    <2>1. CASE StartRead(p)
        BY <1>1, <2>1 DEF StartRead, Set, Process
    <2>2. CASE ReadSettings(p)
        BY <1>1, <2>2 DEF ReadSettings, Set, Process
    <2>3. CASE ReadAccounts(p)
        <3> DEFINE left == Kept(proc[p].batch, {u \in Players \ Unlistable : hidden[u] \in {"no", "queued"}})
        <3>1. proc'[p] = [proc[p] EXCEPT !.pc = "pending", !.batch = left]
            BY <1>1, <2>3 DEF ReadAccounts, Set
        <3> HIDE DEF left
        <3>2. proc'[p].pc = "pending"
            BY <1>1, <3>1 DEF Process
        <3>3. QED
            BY <3>2
    <2>4. QED
        BY <1>7, <2>1, <2>2, <2>3
<1>8. QED
    BY <1>3, <1>5, <1>6, <1>7 DEF ReadStep

(* An answer names nobody who was hidden for too long. *)
LEMMA AnswersInTime ==
    ASSUME Shape, Shape', Timely, Timely', NEW p \in Slots, [Next]_vars,
           At(p, "answer")', ~At(p, "answer"), proc'[p].got
    PROVE  \A i \in DOMAIN copy' :
               hidden'[copy'[i].player] # "no" =>
                   hiddenAge'[copy'[i].player] < IF failAge' = None THEN TTL ELSE MaxAge
<1>1. proc'[p].pc = "answer" /\ proc[p].pc # "answer" /\ proc[p] \in Process
    BY DEF At, Shape, Typed
<1>2. YoungCopy'
    <2>1. CASE UNCHANGED vars
        BY <1>1, <2>1 DEF vars
    <2>2. CASE Restart
        BY <1>1, <2>2 DEF Restart, Idle
    <2>3. CASE Tick
        BY <1>1, <2>3, TickedRequest
    <2>4. CASE \E u \in Leaving : PlayerStep(u)
        BY <1>1, <2>4, MovedRequest, PlayerStepLeaves
    <2>5. ASSUME NEW q \in Slots, WriteHistory(q)
          PROVE  FALSE
        <3>1. q # p
            BY <1>1, <2>5, InvalidatedRequest
        <3>2. proc'[p] = proc[p] \/ proc'[p] = [proc[p] EXCEPT !.current = FALSE]
            BY <2>5, <3>1, InvalidatedRequest
        <3>3. QED
            BY <1>1, <3>2 DEF Process
    <2>6. ASSUME NEW q \in Slots, RegistryStep(q)
          PROVE  FALSE
        <3>1. q = p
            BY <1>1, <2>6, RegistryLeaves DEF Alone
        <3>2. proc'[p].op # "list"
            BY <2>6, <3>1, RegistryLeaves
        <3>3. QED
            BY <1>1, <3>2 DEF Shape, Proper
    <2>7. ASSUME NEW q \in Slots, AsideStep(q)
          PROVE  YoungCopy'
        <3>1. q = p
            BY <1>1, <2>7, AsideLeaves DEF Alone
        <3>2. QED
            BY <1>1, <2>7, <3>1, AsideAnswers DEF Timely
    <2>8. ASSUME NEW q \in Slots, ReadStep(q) \/ StartRead(q)
          PROVE  YoungCopy'
        <3>1. q = p
            BY <1>1, <2>8, ReadLeaves DEF Alone
        <3>2. QED
            BY <1>1, <2>8, <3>1, ReadAnswers
    <2>9. QED
        BY <2>1, <2>2, <2>3, <2>4, <2>5, <2>6, <2>7, <2>8
           DEF Next, AsideStep, RegistryStep, Take
<1>3. ASSUME NEW i \in DOMAIN copy', hidden'[copy'[i].player] # "no"
      PROVE  hiddenAge'[copy'[i].player] <= copyAge' /\ copy'[i].player \in Players
    <2>1. copy'[i] \in Entry
        BY <1>2, <1>3 DEF YoungCopy
    <2>2. QED
        BY <1>2, <1>3, <2>1 DEF YoungCopy, Recent, El, Entry
<1>4. hiddenAge' \in [Players -> 0 .. MaxAge] /\ copyAge' \in 0 .. MaxAge
    BY DEF Shape, Typed
<1>5. ASSUME NEW i \in DOMAIN copy', hidden'[copy'[i].player] # "no"
      PROVE  hiddenAge'[copy'[i].player] < IF failAge' = None THEN TTL ELSE MaxAge
    <2>1. hiddenAge'[copy'[i].player] <= copyAge' /\ hiddenAge'[copy'[i].player] \in 0 .. MaxAge
        BY <1>3, <1>4, <1>5
    <2>2. copyAge' < MaxAge /\ (failAge' = None => copyAge' < TTL)
        BY <1>2 DEF YoungCopy
    <2>3. QED
        BY <1>4, <2>1, <2>2, ConstantTypes
<1>6. QED
    BY <1>5

-----------------------------------------------------------------------------
(* A copy of the present generation is what the board shows.  While no      *)
(* record has landed without an invalidation, what a read of the present    *)
(* generation has taken is in order, one row a player, and on the board     *)
(* still unless a deletion removed it since.  When nobody was hidden, shown *)
(* or erased since it began, it has gone through a first stretch of the     *)
(* board as it is now, whole pages of it as long as there are more, and     *)
(* lists everyone of that stretch who may be listed.                        *)

Stable == ~EndUnderWay /\ ~unsure

(* The rows not after the last one read. *)
Upto(c) == {x \in Rows : c # None /\ ~Before(c, x)}

Eligible(x) == x.player \notin Unlistable /\ hidden[x.player] = "no"

(* A row as it was read: on the board, or erased since. *)
Held(x, gone) == \/ record[x.player] = x.score
                 \/ record[x.player] = None /\ x.player \in gone

(* Not after the last row read. *)
Passed(c, x) == c # None /\ ~Before(c, x)

(* A read that nobody moved during lists all it has to. *)
Thorough(r) ==
    /\ \A x \in El(r.listed) : Eligible(x)
    /\ \A x \in Upto(r.cursor) : Eligible(x) => x \in El(r.listed) \cup El(r.batch)
    /\ r.pc = "pending" =>
         \A x \in El(r.batch) : x.player \notin Unlistable /\ hidden[x.player] \in {"no", "queued"}

Taken(r) == El(r.listed) \cup El(r.batch)

Stretch(r) ==
    /\ RowSet(Taken(r)) /\ \A x \in Taken(r) : Held(x, r.moved) /\ Passed(r.cursor, x)
    /\ InOrder(r.listed) /\ InOrder(r.batch)
    /\ \A a \in El(r.listed), b \in El(r.batch) : Before(a, b)

Whole(r) ==
    /\ Cardinality(Upto(r.cursor)) <= r.pages * PageSize
    /\ r.more => Cardinality(Upto(r.cursor)) = r.pages * PageSize
    /\ ~r.more => Upto(r.cursor) = Rows

ReadExact(r) == Stretch(r) /\ (r.moved = {} => Whole(r) /\ Thorough(r))

(* The rows a listing draws on. *)
Shown == {x \in Rows : Eligible(x) /\ Cardinality(Ahead(Rows, x)) < MaxPages * PageSize}
RowOf(e) == [player |-> e.player, score |-> e.score]

CopyTrue ==
    \A i \in DOMAIN copy :
         /\ Held(copy[i], moved)
         /\ copy[i].rank = 1 + Cardinality({j \in DOMAIN copy :
                                  Better(board.sort, copy[j].score, copy[i].score)})
         /\ \A j \in 1 .. i - 1 : Before(copy[j], copy[i]) /\ copy[j].player # copy[i].player

CopyFull ==
    {RowOf(copy[i]) : i \in DOMAIN copy} = {x \in Shown : Cardinality(Ahead(Shown, x)) < MaxListed}

CopyExact == CopyTrue /\ (moved = {} => CopyFull)

Exact ==
    Stable =>
        /\ copy # None /\ current => CopyExact
        /\ \A p \in Slots : proc[p].pc \in AtBoard /\ proc[p].current => ReadExact(proc[p])

LEMMA HeldIsOnBoard ==
    ASSUME Typed, NEW x \in Row
    PROVE  /\ x \in Rows => record[x.player] = x.score
           /\ Held(x, {}) => x \in Rows
<1>1. x = [player |-> x.player, score |-> x.score] /\ x.player \in Players /\ x.score \in Int
    BY DEF Row
<1>2. record[x.player] = x.score => x \in Rows
    BY <1>1, ConstantTypes DEF Rows
<1>3. ASSUME x \in Rows
      PROVE  record[x.player] = x.score
    BY <1>3 DEF Rows
<1>4. QED
    BY <1>2, <1>3 DEF Held

LEMMA NotBefore ==
    ASSUME NEW a \in Row, NEW c \in Row, ~Before(c, a)
    PROVE  a = c \/ Before(a, c)
<1>1. CASE a.player = c.player
    <2>1. a.score \in Int /\ c.score \in Int /\ a.player \in Nat
        BY RowType
    <2>2. a.score # c.score => Before(a, c) \/ Before(c, a)
        BY <2>1 DEF Before, Better
    <2>3. a.score = c.score => a = c
        BY <1>1 DEF Row
    <2>4. QED
        BY <2>2, <2>3
<1>2. CASE a.player # c.player
    BY <1>2, BeforeIsTotal
<1>3. QED
    BY <1>1, <1>2

(* What is up to a row comes before everything after it. *)
LEMMA UptoIsLower ==
    ASSUME Typed, NEW c \in Row \cup {None}
    PROVE  /\ Upto(c) \subseteq Rows /\ RowSet(Rows) /\ IsFiniteSet(Upto(c))
           /\ Cardinality(Upto(c)) \in Nat
           /\ \A x \in Rows, y \in Upto(c) : Before(x, y) => x \in Upto(c)
           /\ \A x \in Rows \ Upto(c), y \in Upto(c) : Before(y, x)
<1>1. RowSet(Rows) /\ Upto(c) \subseteq Rows
    BY RowsAreRowSet DEF Typed, Upto
<1>2. IsFiniteSet(Upto(c)) /\ Cardinality(Upto(c)) \in Nat
    <2>1. RowSet(Upto(c))
        BY <1>1, SubsetIsRowSet
    <2>2. IsFiniteSet(Upto(c))
        BY <2>1 DEF RowSet
    <2>3. QED
        BY <2>2, FS_CardinalityType
<1>3. \A x \in Rows : x \in Row
    BY <1>1 DEF RowSet
<1>4. ASSUME NEW y \in Upto(c)
      PROVE  c \in Row /\ (y = c \/ Before(y, c)) /\ y \in Row /\ ~Before(c, y)
    <2>1. c \in Row /\ ~Before(c, y) /\ y \in Row
        BY <1>3 DEF Upto
    <2>2. QED
        BY <2>1, NotBefore
<1>5. ASSUME NEW x \in Rows, NEW y \in Upto(c), Before(x, y)
      PROVE  x \in Upto(c)
    <2>1. x \in Row /\ c \in Row /\ y \in Row
        BY <1>3, <1>4
    <2>2. Before(x, c)
        BY <1>4, <1>5, <2>1, BeforeIsTransitive
    <2>3. ~Before(c, x)
        <3>1. Before(c, x) => Before(x, x)
            BY <2>1, <2>2, BeforeIsTransitive
        <3>2. QED
            BY <2>1, <3>1, BeforeIsStrict
    <2>4. c # None
        BY <2>1, ConstantTypes
    <2>5. QED
        BY <2>3, <2>4 DEF Upto
<1>6. ASSUME NEW x \in Rows \ Upto(c), NEW y \in Upto(c)
      PROVE  Before(y, x)
    <2>1. x \in Row /\ c \in Row /\ y \in Row
        BY <1>3, <1>4
    <2>2. c # None
        BY <2>1, ConstantTypes
    <2>3. Before(c, x)
        BY <2>2 DEF Upto
    <2>4. QED
        BY <1>4, <2>1, <2>3, BeforeIsTransitive
<1>7. QED
    BY <1>1, <1>2, <1>5, <1>6

(* A stretch of n rows at most is among the first n; a whole one is them. *)
LEMMA StretchIsFirst ==
    ASSUME Typed, NEW c \in Row \cup {None}, NEW n \in Nat, Cardinality(Upto(c)) <= n
    PROVE  /\ \A x \in Upto(c) : Cardinality(Ahead(Rows, x)) < n
           /\ Cardinality(Upto(c)) = n =>
                \A x \in Rows : Cardinality(Ahead(Rows, x)) < n => x \in Upto(c)
<1>1. /\ Upto(c) \subseteq Rows /\ RowSet(Rows) /\ IsFiniteSet(Upto(c))
      /\ Cardinality(Upto(c)) \in Nat
      /\ \A x \in Rows, y \in Upto(c) : Before(x, y) => x \in Upto(c)
      /\ \A x \in Rows \ Upto(c), y \in Upto(c) : Before(y, x)
    BY UptoIsLower
<1>2. ASSUME NEW x \in Upto(c)
      PROVE  Cardinality(Ahead(Rows, x)) < n
    <2>1. Ahead(Rows, x) = Ahead(Upto(c), x)
        BY <1>1 DEF Ahead
    <2>2. RowSet(Upto(c))
        BY <1>1, SubsetIsRowSet
    <2>3. /\ Cardinality(Ahead(Upto(c), x)) < Cardinality(Upto(c))
          /\ Cardinality(Ahead(Upto(c), x)) \in Nat
        BY <2>2, AheadIsSmaller
    <2>4. QED
        BY <1>1, <2>1, <2>3
<1>3. ASSUME Cardinality(Upto(c)) = n, NEW x \in Rows, x \notin Upto(c)
      PROVE  ~(Cardinality(Ahead(Rows, x)) < n)
    <2>1. Upto(c) \in SUBSET Ahead(Rows, x)
        BY <1>1, <1>3 DEF Ahead
    <2>2. IsFiniteSet(Ahead(Rows, x)) /\ Cardinality(Ahead(Rows, x)) \in Nat
        BY <1>1, AheadIsSmaller
    <2>3. Cardinality(Upto(c)) <= Cardinality(Ahead(Rows, x))
        BY <2>1, <2>2, FS_Subset
    <2>4. QED
        BY <1>3, <2>2, <2>3
<1>4. QED
    BY <1>2, <1>3

(* The next page follows the stretch read so far and prolongs it. *)
LEMMA PageProlongs ==
    ASSUME Typed, NEW p \in Slots, Batch(p) # <<>>
    PROVE  LET c == proc[p].cursor
               last == Batch(p)[Len(Batch(p))]
           IN  /\ last \in Row
               /\ Upto(last) = Upto(c) \cup El(Batch(p))
               /\ \A x \in Upto(c), y \in El(Batch(p)) : Before(x, y)
               /\ Cardinality(Upto(last)) = Cardinality(Upto(c)) + Len(Batch(p))
               /\ Len(Batch(p)) <= PageSize
               /\ Cardinality(Rest(p)) > PageSize => Len(Batch(p)) = PageSize
               /\ ~(Cardinality(Rest(p)) > PageSize) => Upto(last) = Rows
<1> DEFINE c == proc[p].cursor
<1> DEFINE b == Batch(p)
<1> DEFINE last == b[Len(b)]
<1>1. /\ RowSet(Rows) /\ RowSet(Rest(p)) /\ Rest(p) \subseteq Rows
      /\ Cardinality(Rest(p)) \in Nat
      /\ b \in Seq(Row) /\ InOrder(b) /\ RowSet(El(b))
      /\ El(b) = {r \in Rest(p) : Cardinality(Ahead(Rest(p), r)) < PageSize}
      /\ Len(b) = (IF Cardinality(Rest(p)) < PageSize THEN Cardinality(Rest(p)) ELSE PageSize)
    BY BatchOfRows
<1>2. c \in Row \cup {None}
    BY DEF Typed, Process
<1>3. Upto(c) = Rows \ Rest(p)
    BY DEF Upto, Rest
<1>4. b # <<>> /\ PageSize \in Nat
    BY ConstantTypes
<1> HIDE DEF c, b
<1>5. Len(b) \in Nat /\ Len(b) >= 1 /\ DOMAIN b = 1 .. Len(b) /\ Len(b) \in DOMAIN b
    BY <1>1, <1>4
<1>6. last \in El(b) /\ last \in Row /\ last \in Rest(p)
    <2>1. last \in El(b)
        BY <1>5 DEF El
    <2>2. QED
        BY <2>1, <1>1 DEF RowSet
<1>7. \A x \in El(b) : x = last \/ Before(x, last)
    <2>1. ASSUME NEW i \in DOMAIN b
          PROVE  b[i] = last \/ Before(b[i], last)
        <3>1. i = Len(b) \/ i < Len(b)
            BY <1>5
        <3>2. i < Len(b) => Before(b[i], b[Len(b)])
            BY <1>1, <1>5 DEF InOrder
        <3>3. QED
            BY <3>1, <3>2
    <2>2. QED
        BY <2>1 DEF El
<1> HIDE DEF last
<1>8. \A x \in Upto(c), y \in Rest(p) : Before(x, y)
    BY <1>1, <1>2, <1>3, UptoIsLower
<1>9. \A x \in Rows : x \in Row
    BY <1>1 DEF RowSet
<1>10. last # None
    BY <1>6, ConstantTypes
<1>11. ASSUME NEW x \in Upto(last)
       PROVE  x \in Upto(c) \cup El(b)
    <2>1. x \in Rows /\ ~Before(last, x) /\ x \in Row
        BY <1>9 DEF Upto
    <2>2. x = last \/ Before(x, last)
        BY <1>6, <2>1, NotBefore
    <2>3. CASE x \in Rest(p) /\ Before(x, last)
        <3>1. Cardinality(Ahead(Rest(p), x)) < Cardinality(Ahead(Rest(p), last))
            BY <1>1, <1>6, <2>3, AheadGrows
        <3>2. /\ Cardinality(Ahead(Rest(p), last)) < PageSize
              /\ Cardinality(Ahead(Rest(p), last)) \in Nat /\ Cardinality(Ahead(Rest(p), x)) \in Nat
            BY <1>1, <1>6, <2>3, AheadIsSmaller
        <3>3. QED
            BY <1>1, <1>4, <2>3, <3>1, <3>2
    <2>4. QED
        BY <1>3, <1>6, <2>1, <2>2, <2>3
<1>12. ASSUME NEW x \in Upto(c)
       PROVE  x \in Upto(last)
    <2>1. Before(x, last) /\ x \in Rows /\ x \in Row
        BY <1>3, <1>6, <1>8, <1>9
    <2>2. ~Before(last, x)
        <3>1. Before(last, x) => Before(x, x)
            BY <1>6, <2>1, BeforeIsTransitive
        <3>2. QED
            BY <2>1, <3>1, BeforeIsStrict
    <2>3. QED
        BY <1>10, <2>1, <2>2 DEF Upto
<1>13. ASSUME NEW x \in El(b)
       PROVE  x \in Upto(last)
    <2>1. x \in Rows /\ x \in Row
        BY <1>1, <1>9
    <2>2. ~Before(last, x)
        <3>1. x = last => ~Before(last, x)
            BY <1>6, BeforeIsStrict
        <3>2. Before(x, last) /\ Before(last, x) => Before(x, x)
            BY <1>6, <2>1, BeforeIsTransitive
        <3>3. QED
            BY <1>7, <2>1, <3>1, <3>2, BeforeIsStrict
    <2>3. QED
        BY <1>10, <2>1, <2>2 DEF Upto
<1>14. Upto(last) = Upto(c) \cup El(b)
    BY <1>11, <1>12, <1>13
<1>15. Cardinality(Upto(last)) = Cardinality(Upto(c)) + Len(b)
    <2>1. Upto(c) \cap El(b) = {} /\ IsFiniteSet(Upto(c)) /\ IsFiniteSet(El(b))
        BY <1>1, <1>2, <1>3, UptoIsLower DEF RowSet
    <2>2. Cardinality(El(b)) = Len(b)
        BY <1>1, InOrderIsRowSet
    <2>3. Cardinality(Upto(c) \cup El(b)) = Cardinality(Upto(c)) + Cardinality(El(b))
        <3> DEFINE X == Upto(c)
        <3> DEFINE Y == El(b)
        <3>1. IsFiniteSet(X) /\ IsFiniteSet(Y) /\ X \cap Y = {}
            BY <2>1
        <3> HIDE DEF X, Y
        <3>2. Cardinality(X \cup Y) = Cardinality(X) + Cardinality(Y) - Cardinality(X \cap Y)
            BY <3>1, FS_Union
        <3>3. Cardinality(X \cap Y) = 0 /\ Cardinality(X) \in Nat /\ Cardinality(Y) \in Nat
            BY <3>1, FS_EmptySet, FS_CardinalityType
        <3>4. Cardinality(X \cup Y) = Cardinality(X) + Cardinality(Y)
            BY <3>2, <3>3
        <3>5. QED
            BY <3>4 DEF X, Y
    <2>4. QED
        BY <1>14, <2>2, <2>3
<1>16. ASSUME ~(Cardinality(Rest(p)) > PageSize)
       PROVE  Upto(last) = Rows
    <2>1. ASSUME NEW x \in Rest(p)
          PROVE  x \in El(b)
        <3>1. /\ Cardinality(Ahead(Rest(p), x)) < Cardinality(Rest(p))
              /\ Cardinality(Ahead(Rest(p), x)) \in Nat
            BY <1>1, AheadIsSmaller
        <3>2. QED
            BY <1>1, <1>4, <1>16, <3>1
    <2>2. QED
        BY <1>1, <1>3, <1>14, <2>1
<1>17. \A x \in Upto(c), y \in El(b) : Before(x, y)
    BY <1>1, <1>8
<1>18. Len(b) <= PageSize /\ (Cardinality(Rest(p)) > PageSize => Len(b) = PageSize)
    BY <1>1, <1>4
<1>19. QED
    BY <1>6, <1>14, <1>15, <1>16, <1>17, <1>18 DEF c, b, last

(* The next page comes after every row taken so far, erased ones too. *)
LEMMA PageFollows ==
    ASSUME Typed, NEW p \in Slots, Batch(p) # <<>>, NEW x \in Row, Passed(proc[p].cursor, x)
    PROVE  /\ \A y \in El(Batch(p)) : Before(x, y)
           /\ Passed(Batch(p)[Len(Batch(p))], x)
<1> DEFINE c == proc[p].cursor
<1> DEFINE last == Batch(p)[Len(Batch(p))]
<1>1. /\ Rest(p) \subseteq Row /\ Batch(p) \in Seq(Row) /\ El(Batch(p)) \subseteq Rest(p)
    BY BatchOfRows DEF RowSet
<1>2. c \in Row /\ (x = c \/ Before(x, c))
    <2>1. c \in Row \cup {None} /\ c # None /\ ~Before(c, x)
        BY DEF Typed, Process, Passed
    <2>2. QED
        BY <2>1, NotBefore
<1>3. ASSUME NEW y \in El(Batch(p))
      PROVE  Before(x, y)
    <2>1. y \in Row /\ Before(c, y)
        BY <1>1, <1>2, ConstantTypes DEF Rest
    <2>2. QED
        BY <1>2, <2>1, BeforeIsTransitive
<1>4. last \in El(Batch(p)) /\ last \in Row
    <2>1. Len(Batch(p)) \in DOMAIN Batch(p)
        BY <1>1
    <2>2. QED
        BY <1>1, <2>1 DEF El
<1>5. ~Before(last, x)
    <2>1. Before(x, last)
        BY <1>3, <1>4
    <2>2. Before(last, x) => Before(x, x)
        BY <1>4, <2>1, BeforeIsTransitive
    <2>3. QED
        BY <2>2, BeforeIsStrict
<1>6. QED
    BY <1>3, <1>4, <1>5, ConstantTypes DEF Passed

(* What a complete read lists is the first of what may be listed. *)
LEMMA ResultIsFirst ==
    ASSUME Typed, NEW c \in Row \cup {None}, NEW s \in Seq(Row), InOrder(s),
           El(s) = {x \in Upto(c) : Eligible(x)},
           Cardinality(Upto(c)) <= MaxPages * PageSize,
           \/ Upto(c) = Rows
           \/ Cardinality(Upto(c)) = MaxPages * PageSize
           \/ ~(Len(s) < MaxListed)
    PROVE  El(First(s, MaxListed)) = {x \in Shown : Cardinality(Ahead(Shown, x)) < MaxListed}
<1> DEFINE n == MaxPages * PageSize
<1> DEFINE L == El(s)
<1>1. n \in Nat /\ MaxListed \in Nat
    BY ConstantTypes
<1> HIDE DEF n
<1>2. /\ Upto(c) \subseteq Rows /\ RowSet(Rows)
      /\ \A x \in Rows, y \in Upto(c) : Before(x, y) => x \in Upto(c)
      /\ \A x \in Rows \ Upto(c), y \in Upto(c) : Before(y, x)
    BY UptoIsLower
<1>3. /\ \A x \in Upto(c) : Cardinality(Ahead(Rows, x)) < n
      /\ Cardinality(Upto(c)) = n => \A x \in Rows : Cardinality(Ahead(Rows, x)) < n => x \in Upto(c)
    BY <1>1, StretchIsFirst DEF n
<1>4. Shown = {x \in Rows : Eligible(x) /\ Cardinality(Ahead(Rows, x)) < n}
    BY DEF Shown, n
<1>5. L = {x \in Shown : x \in Upto(c)} /\ L \subseteq Shown
    BY <1>2, <1>3, <1>4
<1>6. Shown \subseteq Rows /\ RowSet(Shown) /\ RowSet(L)
    <2>1. Shown \subseteq Rows
        BY <1>4
    <2>2. RowSet(Shown)
        BY <1>2, <2>1, SubsetIsRowSet
    <2> HIDE DEF L
    <2>3. QED
        BY <1>5, <2>1, <2>2, SubsetIsRowSet
<1>7. s = Sorted(L)
    BY <1>6, SortedIsUnique
<1>8. El(First(s, MaxListed)) = {x \in L : Cardinality(Ahead(L, x)) < MaxListed}
    <2> HIDE DEF L
    <2>1. QED
        BY <1>1, <1>6, <1>7, FirstOfSorted
<1>9. \A y \in L : Ahead(L, y) = Ahead(Shown, y)
    <2> HIDE DEF L
    <2>1. QED
        BY <1>2, <1>5, <1>6 DEF Ahead
<1>10. ASSUME NEW x \in Shown, Cardinality(Ahead(Shown, x)) < MaxListed
       PROVE  x \in L
    <2>1. CASE Upto(c) = Rows
        BY <1>5, <1>6, <2>1
    <2>2. CASE Cardinality(Upto(c)) = n
        BY <1>3, <1>4, <1>5, <2>2
    <2>3. CASE ~(Len(s) < MaxListed)
        <3>1. SUFFICES ASSUME x \notin L PROVE FALSE
            OBVIOUS
        <3>2. L \in SUBSET Ahead(Shown, x)
            BY <1>2, <1>5, <1>6, <3>1 DEF Ahead
        <3>3. IsFiniteSet(Ahead(Shown, x)) /\ Cardinality(Ahead(Shown, x)) \in Nat
            BY <1>6, AheadIsSmaller
        <3>4. Cardinality(El(s)) = Len(s)
            BY InOrderIsRowSet
        <3>5. Len(s) \in Nat
            OBVIOUS
        <3> HIDE DEF L
        <3>6. Cardinality(L) <= Cardinality(Ahead(Shown, x))
            BY <3>2, <3>3, FS_Subset
        <3>7. QED
            BY <1>1, <1>10, <2>3, <3>3, <3>4, <3>5, <3>6 DEF L
    <2>4. QED
        BY <2>1, <2>2, <2>3 DEF n
<1>11. QED
    <2> HIDE DEF L
    <2>1. QED
        BY <1>5, <1>8, <1>9, <1>10

(* What the listing depends on besides the requests and the copy. *)
LEMMA SameBoard ==
    ASSUME record' = record, board' = board, hidden' = hidden
    PROVE  /\ Rows' = Rows /\ Shown' = Shown
           /\ \A c : Upto(c)' = Upto(c)
           /\ \A S, r : Ahead(S, r)' = Ahead(S, r)
           /\ \A a, b : Before(a, b)' <=> Before(a, b)
           /\ \A x : Eligible(x)' <=> Eligible(x)
<1>1. \A a, b : Before(a, b)' <=> Before(a, b)
    BY DEF Before
<1>2. Rows' = Rows
    BY DEF Rows
<1>3. \A S, r : Ahead(S, r)' = Ahead(S, r)
    BY <1>1 DEF Ahead
<1>4. \A c : Upto(c)' = Upto(c)
    BY <1>1, <1>2 DEF Upto
<1>5. \A x : Eligible(x)' <=> Eligible(x)
    BY DEF Eligible
<1>6. Shown' = Shown
    BY <1>2, <1>3, <1>5 DEF Shown
<1>7. QED
    BY <1>1, <1>2, <1>3, <1>4, <1>5, <1>6

LEMMA SameStretch ==
    ASSUME board' = board, NEW q, NEW t,
           proc'[q].listed = proc[t].listed, proc'[q].batch = proc[t].batch,
           proc'[q].cursor = proc[t].cursor,
           \A x \in Row : Held(x, proc[t].moved) => Held(x, proc[q].moved)',
           Stretch(proc[t])
    PROVE  Stretch(proc[q])'
<1>1. \A a, b : Before(a, b)' <=> Before(a, b)
    BY DEF Before
<1>2. /\ El(proc[q].listed)' = El(proc[t].listed) /\ El(proc[q].batch)' = El(proc[t].batch)
      /\ Taken(proc[q])' = Taken(proc[t])
    BY DEF El, Taken
<1>3. InOrder(proc[q].listed)' /\ InOrder(proc[q].batch)'
    BY <1>1 DEF InOrder, Stretch
<1>4. RowSet(Taken(proc[q]))'
    BY <1>2 DEF Stretch, RowSet
<1>5. ASSUME NEW x \in Taken(proc[t])
      PROVE  Held(x, proc[q].moved)' /\ Passed(proc[q].cursor, x)'
    <2>1. x \in Row /\ Held(x, proc[t].moved) /\ Passed(proc[t].cursor, x)
        BY <1>5 DEF Stretch, RowSet
    <2>2. QED
        BY <1>1, <2>1 DEF Passed
<1>6. QED
    BY <1>1, <1>2, <1>3, <1>4, <1>5 DEF Stretch

(* The listing as the board shows it depends on the copy and the board.     *)
LEMMA SameCopy ==
    ASSUME board' = board, copy' = copy, CopyTrue,
           \A i \in DOMAIN copy : Held(copy[i], moved) => Held(copy[i], moved)'
    PROVE  CopyTrue'
<1>1. \A i \in DOMAIN copy :
        {j \in DOMAIN copy : Better(board.sort, copy[j].score, copy[i].score)}' =
            {j \in DOMAIN copy : Better(board.sort, copy[j].score, copy[i].score)}
    OBVIOUS
<1>2. QED
    BY <1>1 DEF CopyTrue, Before

LEMMA SameFull ==
    ASSUME record' = record, board' = board, copy' = copy, hidden' = hidden, CopyFull
    PROVE  CopyFull'
BY SameBoard DEF CopyFull, RowOf

(* A step that leaves the records, the players and a board that exists, and *)
(* no read or copy of the present generation but those there were.          *)
LEMMA ExactFrame ==
    ASSUME Shape, Exact, UNCHANGED <<record, hidden, copy, moved>>,
           board # None => board' = board, Stable' => Stable, current' => current,
           \A q \in Slots : proc'[q].pc \in AtBoard /\ proc'[q].current =>
              /\ proc[q].pc = proc'[q].pc /\ proc[q].current
              /\ proc'[q].listed = proc[q].listed /\ proc'[q].batch = proc[q].batch
              /\ proc'[q].cursor = proc[q].cursor /\ proc'[q].pages = proc[q].pages
              /\ proc'[q].more = proc[q].more /\ proc'[q].moved = proc[q].moved
    PROVE  Exact'
<1>1. SUFFICES ASSUME Stable' PROVE (copy # None /\ current => CopyExact)'
                      /\ \A q \in Slots : (proc[q].pc \in AtBoard /\ proc[q].current => ReadExact(proc[q]))'
    BY DEF Exact
<1>2. Stable
    BY <1>1
<1>3. ASSUME copy' # None, current'
      PROVE  CopyExact'
    <2>1. board' = board /\ CopyExact
        BY <1>2, <1>3 DEF Exact, Shape
    <2>2. CopyTrue'
        BY <2>1, SameCopy DEF CopyExact, Held
    <2>3. moved' = {} => CopyFull'
        BY <2>1, SameFull DEF CopyExact
    <2>4. QED
        BY <2>2, <2>3 DEF CopyExact
<1>4. ASSUME NEW q \in Slots, proc'[q].pc \in AtBoard, proc'[q].current
      PROVE  ReadExact(proc[q])'
    <2>1. board' = board /\ ReadExact(proc[q])
        BY <1>2, <1>4 DEF Exact, Shape
    <2>2. Stretch(proc[q])'
        BY <1>4, <2>1, SameStretch DEF ReadExact, Held
    <2>3. ASSUME proc'[q].moved = {}
          PROVE  Whole(proc[q])' /\ Thorough(proc[q])'
        <3>1. Whole(proc[q]) /\ Thorough(proc[q])
            BY <1>4, <2>1, <2>3 DEF ReadExact
        <3>2. /\ El(proc[q].listed)' = El(proc[q].listed) /\ El(proc[q].batch)' = El(proc[q].batch)
            BY <1>4 DEF El
        <3>3. /\ Upto(proc[q].cursor)' = Upto(proc[q].cursor) /\ Rows' = Rows
              /\ \A x : Eligible(x)' <=> Eligible(x)
            BY <1>4, <2>1, SameBoard DEF Upto, Before, Rows
        <3>4. Thorough(proc[q])'
            BY <1>4, <3>1, <3>2, <3>3 DEF Thorough
        <3>5. Whole(proc[q])'
            BY <1>4, <3>1, <3>3 DEF Whole
        <3>6. QED
            BY <3>4, <3>5
    <2>4. QED
        BY <2>2, <2>3 DEF ReadExact
<1>5. AtBoard' = AtBoard
    BY DEF AtBoard
<1>6. QED
    BY <1>3, <1>4, <1>5

(* A step of one read, by what it leaves of that read and of the copy. *)
LEMMA ExactOfRead ==
    ASSUME Shape, Exact, NEW p \in Slots, ReadStep(p) \/ StartRead(p),
           Stable => \/ UNCHANGED <<copy, current, moved>>
                     \/ current' => CopyExact',
           Stable /\ proc'[p].pc \in AtBoard /\ proc'[p].current => ReadExact(proc[p])'
    PROVE  Exact'
<1>1. /\ UNCHANGED <<registryVars, matchVars, playerVars>> /\ Alone(p)
      /\ proc[p].op = "list" /\ proc'[p].op = "list"
    BY ReadLeaves
<1>2. UNCHANGED <<record, board, hidden, unsure>>
    BY <1>1 DEF registryVars, matchVars, playerVars
<1>3. Stable' => Stable
    <2>1. ASSUME NEW q \in Slots, proc[q].op = "end", proc[q].recorded
          PROVE  proc'[q].op = "end" /\ proc'[q].recorded
        BY <1>1, <2>1 DEF Alone
    <2>2. EndUnderWay => EndUnderWay'
        BY <2>1 DEF EndUnderWay
    <2>3. QED
        BY <1>2, <2>2 DEF Stable
<1>4. SUFFICES ASSUME Stable' PROVE (copy # None /\ current => CopyExact)'
                      /\ \A q \in Slots : (proc[q].pc \in AtBoard /\ proc[q].current => ReadExact(proc[q]))'
    BY DEF Exact
<1>5. Stable
    BY <1>3, <1>4
<1>6. ASSUME copy' # None, current'
      PROVE  CopyExact'
    <2>1. CASE UNCHANGED <<copy, current, moved>>
        <3>1. CopyExact
            BY <1>5, <1>6, <2>1 DEF Exact
        <3>2. CopyTrue'
            BY <1>2, <2>1, <3>1, SameCopy DEF CopyExact, Held
        <3>3. moved' = {} => CopyFull'
            BY <1>2, <2>1, <3>1, SameFull DEF CopyExact
        <3>4. QED
            BY <3>2, <3>3 DEF CopyExact
    <2>2. QED
        BY <1>5, <1>6, <2>1
<1>7. ASSUME NEW q \in Slots, q # p, proc'[q].pc \in AtBoard, proc'[q].current
      PROVE  ReadExact(proc[q])'
    <2>1. proc'[q] = proc[q]
        BY <1>1, <1>7 DEF Alone
    <2>2. ReadExact(proc[q])
        BY <1>5, <1>7, <2>1 DEF Exact
    <2>3. Stretch(proc[q])'
        BY <1>2, <2>1, <2>2, SameStretch DEF ReadExact, Held
    <2>4. ASSUME proc'[q].moved = {}
          PROVE  Whole(proc[q])' /\ Thorough(proc[q])'
        <3>1. Whole(proc[q]) /\ Thorough(proc[q])
            BY <2>1, <2>2, <2>4 DEF ReadExact
        <3>2. /\ El(proc[q].listed)' = El(proc[q].listed) /\ El(proc[q].batch)' = El(proc[q].batch)
            BY <2>1 DEF El
        <3>3. /\ Upto(proc[q].cursor)' = Upto(proc[q].cursor) /\ Rows' = Rows
              /\ \A x : Eligible(x)' <=> Eligible(x)
            BY <1>2, <2>1, SameBoard DEF Upto, Before, Rows
        <3>4. Thorough(proc[q])'
            BY <1>2, <2>1, <3>1, <3>2, <3>3 DEF Thorough
        <3>5. Whole(proc[q])'
            BY <2>1, <3>1, <3>3 DEF Whole
        <3>6. QED
            BY <3>4, <3>5
    <2>5. QED
        BY <2>3, <2>4 DEF ReadExact
<1>8. AtBoard' = AtBoard
    BY DEF AtBoard
<1>9. QED
    BY <1>5, <1>6, <1>7, <1>8

(* A write that lands shows as one under way, or as one nobody can be sure  *)
(* of, until an invalidation follows.                                       *)
LEMMA AsideIsStable ==
    ASSUME Shape, NEW p \in Slots, AsideStep(p), Stable'
    PROVE  Stable /\ record' = record
<1>1. /\ proc[p] \in Process /\ Proper(proc[p]) /\ proc \in [Slots -> Process] /\ Alone(p)
    BY AsideLeaves DEF Shape, Typed
<1>2. ASSUME proc[p].op = "end" /\ proc[p].recorded => proc'[p].op = "end" /\ proc'[p].recorded,
             unsure' = unsure
      PROVE  Stable
    <2>1. ASSUME NEW q \in Slots, proc[q].op = "end", proc[q].recorded
          PROVE  proc'[q].op = "end" /\ proc'[q].recorded
        BY <1>1, <1>2, <2>1 DEF Alone
    <2>2. EndUnderWay => EndUnderWay'
        BY <2>1 DEF EndUnderWay
    <2>3. QED
        BY <1>2, <2>2 DEF Stable
<1>3. CASE \E u \in Players : WriteRecord(p, u)
    <2>1. PICK u \in Players : WriteRecord(p, u)
        BY <1>3
    <2>2. At(p, "write")
        BY <2>1, WriteRecordCases
    <2>3. ASSUME NEW ok \in BOOLEAN, Set(p, AfterWrite(p, u, ok))
          PROVE  proc'[p].op = "end" /\ proc'[p].recorded = (proc[p].recorded \/ ok)
        BY <1>1, <2>2, <2>3, AfterWriteType DEF Set
    <2>4. CASE Set(p, AfterWrite(p, u, TRUE))
        BY <2>3, <2>4 DEF Stable, EndUnderWay
    <2>5. CASE unsure' = TRUE
        BY <2>5 DEF Stable
    <2>6. CASE Set(p, AfterWrite(p, u, FALSE)) /\ UNCHANGED <<record, unsure>>
        <3>1. proc'[p].op = "end" /\ proc'[p].recorded = (proc[p].recorded \/ FALSE)
            BY <2>3, <2>6
        <3>2. QED
            BY <1>2, <2>6, <3>1
    <2>7. QED
        BY <2>1, <2>4, <2>5, <2>6, WriteRecordCases
<1>4. CASE ~ \E u \in Players : WriteRecord(p, u)
    <2>1. /\ UNCHANGED <<record, unsure>>
          /\ proc[p].pc \in {"idle", "check", "record", "lock", "answer"}
        BY <1>4 DEF AsideStep, ListBegin, Begin, StatsStep, StatsCheck, StatsRecord, Respond,
                    ServeCopy, BackOff, StatsBegin, EndBegin, At, matchVars
    <2>2. proc[p].op # "end"
        BY <1>1, <2>1 DEF Proper
    <2>3. QED
        BY <1>2, <2>1, <2>2
<1>5. QED
    BY <1>3, <1>4

LEMMA ExactAside ==
    ASSUME Shape, Exact, NEW p \in Slots, AsideStep(p)
    PROVE  Exact'
<1>1. SUFFICES ASSUME Stable' PROVE Exact'
    BY DEF Exact
<1>2. Stable /\ record' = record
    BY <1>1, AsideIsStable
<1>3. /\ UNCHANGED <<board, hidden, copy, moved, current>> /\ Alone(p)
      /\ proc'[p].pc \notin ReadLabels
    BY AsideLeaves DEF registryVars, cacheVars, playerVars
<1>4. ASSUME NEW q \in Slots, proc'[q].pc \in AtBoard
      PROVE  proc'[q] = proc[q]
    BY <1>3, <1>4 DEF Alone, AtBoard, ReadLabels
<1>5. QED
    BY <1>2, <1>3, <1>4, ExactFrame

LEMMA ExactRegistry ==
    ASSUME Shape, Exact, NEW p \in Slots, RegistryStep(p)
    PROVE  Exact'
<1>1. /\ UNCHANGED <<record, unsure, hidden, copy, moved, current>> /\ Alone(p)
      /\ proc'[p].pc \notin ReadLabels /\ proc[p].op # "end"
    BY RegistryLeaves DEF matchVars, cacheVars, playerVars
<1>2. board # None => board' = board
    BY DEF RegistryStep, RegisterBegin, Upsert, PutCache, CreateBoard, Created
<1>3. ASSUME NEW q \in Slots, proc'[q].pc \in AtBoard
      PROVE  proc'[q] = proc[q]
    BY <1>1, <1>3 DEF Alone, AtBoard, ReadLabels
<1>4. EndUnderWay => EndUnderWay'
    BY <1>1 DEF EndUnderWay, Alone
<1>5. Stable' => Stable
    BY <1>1, <1>4 DEF Stable
<1>6. QED
    BY <1>1, <1>2, <1>3, <1>5, ExactFrame

LEMMA ExactHistory ==
    ASSUME Shape, Exact, NEW p \in Slots, WriteHistory(p)
    PROVE  Exact'
<1>1. /\ UNCHANGED <<record, board, hidden, copy, moved>>
      /\ current' = (current /\ ~proc[p].recorded) /\ unsure' = (unsure /\ ~proc[p].recorded)
    BY DEF WriteHistory, registryVars, playerVars
<1>2. /\ proc'[p].op = "none" /\ proc'[p].pc = "idle"
      /\ \A q \in Slots : q # p =>
           /\ proc'[q] = proc[q] \/ proc'[q] = [proc[q] EXCEPT !.current = FALSE]
           /\ proc[p].recorded => ~proc'[q].current
    BY InvalidatedRequest
<1>3. ASSUME NEW q \in Slots, q # p
      PROVE  /\ proc'[q].op = proc[q].op /\ proc'[q].recorded = proc[q].recorded
             /\ proc'[q].current => proc'[q] = proc[q]
    <2>1. proc[q] \in Process
        BY DEF Shape, Typed
    <2>2. proc'[q] = proc[q] \/ proc'[q] = [proc[q] EXCEPT !.current = FALSE]
        BY <1>2, <1>3
    <2>3. CASE proc'[q] = [proc[q] EXCEPT !.current = FALSE]
        BY <2>1, <2>3 DEF Process
    <2>4. QED
        BY <2>2, <2>3
<1>4. CASE proc[p].recorded
    <2>1. ~current'
        BY <1>1, <1>4
    <2>2. ASSUME NEW q \in Slots, proc'[q].pc \in AtBoard
          PROVE  ~proc'[q].current
        BY <1>2, <1>4, <2>2 DEF AtBoard
    <2>3. AtBoard' = AtBoard
        BY DEF AtBoard
    <2>4. QED
        BY <2>1, <2>2, <2>3 DEF Exact
<1>5. CASE ~proc[p].recorded
    <2>1. EndUnderWay => EndUnderWay'
        <3>1. ASSUME NEW q \in Slots, proc[q].op = "end", proc[q].recorded
              PROVE  q # p /\ proc'[q].op = "end" /\ proc'[q].recorded
            BY <1>3, <1>5, <3>1
        <3>2. QED
            BY <3>1 DEF EndUnderWay
    <2>2. Stable' => Stable
        BY <1>1, <1>5, <2>1 DEF Stable
    <2>3. current' => current
        BY <1>1
    <2>4. ASSUME NEW q \in Slots, proc'[q].pc \in AtBoard, proc'[q].current
          PROVE  proc'[q] = proc[q]
        <3>1. q # p
            BY <1>2, <2>4 DEF AtBoard
        <3>2. QED
            BY <1>3, <2>4, <3>1
    <2>5. QED
        BY <1>1, <2>2, <2>3, <2>4, ExactFrame
<1>6. QED
    BY <1>4, <1>5

LEMMA ExactTick ==
    ASSUME Shape, Exact, Tick
    PROVE  Exact'
<1>1. UNCHANGED <<record, unsure, board, hidden, copy, moved, current>>
    BY DEF Tick, registryVars, matchVars
<1>2. ASSUME NEW q \in Slots
      PROVE  /\ proc'[q].pc = proc[q].pc /\ proc'[q].current = proc[q].current
             /\ proc'[q].op = proc[q].op /\ proc'[q].recorded = proc[q].recorded
             /\ proc'[q].listed = proc[q].listed /\ proc'[q].batch = proc[q].batch
             /\ proc'[q].cursor = proc[q].cursor /\ proc'[q].pages = proc[q].pages
             /\ proc'[q].more = proc[q].more /\ proc'[q].moved = proc[q].moved
    <2>1. proc[q] \in Process
        BY DEF Shape, Typed
    <2>2. proc'[q] = proc[q] \/ proc'[q] = [proc[q] EXCEPT !.since = @ + 1]
        BY TickedRequest
    <2>3. CASE proc'[q] = [proc[q] EXCEPT !.since = @ + 1]
        BY <2>1, <2>3 DEF Process
    <2>4. QED
        BY <2>2, <2>3
<1>3. EndUnderWay => EndUnderWay'
    BY <1>2 DEF EndUnderWay
<1>4. Stable' => Stable
    BY <1>1, <1>3 DEF Stable
<1>5. QED
    BY <1>1, <1>2, <1>4, ExactFrame

(* Who is hidden, shown or erased has moved since every read under way began. *)
LEMMA ExactPlayerStep ==
    ASSUME Shape, Exact, NEW u \in Leaving, PlayerStep(u)
    PROVE  Exact'
<1>1. u \in Players /\ Moved(u) /\ UNCHANGED <<board, unsure, copy, current>>
    BY PlayerStepLeaves DEF registryVars
<1>2. moved' = moved \cup {u}
    BY <1>1, MovedRequest
<1>10. \A v \in Players : record'[v] = record[v] \/ (v = u /\ record'[v] = None)
    <2>1. record \in [Players -> Int \cup {None}]
        BY DEF Shape, Typed
    <2>2. record' = record \/ record' = [record EXCEPT ![u] = None]
        BY PlayerStepLeaves DEF Erase
    <2>3. QED
        BY <2>1, <2>2
<1>3. ASSUME NEW q \in Slots
      PROVE  /\ proc'[q].pc = proc[q].pc /\ proc'[q].current = proc[q].current
             /\ proc'[q].op = proc[q].op /\ proc'[q].recorded = proc[q].recorded
             /\ proc'[q].listed = proc[q].listed /\ proc'[q].batch = proc[q].batch
             /\ proc'[q].cursor = proc[q].cursor /\ proc'[q].pages = proc[q].pages
             /\ proc'[q].more = proc[q].more
             /\ Reading(q) => proc'[q].moved = proc[q].moved \cup {u}
    <2>1. proc[q] \in Process
        BY DEF Shape, Typed
    <2>2. CASE Reading(q)
        <3>1. proc'[q] = [proc[q] EXCEPT !.moved = @ \cup {u}]
            BY <1>1, <2>2, MovedRequest
        <3>2. QED
            BY <2>1, <3>1 DEF Process
    <2>3. CASE ~Reading(q)
        BY <1>1, <2>3, MovedRequest
    <2>4. QED
        BY <2>2, <2>3
<1>4. EndUnderWay => EndUnderWay'
    BY <1>3 DEF EndUnderWay
<1>5. Stable' => Stable
    BY <1>1, <1>4 DEF Stable
<1>6. ASSUME Stable', copy' # None, current'
      PROVE  CopyExact'
    <2>1. CopyTrue /\ \A i \in DOMAIN copy : copy[i].player \in Players
        BY <1>1, <1>5, <1>6, ListedPlayers DEF Exact, CopyExact, El
    <2>2. CopyTrue'
        BY <1>1, <1>2, <1>10, <2>1, SameCopy DEF Held
    <2>3. QED
        BY <1>2, <2>2 DEF CopyExact
<1>7. ASSUME Stable', NEW q \in Slots, proc'[q].pc \in AtBoard, proc'[q].current
      PROVE  ReadExact(proc[q])'
    <2>1. Stretch(proc[q])
        BY <1>3, <1>5, <1>7 DEF Exact, ReadExact
    <2>2. proc'[q].moved = proc[q].moved \cup {u}
        BY <1>3, <1>7 DEF Reading, ReadLabels, AtBoard
    <2>3. \A x \in Row : Held(x, proc[q].moved) => Held(x, proc[q].moved)'
        BY <1>10, <2>2, RowType DEF Held
    <2>4. Stretch(proc[q])'
        BY <1>1, <1>3, <2>1, <2>3, SameStretch
    <2>5. QED
        BY <2>2, <2>4 DEF ReadExact
<1>8. AtBoard' = AtBoard
    BY DEF AtBoard
<1>9. QED
    BY <1>6, <1>7, <1>8 DEF Exact

LEMMA ReadExactOf ==
    ASSUME record' = record, board' = board, hidden' = hidden,
           NEW p, NEW r, proc'[p] = r, ReadExact(r)
    PROVE  ReadExact(proc[p])'
<1>1. /\ \A a, b : Before(a, b)' <=> Before(a, b)
      /\ Rows' = Rows /\ \A x : Eligible(x)' <=> Eligible(x)
    BY SameBoard
<1>2. Upto(proc[p].cursor)' = Upto(r.cursor)
    BY <1>1 DEF Upto, Before
<1>3. /\ El(proc[p].listed)' = El(r.listed) /\ El(proc[p].batch)' = El(r.batch)
      /\ Taken(proc[p])' = Taken(r)
    BY DEF El, Taken
<1>4. InOrder(proc[p].listed)' /\ InOrder(proc[p].batch)'
    BY <1>1 DEF InOrder, ReadExact, Stretch
<1>5. RowSet(Taken(proc[p]))' /\ \A x : Held(x, proc[p].moved)' <=> Held(x, r.moved)
    BY <1>3 DEF ReadExact, Stretch, RowSet, Held
<1>6. Stretch(proc[p])'
    BY <1>1, <1>3, <1>4, <1>5 DEF ReadExact, Stretch, Passed
<1>7. r.moved = {} => Thorough(proc[p])'
    BY <1>1, <1>2, <1>3 DEF ReadExact, Thorough
<1>8. r.moved = {} => Whole(proc[p])'
    BY <1>1, <1>2 DEF ReadExact, Whole
<1>9. QED
    BY <1>6, <1>7, <1>8 DEF ReadExact

LEMMA PagesBound ==
    ASSUME NEW a \in Nat, NEW b \in Nat, NEW k \in Nat, a <= b
    PROVE  /\ a * k \in Nat /\ b * k \in Nat /\ a * k <= b * k
           /\ (a + 1) * k = a * k + k /\ 0 * k = 0
<1>1. PICK d \in Nat : b = a + d
    <2>1. b - a \in Nat /\ b = a + (b - a)
        OBVIOUS
    <2>2. QED
        BY <2>1
<1>2. a * k \in Nat /\ d * k \in Nat
    OBVIOUS
<1>3. (a + d) * k = a * k + d * k
    OBVIOUS
<1>4. (a + 1) * k = a * k + k /\ 0 * k = 0
    OBVIOUS
<1>5. QED
    BY <1>1, <1>2, <1>3, <1>4

(* A finished read leaves a copy that is what the board shows. *)
LEMMA StoreIsExact ==
    ASSUME Shape, NEW p \in Slots, NEW s \in Seq(Row), Store(p, s),
           UNCHANGED <<record, board, hidden>>,
           InOrder(s), RowSet(El(s)), \A x \in El(s) : Held(x, proc[p].moved),
           NEW c \in Row \cup {None},
           proc[p].moved = {} =>
              /\ El(s) = {x \in Upto(c) : Eligible(x)}
              /\ Cardinality(Upto(c)) <= MaxPages * PageSize
              /\ \/ Upto(c) = Rows
                 \/ Cardinality(Upto(c)) = MaxPages * PageSize
                 \/ ~(Len(s) < MaxListed)
    PROVE  CopyExact'
<1> DEFINE f == First(s, MaxListed)
<1>1. Typed /\ MaxListed \in Nat
    BY ConstantTypes DEF Shape
<1>2. copy' = Ranked(f) /\ moved' = proc[p].moved
    BY DEF Store
<1>3. /\ f \in Seq(Row) /\ El(f) \subseteq El(s) /\ DOMAIN copy' = DOMAIN f
      /\ \A i \in DOMAIN f : /\ copy'[i].player = f[i].player /\ copy'[i].score = f[i].score
                             /\ copy'[i].rank = Place(f, i)
    BY <1>2, StoredListing
<1>4. InOrder(f)
    BY <1>1, FirstInOrder
<1>5. moved' = {} => El(f) = {x \in Shown : Cardinality(Ahead(Shown, x)) < MaxListed}
    BY <1>1, <1>2, ResultIsFirst
<1> HIDE DEF f
<1>6. DOMAIN f = 1 .. Len(f) /\ \A i \in DOMAIN f : f[i] \in Row
    BY <1>3
<1>7. \A i \in DOMAIN f : RowOf(copy'[i]) = f[i]
    BY <1>3, <1>6 DEF RowOf, Row
<1>8. /\ Rows' = Rows /\ Shown' = Shown
      /\ \A S, r : Ahead(S, r)' = Ahead(S, r)
    BY SameBoard
<1>10. ASSUME NEW i \in DOMAIN copy'
       PROVE  /\ Held(copy[i], moved)'
              /\ copy'[i].rank = 1 + Cardinality({j \in DOMAIN copy' :
                                        Better(board'.sort, copy'[j].score, copy'[i].score)})
              /\ \A j \in 1 .. i - 1 : Before(copy[j], copy[i])' /\ copy'[j].player # copy'[i].player
    <2>1. i \in DOMAIN f
        BY <1>3
    <2>2. Held(copy[i], moved)'
        <3>1. f[i] \in El(s)
            BY <1>3, <2>1 DEF El
        <3>2. QED
            BY <1>2, <1>3, <2>1, <3>1 DEF Held
    <2>3. Place(f, i) = 1 + Cardinality({j \in DOMAIN f : Better(board.sort, f[j].score, f[i].score)})
        BY <1>3, <1>4, <2>1, RankCountsBetter
    <2>4. {j \in DOMAIN copy' : Better(board'.sort, copy'[j].score, copy'[i].score)} =
                {j \in DOMAIN f : Better(board.sort, f[j].score, f[i].score)}
        BY <1>3, <2>1
    <2>5. ASSUME NEW j \in 1 .. i - 1
          PROVE  Before(copy[j], copy[i])' /\ copy'[j].player # copy'[i].player
        <3>1. j \in DOMAIN f /\ j < i
            BY <1>6, <2>1
        <3>2. Before(f[j], f[i])
            BY <1>4, <2>1, <3>1 DEF InOrder
        <3>3. f[j].player # f[i].player
            <4>1. f[j] \in El(s) /\ f[i] \in El(s)
                BY <1>3, <2>1, <3>1 DEF El
            <4>2. f[j] # f[i]
                BY <1>6, <2>1, <3>1, <3>2, BeforeIsStrict
            <4>3. QED
                BY <4>1, <4>2 DEF RowSet
        <3>4. QED
            BY <1>3, <2>1, <3>1, <3>2, <3>3 DEF Before
    <2>6. QED
        BY <1>3, <2>1, <2>2, <2>3, <2>4, <2>5
<1>11. CopyTrue'
    BY <1>10 DEF CopyTrue
<1>12. {RowOf(copy'[i]) : i \in DOMAIN copy'} = El(f)
    BY <1>3, <1>7 DEF El
<1>13. moved' = {} => CopyFull'
    <2>1. moved' = {} => {RowOf(copy'[i]) : i \in DOMAIN copy'} =
                            {x \in Shown' : Cardinality(Ahead(Shown, x)') < MaxListed}
        BY <1>5, <1>8, <1>12
    <2>2. QED
        BY <2>1, <1>8, <1>5, <1>12 DEF CopyFull, RowOf
<1>14. QED
    BY <1>11, <1>13 DEF CopyExact

(* A read that reaches no page, or whose read failed, leaves the copy. *)
LEMMA ExactOffBoard ==
    ASSUME Shape, Exact, NEW p \in Slots, StartRead(p) \/ ReadFails(p)
    PROVE  Exact'
<1>1. proc[p] \in Process /\ proc \in [Slots -> Process]
    BY DEF Shape, Typed
<1>2. UNCHANGED <<copy, current, moved>>
    BY DEF StartRead, ReadFails, cacheVars
<1>3. proc'[p].pc \in {"settings", "answer"}
    <2>1. CASE StartRead(p)
        BY <1>1, <2>1 DEF StartRead, Set, Process
    <2>2. CASE ReadFails(p)
        BY <1>1, <2>2 DEF ReadFails, Answered, Set, Idle
    <2>3. QED
        BY <2>1, <2>2
<1>4. proc'[p].pc \notin AtBoard
    BY <1>3 DEF AtBoard
<1>5. ReadStep(p) \/ StartRead(p)
    BY DEF ReadStep
<1>6. QED
    BY <1>2, <1>4, <1>5, ExactOfRead

LEMMA ExactReadSettings ==
    ASSUME Shape, Exact, NEW p \in Slots, ReadSettings(p)
    PROVE  Exact'
<1> DEFINE r == [proc[p] EXCEPT !.pc = "page"]
<1>1. /\ proc[p] \in Process /\ proc \in [Slots -> Process] /\ proc[p].pc = "settings"
      /\ Proper(proc[p]) /\ ReadStep(p)
    BY DEF Shape, Typed, ReadSettings, At, ReadStep
<1>2. proc'[p] = r /\ UNCHANGED <<copy, current, moved, record, board, hidden>>
    BY <1>1 DEF ReadSettings, Set, cacheVars, registryVars, matchVars, playerVars
<1>3. /\ r.listed = <<>> /\ r.batch = <<>> /\ r.cursor = None /\ r.pages = 0 /\ r.more
      /\ r.pc = "page"
    BY <1>1 DEF Proper, Process
<1> HIDE DEF r
<1>4. Upto(r.cursor) = {} /\ El(r.listed) = {} /\ El(r.batch) = {}
    BY <1>3 DEF Upto, El
<1>5. Cardinality(Upto(r.cursor)) = 0 /\ 0 * PageSize = 0
    BY <1>4, FS_EmptySet, PagesBound, ConstantTypes
<1>6. InOrder(r.listed) /\ InOrder(r.batch)
    BY <1>3 DEF InOrder
<1>10. Taken(r) = {} /\ RowSet(Taken(r))
    BY <1>4, FS_EmptySet DEF Taken, RowSet
<1>7. ReadExact(r)
    BY <1>3, <1>4, <1>5, <1>6, <1>10 DEF ReadExact, Stretch, Whole, Thorough
<1>8. ReadExact(proc[p])'
    BY <1>2, <1>7, ReadExactOf
<1>9. QED
    BY <1>1, <1>2, <1>8, ExactOfRead

LEMMA ExactReadPage ==
    ASSUME Shape, Exact, NEW p \in Slots, ReadPage(p)
    PROVE  Exact'
<1> DEFINE c == proc[p].cursor
<1>1. /\ proc[p] \in Process /\ proc \in [Slots -> Process] /\ proc[p].pc = "page"
      /\ Proper(proc[p]) /\ ReadStep(p) /\ Typed
      /\ UNCHANGED <<record, board, hidden>>
    BY ReadPageCases DEF Shape, Typed, At, ReadStep, registryVars, matchVars, playerVars
<1>2. /\ proc[p].listed \in Seq(Row) /\ c \in Row \cup {None} /\ proc[p].batch = <<>>
      /\ proc[p].pages \in Nat /\ proc[p].pages + 1 <= MaxPages /\ proc[p].more
      /\ PageSize \in Nat /\ MaxPages \in Nat /\ PageSize > 0
    BY <1>1, ConstantTypes DEF Process, Proper
<1>3. El(proc[p].batch) = {}
    BY <1>2 DEF El
<1>4. ASSUME Stable, proc[p].current
      PROVE  /\ InOrder(proc[p].listed) /\ RowSet(El(proc[p].listed))
             /\ \A x \in El(proc[p].listed) : Held(x, proc[p].moved) /\ Passed(c, x)
             /\ proc[p].moved = {} =>
                  /\ Cardinality(Upto(c)) = proc[p].pages * PageSize
                  /\ El(proc[p].listed) = {x \in Upto(c) : Eligible(x)}
    <2>1. ReadExact(proc[p])
        BY <1>1, <1>4 DEF Exact, AtBoard
    <2>2. /\ Stretch(proc[p]) /\ Taken(proc[p]) = El(proc[p].listed)
          /\ (proc[p].moved = {} => Whole(proc[p]) /\ Thorough(proc[p]))
        BY <1>3, <2>1 DEF ReadExact, Taken
    <2>3. /\ InOrder(proc[p].listed) /\ RowSet(El(proc[p].listed))
          /\ \A x \in El(proc[p].listed) : Held(x, proc[p].moved) /\ Passed(c, x)
        BY <2>2 DEF Stretch
    <2>4. ASSUME proc[p].moved = {}
          PROVE  /\ Cardinality(Upto(c)) = proc[p].pages * PageSize
                 /\ El(proc[p].listed) = {x \in Upto(c) : Eligible(x)}
        <3>1. Cardinality(Upto(c)) = proc[p].pages * PageSize
            BY <1>2, <2>2, <2>4 DEF Whole
        <3>2. \A x \in El(proc[p].listed) : x \in Upto(c)
            BY <1>1, <2>3, <2>4, HeldIsOnBoard DEF RowSet, Upto, Passed
        <3>3. QED
            BY <1>3, <2>2, <2>4, <3>1, <3>2 DEF Thorough
    <2>5. QED
        BY <2>3, <2>4
<1>5. CASE Batch(p) = <<>> /\ Store(p, proc[p].listed)
    <2>1. Rest(p) = {}
        <3>1. /\ Cardinality(Rest(p)) \in Nat /\ RowSet(Rest(p))
              /\ Len(Batch(p)) = IF Cardinality(Rest(p)) < PageSize THEN Cardinality(Rest(p)) ELSE PageSize
            BY <1>1, BatchOfRows
        <3>2. Len(Batch(p)) = 0
            BY <1>5
        <3>3. Cardinality(Rest(p)) = 0 /\ IsFiniteSet(Rest(p))
            BY <1>2, <3>1, <3>2 DEF RowSet
        <3>4. QED
            BY <3>3, FS_EmptySet
    <2>2. Upto(c) = Rows
        BY <2>1 DEF Upto, Rest
    <2>3. current' = proc[p].current
        BY <1>5 DEF Store
    <2>4. ASSUME Stable, current'
          PROVE  CopyExact'
        <3>1. proc[p].pages * PageSize <= MaxPages * PageSize
            BY <1>2, PagesBound
        <3>2. /\ InOrder(proc[p].listed) /\ RowSet(El(proc[p].listed))
              /\ \A x \in El(proc[p].listed) : Held(x, proc[p].moved)
              /\ proc[p].moved = {} =>
                   /\ Cardinality(Upto(c)) = proc[p].pages * PageSize
                   /\ El(proc[p].listed) = {x \in Upto(c) : Eligible(x)}
            BY <1>4, <2>3, <2>4
        <3>3. proc[p].moved = {} => Cardinality(Upto(c)) <= MaxPages * PageSize
            BY <3>1, <3>2
        <3>4. Store(p, proc[p].listed) /\ proc[p].listed \in Seq(Row) /\ c \in Row \cup {None}
            BY <1>2, <1>5
        <3> HIDE DEF c
        <3>5. QED
            BY <1>1, <2>2, <3>2, <3>3, <3>4, StoreIsExact
    <2>5. proc'[p].pc = "answer"
        BY <1>1, <1>5 DEF Store, Answered, Set, Idle
    <2>6. proc'[p].pc \notin AtBoard
        BY <2>5 DEF AtBoard
    <2>7. QED
        BY <1>1, <2>4, <2>6, ExactOfRead
<1>6. CASE ~(Batch(p) = <<>> /\ Store(p, proc[p].listed))
    <2> DEFINE last == Batch(p)[Len(Batch(p))]
    <2> DEFINE r == [proc[p] EXCEPT !.pc = "accounts", !.batch = Batch(p),
                       !.more = Len(Sorted(Rest(p))) > PageSize,
                       !.pages = proc[p].pages + 1, !.cursor = last]
    <2>1. Batch(p) # <<>> /\ UNCHANGED <<copy, current, moved>> /\ proc'[p] = r
        BY <1>1, <1>6, ReadPageCases DEF Set, cacheVars
    <2>2. /\ last \in Row /\ Upto(last) = Upto(c) \cup El(Batch(p))
          /\ \A x \in Upto(c), y \in El(Batch(p)) : Before(x, y)
          /\ Cardinality(Upto(last)) = Cardinality(Upto(c)) + Len(Batch(p))
          /\ Len(Batch(p)) <= PageSize
          /\ Cardinality(Rest(p)) > PageSize => Len(Batch(p)) = PageSize
          /\ ~(Cardinality(Rest(p)) > PageSize) => Upto(last) = Rows
        BY <1>1, <2>1, PageProlongs
    <2>3. /\ InOrder(Batch(p)) /\ Len(Sorted(Rest(p))) = Cardinality(Rest(p))
          /\ Batch(p) \in Seq(Row)
        BY <1>1, BatchOfRows
    <2> HIDE DEF last
    <2>4. /\ r.pc = "accounts" /\ r.batch = Batch(p) /\ r.listed = proc[p].listed
          /\ r.more = (Cardinality(Rest(p)) > PageSize) /\ r.pages = proc[p].pages + 1
          /\ r.cursor = last /\ r.moved = proc[p].moved /\ r.current = proc[p].current
        BY <1>1, <2>3 DEF Process
    <2> HIDE DEF r
    <2>5. ASSUME Stable, proc'[p].current
          PROVE  ReadExact(proc[p])'
        <3>1. /\ InOrder(proc[p].listed) /\ RowSet(El(proc[p].listed))
              /\ \A x \in El(proc[p].listed) : Held(x, proc[p].moved) /\ Passed(c, x)
              /\ proc[p].moved = {} =>
                   /\ Cardinality(Upto(c)) = proc[p].pages * PageSize
                   /\ El(proc[p].listed) = {x \in Upto(c) : Eligible(x)}
            BY <1>4, <2>1, <2>4, <2>5
        <3>11. /\ El(Batch(p)) \subseteq Rows /\ RowSet(Rows) /\ RowSet(El(Batch(p)))
               /\ \A y \in El(Batch(p)) : record[y.player] = y.score /\ y.score \in Int
            <4>1. El(Batch(p)) \subseteq Rows /\ RowSet(Rows) /\ RowSet(El(Batch(p)))
                BY <1>1, BatchOfRows
            <4>2. QED
                BY <1>1, <4>1, HeldIsOnBoard, RowType DEF RowSet
        <3>12. \A x \in El(proc[p].listed) :
                  (\A y \in El(Batch(p)) : Before(x, y)) /\ Passed(last, x)
            BY <1>1, <2>1, <3>1, PageFollows DEF RowSet, last
        <3>13. \A y \in El(Batch(p)) : Passed(last, y)
            BY <2>2 DEF Upto, Passed
        <3> HIDE DEF c
        <3>2. (proc[p].pages + 1) * PageSize = proc[p].pages * PageSize + PageSize
            BY <1>2, PagesBound
        <3>3. proc[p].pages * PageSize \in Nat /\ Len(Batch(p)) \in Nat
            BY <1>2, <2>3, PagesBound
        <3>4. proc[p].moved = {} =>
                /\ Cardinality(Upto(last)) <= (proc[p].pages + 1) * PageSize
                /\ Len(Batch(p)) = PageSize => Cardinality(Upto(last)) = (proc[p].pages + 1) * PageSize
            BY <1>2, <2>2, <3>1, <3>2, <3>3
        <3>5. RowSet(Taken(r))
            <4>1. Taken(r) = El(proc[p].listed) \cup El(Batch(p))
                BY <2>4 DEF Taken
            <4>2. IsFiniteSet(El(proc[p].listed) \cup El(Batch(p)))
                BY <3>1, <3>11, FS_Union DEF RowSet
            <4>3. ASSUME NEW x \in El(proc[p].listed), NEW y \in El(Batch(p)), x.player = y.player
                  PROVE  x = y
                <5>1. x.score = y.score
                    BY <3>1, <3>11, <4>3, ConstantTypes DEF Held
                <5>2. QED
                    BY <3>1, <3>11, <4>3, <5>1 DEF RowSet, Row
            <4>4. QED
                BY <3>1, <3>11, <4>1, <4>2, <4>3 DEF RowSet
        <3>6. \A x \in Taken(r) : Held(x, r.moved) /\ Passed(r.cursor, x)
            BY <2>4, <3>1, <3>11, <3>12, <3>13 DEF Taken, Held
        <3>7. Stretch(r)
            BY <2>3, <2>4, <3>1, <3>5, <3>6, <3>12 DEF Stretch
        <3>8. r.moved = {} => Thorough(r)
            BY <2>2, <2>4, <3>1 DEF Thorough
        <3>14. r.moved = {} => Whole(r)
            BY <2>2, <2>4, <3>4 DEF Whole
        <3>9. ReadExact(r)
            BY <3>7, <3>8, <3>14 DEF ReadExact
        <3>10. QED
            BY <1>1, <2>1, <3>9, ReadExactOf
    <2>6. QED
        BY <1>1, <2>1, <2>5, ExactOfRead
<1>7. QED
    BY <1>5, <1>6

LEMMA ExactReadAccounts ==
    ASSUME Shape, Exact, NEW p \in Slots, ReadAccounts(p)
    PROVE  Exact'
<1> DEFINE shown == {u \in Players \ Unlistable : hidden[u] \in {"no", "queued"}}
<1> DEFINE kept == Kept(proc[p].batch, shown)
<1> DEFINE r == [proc[p] EXCEPT !.pc = "pending", !.batch = kept]
<1>1. /\ proc[p] \in Process /\ proc \in [Slots -> Process] /\ proc[p].pc = "accounts"
      /\ Proper(proc[p]) /\ ReadStep(p)
    BY DEF Shape, Typed, ReadAccounts, At, ReadStep
<1>2. proc'[p] = r /\ UNCHANGED <<copy, current, moved, record, board, hidden>>
    BY <1>1 DEF ReadAccounts, Set, cacheVars, registryVars, matchVars, playerVars
<1>3. /\ r.listed = proc[p].listed /\ r.batch = kept /\ r.cursor = proc[p].cursor
      /\ r.pages = proc[p].pages /\ r.more = proc[p].more /\ r.pc = "pending"
      /\ r.moved = proc[p].moved /\ r.current = proc[p].current
    <2> HIDE DEF kept
    <2>1. QED
        BY <1>1 DEF Process
<1>4. /\ El(kept) = {x \in El(proc[p].batch) : x.player \in shown} /\ InOrder(kept)
      /\ El(proc[p].batch) \subseteq Row
    <2>1. proc[p].batch \in Seq(Row) /\ RowSet(El(proc[p].batch))
        BY <1>1 DEF Process, Proper
    <2> HIDE DEF shown
    <2>2. QED
        BY <2>1, KeptIsSorted DEF RowSet
<1> HIDE DEF r, kept
<1>5. ASSUME Stable, proc'[p].current
      PROVE  ReadExact(proc[p])'
    <2>1. ReadExact(proc[p])
        BY <1>1, <1>2, <1>3, <1>5 DEF Exact, AtBoard
    <2>2. Stretch(r)
        <3>1. Taken(r) \subseteq Taken(proc[p])
            BY <1>3, <1>4 DEF Taken
        <3>2. RowSet(Taken(r))
            BY <2>1, <3>1, SubsetIsRowSet DEF ReadExact, Stretch
        <3>3. QED
            BY <1>3, <1>4, <2>1, <3>1, <3>2 DEF ReadExact, Stretch
    <2>6. r.moved = {} => Whole(r)
        BY <1>3, <2>1 DEF ReadExact, Whole
    <2>3. ASSUME r.moved = {}
          PROVE  Thorough(r)
        <3>1. Thorough(proc[p])
            BY <1>3, <2>1, <2>3 DEF ReadExact
        <3>2. ASSUME NEW x \in El(proc[p].batch), Eligible(x)
              PROVE  x \in El(kept)
            BY <1>4, <3>2, RowType DEF Eligible
        <3>3. QED
            BY <1>3, <1>4, <3>1, <3>2 DEF Thorough
    <2>4. ReadExact(r)
        BY <2>2, <2>3, <2>6 DEF ReadExact
    <2>5. QED
        BY <1>2, <2>4, ReadExactOf
<1>6. QED
    BY <1>1, <1>2, <1>5, ExactOfRead

(* The listing with what is left of its last page. *)
LEMMA PendedIsExact ==
    ASSUME Shape, NEW p \in Slots, At(p, "pending"), ReadExact(proc[p])
    PROVE  LET s == proc[p].listed \o Pended(p)
               c == proc[p].cursor
           IN  /\ InOrder(s) /\ RowSet(El(s))
               /\ \A x \in El(s) : Held(x, proc[p].moved) /\ Passed(c, x)
               /\ proc[p].moved = {} => El(s) = {x \in Upto(c) : Eligible(x)}
<1> DEFINE s == proc[p].listed \o Pended(p)
<1> DEFINE c == proc[p].cursor
<1>1. /\ proc[p] \in Process /\ Proper(proc[p]) /\ proc[p].pc = "pending"
      /\ Pended(p) \in Seq(Row) /\ InOrder(Pended(p))
      /\ El(Pended(p)) = {r \in El(proc[p].batch) : hidden[r.player] # "queued"}
      /\ proc[p].listed \in Seq(Row)
      /\ El(s) = El(proc[p].listed) \cup El(Pended(p))
    BY PendedType
<1>2. Stretch(proc[p]) /\ (proc[p].moved = {} => Thorough(proc[p]))
    BY DEF ReadExact
<1>7. El(s) \subseteq Taken(proc[p]) /\ Typed
    BY <1>1 DEF Taken, Shape
<1> HIDE DEF c
<1>3. InOrder(s)
    <2>1. InOrder(proc[p].listed) /\ \A x \in El(proc[p].listed), y \in El(Pended(p)) : Before(x, y)
        BY <1>1, <1>2 DEF Stretch
    <2>2. QED
        BY <1>1, <2>1, ConcatInOrder
<1> HIDE DEF s
<1>4. RowSet(El(s)) /\ \A x \in El(s) : Held(x, proc[p].moved) /\ Passed(c, x)
    <2>1. RowSet(El(s))
        BY <1>2, <1>7, SubsetIsRowSet DEF Stretch
    <2>2. QED
        BY <1>2, <1>7, <2>1 DEF Stretch, c
<1>5. ASSUME proc[p].moved = {}
      PROVE  El(s) = {x \in Upto(c) : Eligible(x)}
    <2>6. El(s) \subseteq Upto(c)
        BY <1>4, <1>5, <1>7, HeldIsOnBoard DEF RowSet, Upto, Passed
    <2>1. Thorough(proc[p])
        BY <1>2, <1>5
    <2>2. ASSUME NEW x \in El(Pended(p))
          PROVE  Eligible(x)
        <3>1. x \in El(proc[p].batch) /\ hidden[x.player] # "queued"
            BY <1>1
        <3>2. x.player \notin Unlistable /\ hidden[x.player] \in {"no", "queued"}
            BY <1>1, <2>1, <3>1 DEF Thorough
        <3>3. x.player \in Players
            BY <3>1, ListedPlayers
        <3>4. hidden[x.player] \in Reasons
            BY <3>3 DEF Shape, Typed
        <3>5. QED
            BY <3>1, <3>2, <3>4 DEF Eligible
    <2>3. \A x \in El(s) : Eligible(x)
        BY <1>1, <2>1, <2>2 DEF Thorough
    <2>4. ASSUME NEW x \in Upto(c), Eligible(x)
          PROVE  x \in El(s)
        <3>1. x \in El(proc[p].listed) \cup El(proc[p].batch)
            BY <2>1, <2>4 DEF Thorough, c
        <3>2. hidden[x.player] # "queued"
            BY <2>4 DEF Eligible
        <3>3. QED
            BY <1>1, <3>1, <3>2
    <2>5. QED
        BY <2>3, <2>4, <2>6
<1>6. QED
    BY <1>3, <1>4, <1>5 DEF s, c

LEMMA ExactReadPending ==
    ASSUME Shape, Exact, NEW p \in Slots, ReadPending(p)
    PROVE  Exact'
<1> DEFINE s == proc[p].listed \o Pended(p)
<1> DEFINE c == proc[p].cursor
<1>1. /\ At(p, "pending") /\ ReadStep(p) /\ UNCHANGED <<record, board, hidden>>
      /\ proc \in [Slots -> Process]
    BY ReadPendingCases DEF ReadStep, Shape, Typed, registryVars, matchVars, playerVars
<1>2. /\ proc[p] \in Process /\ Proper(proc[p]) /\ proc[p].pc = "pending" /\ s \in Seq(Row)
      /\ El(s) = El(proc[p].listed) \cup El(Pended(p))
    BY <1>1, PendedType
<1>3. /\ c \in Row \cup {None} /\ proc[p].pages \in Nat /\ proc[p].pages <= MaxPages
      /\ PageSize \in Nat /\ MaxPages \in Nat
    BY <1>2, ConstantTypes DEF Process
<1>4. ASSUME Stable, proc[p].current
      PROVE  /\ ReadExact(proc[p]) /\ InOrder(s) /\ RowSet(El(s))
             /\ \A x \in El(s) : Held(x, proc[p].moved) /\ Passed(c, x)
             /\ proc[p].moved = {} => El(s) = {x \in Upto(c) : Eligible(x)}
    <2>1. ReadExact(proc[p])
        BY <1>2, <1>4 DEF Exact, AtBoard
    <2>2. QED
        BY <1>1, <2>1, PendedIsExact
<1>5. CASE Store(p, s) /\ (~proc[p].more \/ ~(proc[p].pages < MaxPages) \/ ~(Len(s) < MaxListed))
    <2>1. current' = proc[p].current
        BY <1>5 DEF Store
    <2>2. ASSUME Stable, current'
          PROVE  CopyExact'
        <3>1. /\ ReadExact(proc[p]) /\ InOrder(s) /\ RowSet(El(s))
              /\ \A x \in El(s) : Held(x, proc[p].moved)
              /\ proc[p].moved = {} => El(s) = {x \in Upto(c) : Eligible(x)}
            BY <1>4, <2>1, <2>2
        <3>2. proc[p].moved = {} =>
                /\ Cardinality(Upto(c)) <= proc[p].pages * PageSize
                /\ proc[p].more => Cardinality(Upto(c)) = proc[p].pages * PageSize
                /\ ~proc[p].more => Upto(c) = Rows
            BY <3>1 DEF ReadExact, Whole
        <3>3. /\ proc[p].pages * PageSize <= MaxPages * PageSize
              /\ proc[p].pages * PageSize \in Nat /\ MaxPages * PageSize \in Nat
            BY <1>3, PagesBound
        <3>4. Cardinality(Upto(c)) \in Nat
            BY <1>3, UptoIsLower DEF Shape
        <3>5. proc[p].moved = {} => Cardinality(Upto(c)) <= MaxPages * PageSize
            BY <3>2, <3>3, <3>4
        <3>6. ~(proc[p].pages < MaxPages) => proc[p].pages = MaxPages
            BY <1>3
        <3>7. proc[p].moved = {} =>
                \/ Upto(c) = Rows
                \/ Cardinality(Upto(c)) = MaxPages * PageSize
                \/ ~(Len(s) < MaxListed)
            BY <1>5, <3>2, <3>6
        <3>8. s \in Seq(Row) /\ c \in Row \cup {None} /\ Store(p, s)
            BY <1>2, <1>3, <1>5
        <3> HIDE DEF s, c
        <3>9. QED
            BY <1>1, <3>1, <3>5, <3>7, <3>8, StoreIsExact
    <2>3. proc'[p].pc = "answer"
        BY <1>1, <1>5 DEF Store, Answered, Set, Idle
    <2>4. proc'[p].pc \notin AtBoard
        BY <2>3 DEF AtBoard
    <2>5. QED
        BY <1>1, <2>2, <2>4, ExactOfRead
<1>6. CASE ~(Store(p, s) /\ (~proc[p].more \/ ~(proc[p].pages < MaxPages) \/ ~(Len(s) < MaxListed)))
    <2> DEFINE r == [proc[p] EXCEPT !.pc = "page", !.listed = s, !.batch = <<>>]
    <2>1. proc[p].more /\ UNCHANGED <<copy, current, moved>> /\ proc'[p] = r
        BY <1>1, <1>6, ReadPendingCases DEF Set, cacheVars
    <2> HIDE DEF s
    <2>2. /\ r.listed = s /\ r.batch = <<>> /\ r.cursor = c
          /\ r.pages = proc[p].pages /\ r.more = proc[p].more /\ r.pc = "page"
          /\ r.moved = proc[p].moved /\ r.current = proc[p].current
        BY <1>2 DEF Process
    <2> HIDE DEF r, c
    <2>3. El(r.batch) = {} /\ InOrder(r.batch)
        BY <2>2 DEF El, InOrder
    <2>4. ASSUME Stable, proc'[p].current
          PROVE  ReadExact(proc[p])'
        <3>1. /\ ReadExact(proc[p]) /\ InOrder(s) /\ RowSet(El(s))
              /\ \A x \in El(s) : Held(x, proc[p].moved) /\ Passed(c, x)
              /\ proc[p].moved = {} => El(s) = {x \in Upto(c) : Eligible(x)}
            BY <1>4, <2>1, <2>2, <2>4
        <3>2. r.moved = {} => Whole(r)
            BY <2>2, <3>1 DEF ReadExact, Whole, c
        <3>7. Taken(r) = El(s)
            BY <2>2, <2>3 DEF Taken
        <3>3. Stretch(r)
            BY <2>2, <2>3, <3>1, <3>7 DEF Stretch
        <3>4. r.moved = {} => Thorough(r)
            BY <2>2, <2>3, <3>1 DEF Thorough
        <3>5. ReadExact(r)
            BY <3>2, <3>3, <3>4 DEF ReadExact
        <3>6. QED
            BY <1>1, <2>1, <3>5, ReadExactOf
    <2>5. QED
        BY <1>1, <2>1, <2>4, ExactOfRead
<1>7. QED
    BY <1>5, <1>6

LEMMA ExactInit == Init => Exact
BY DEF Init, Exact, Idle, AtBoard

LEMMA ExactNext ==
    ASSUME Shape, Exact, [Next]_vars
    PROVE  Exact'
<1>1. CASE UNCHANGED vars
    <2>1. /\ UNCHANGED <<record, hidden, copy, moved, board, current, proc, unsure>>
        BY <1>1 DEF vars, matchVars, playerVars, cacheVars, registryVars
    <2>2. Stable' => Stable
        BY <2>1 DEF Stable, EndUnderWay
    <2>3. \A q \in Slots : proc'[q] = proc[q]
        BY <2>1
    <2>4. QED
        BY <2>1, <2>2, <2>3, ExactFrame
<1>2. CASE Restart
    BY <1>2 DEF Restart, Exact, Idle, AtBoard
<1>3. CASE \E u \in Leaving : PlayerStep(u)
    BY <1>3, ExactPlayerStep
<1>4. ASSUME NEW p \in Slots, AsideStep(p)
      PROVE  Exact'
    BY <1>4, ExactAside
<1>5. ASSUME NEW p \in Slots, RegistryStep(p)
      PROVE  Exact'
    BY <1>5, ExactRegistry
<1>6. ASSUME NEW p \in Slots, WriteHistory(p)
      PROVE  Exact'
    BY <1>6, ExactHistory
<1>7. ASSUME NEW p \in Slots, ReadStep(p) \/ StartRead(p)
      PROVE  Exact'
    BY <1>7, ExactOffBoard, ExactReadSettings, ExactReadPage, ExactReadAccounts,
       ExactReadPending DEF ReadStep
<1>8. QED
    BY <1>1, <1>2, <1>3, <1>4, <1>5, <1>6, <1>7, ExactTick
       DEF Next, AsideStep, RegistryStep, Take

(* The listing as Boards defines it is the first rows of Shown. *)
LEMMA ListingOfShown ==
    ASSUME Typed
    PROVE  /\ Listing \in Seq(Row) /\ InOrder(Listing) /\ RowSet(El(Listing))
           /\ El(Listing) = {x \in Shown : Cardinality(Ahead(Shown, x)) < MaxListed}
<1> DEFINE n == MaxPages * PageSize
<1> DEFINE scanned == First(Sorted(Rows), n)
<1> DEFINE S == {u \in Players \ Unlistable : hidden[u] = "no"}
<1>1. n \in Nat /\ MaxListed \in Nat
    BY ConstantTypes
<1>2. RowSet(Rows) /\ Sorted(Rows) \in Seq(Row) /\ InOrder(Sorted(Rows))
    BY RowsAreRowSet, SortedIsSequence DEF Typed
<1> HIDE DEF n
<1>3. scanned \in Seq(Row) /\ El(scanned) = {r \in Rows : Cardinality(Ahead(Rows, r)) < n}
    BY <1>1, <1>2, FirstIsSequence, FirstOfSorted
<1> HIDE DEF scanned
<1>4. RowSet(El(scanned))
    BY <1>2, <1>3, SubsetIsRowSet
<1>5. Shown = {r \in El(scanned) : r.player \in S}
    <2>1. \A r \in Rows : r.player \in Players
        BY <1>2, RowType DEF RowSet
    <2>2. QED
        BY <1>3, <2>1 DEF Shown, Eligible, n
<1> HIDE DEF S
<1>6. Kept(scanned, S) = Sorted(Shown)
    BY <1>3, <1>4, <1>5, KeptIsSorted
<1>7. RowSet(Shown) /\ Sorted(Shown) \in Seq(Row) /\ InOrder(Sorted(Shown))
    BY <1>4, <1>5, SubsetIsRowSet, SortedIsSequence
<1>8. Listing = First(Sorted(Shown), MaxListed)
    BY <1>6 DEF Listing, scanned, S, n
<1>9. /\ First(Sorted(Shown), MaxListed) \in Seq(Row) /\ InOrder(First(Sorted(Shown), MaxListed))
      /\ El(First(Sorted(Shown), MaxListed)) = {x \in Shown : Cardinality(Ahead(Shown, x)) < MaxListed}
    <2>1. First(Sorted(Shown), MaxListed) \in Seq(Row)
        BY <1>1, <1>7, FirstIsSequence
    <2>2. InOrder(First(Sorted(Shown), MaxListed))
        BY <1>1, <1>7, FirstInOrder
    <2>3. El(First(Sorted(Shown), MaxListed)) =
              {x \in Shown : Cardinality(Ahead(Shown, x)) < MaxListed}
        BY <1>1, <1>7, FirstOfSorted
    <2>4. QED
        BY <2>1, <2>2, <2>3
<1>10. RowSet(El(First(Sorted(Shown), MaxListed)))
    BY <1>7, <1>9, SubsetIsRowSet
<1>11. QED
    BY <1>8, <1>9, <1>10

LEMMA ExactIsCurrent ==
    ASSUME Shape, Exact
    PROVE  CurrentIsExact
<1>1. SUFFICES ASSUME copy # None, current, Stable
               PROVE  /\ \A i \in DOMAIN copy :
                           /\ \/ copy[i].score = record[copy[i].player]
                              \/ record[copy[i].player] = None /\ copy[i].player \in moved
                           /\ copy[i].rank = 1 + Cardinality({j \in DOMAIN copy :
                                                 Better(board.sort, copy[j].score, copy[i].score)})
                           /\ \A j \in 1 .. i - 1 : /\ Before(copy[j], copy[i])
                                                    /\ copy[j].player # copy[i].player
                      /\ moved = {} => [i \in DOMAIN copy |-> copy[i].player] =
                                          [i \in DOMAIN Listing |-> Listing[i].player]
    BY DEF CurrentIsExact, Stable
<1>2. CopyTrue /\ (moved = {} => CopyFull) /\ copy \in Seq(Entry) /\ Typed
    BY <1>1 DEF Exact, CopyExact, Shape, Typed
<1>3. \A i \in DOMAIN copy :
          \/ copy[i].score = record[copy[i].player]
          \/ record[copy[i].player] = None /\ copy[i].player \in moved
    BY <1>2 DEF CopyTrue, Held
<1>4. ASSUME moved = {}
      PROVE  [i \in DOMAIN copy |-> copy[i].player] = [i \in DOMAIN Listing |-> Listing[i].player]
    <2> DEFINE g == [i \in DOMAIN copy |-> RowOf(copy[i])]
    <2>1. /\ Len(copy) \in Nat /\ DOMAIN copy = 1 .. Len(copy)
          /\ \A i \in 1 .. Len(copy) : copy[i] \in Entry
        BY <1>2
    <2>2. \A i \in 1 .. Len(copy) : RowOf(copy[i]) \in Row
        BY <2>1 DEF RowOf, Entry, Row
    <2>3. g \in Seq(Row) /\ DOMAIN g = DOMAIN copy
        <3>1. [i \in 1 .. Len(copy) |-> RowOf(copy[i])] \in Seq(Row)
            BY <2>1, <2>2
        <3>2. QED
            BY <2>1, <3>1
    <2>4. \A i \in DOMAIN copy : /\ g[i].player = copy[i].player /\ g[i].score = copy[i].score
        BY DEF RowOf
    <2>5. El(g) = {RowOf(copy[i]) : i \in DOMAIN copy}
        BY DEF El
    <2> HIDE DEF g
    <2>6. InOrder(g)
        <3>1. ASSUME NEW i \in DOMAIN copy, NEW j \in DOMAIN copy, i < j
              PROVE  Before(g[i], g[j])
            <4>1. i \in 1 .. j - 1
                BY <2>1, <3>1
            <4>2. Before(copy[i], copy[j])
                BY <1>2, <4>1 DEF CopyTrue
            <4>3. QED
                BY <2>4, <4>2 DEF Before
        <3>2. QED
            BY <2>3, <3>1 DEF InOrder
    <2>7. /\ Listing \in Seq(Row) /\ InOrder(Listing) /\ RowSet(El(Listing))
          /\ El(Listing) = {x \in Shown : Cardinality(Ahead(Shown, x)) < MaxListed}
        BY <1>2, ListingOfShown
    <2>8. El(g) = El(Listing)
        BY <1>2, <1>4, <2>5, <2>7 DEF CopyFull
    <2>9. g = Sorted(El(g)) /\ Listing = Sorted(El(Listing))
        BY <2>3, <2>6, <2>7, <2>8, SortedIsUnique
    <2>10. g = Listing
        BY <2>8, <2>9
    <2>11. QED
        BY <2>3, <2>4, <2>10
<1>5. QED
    BY <1>2, <1>3, <1>4 DEF CopyTrue

-----------------------------------------------------------------------------
(* A total over a finite set: the recursive function it is read from        *)
(* exists, the order in which it takes the members does not matter, and one *)
(* more member adds its own value.                                          *)

Some(T) == CHOOSE m \in T : TRUE
IsSum(f, S, g) ==
    g = [T \in SUBSET S |-> IF T = {} THEN 0 ELSE f[Some(T)] + g[T \ {Some(T)}]]
SumOf(f, S) == CHOOSE g : IsSum(f, S, g)

LEMMA TotalIsSum ==
    ASSUME NEW f, NEW S
    PROVE  Total(f, S) = SumOf(f, S)[S]
BY DEF Total, SumOf, IsSum, Some

LEMMA LeastSet ==
    ASSUME NEW S, IsFiniteSet(S), NEW B, B \subseteq SUBSET S, B # {}
    PROVE  \E X \in B : \A Y \in SUBSET X : Y # X => Y \notin B
<1> DEFINE R == StrictSubsetOrdering(S)
<1>1. IsWellFoundedOn(R, SUBSET S)
    BY FS_StrictSubsetOrderingWellFounded, FS_FiniteSubsetsOfFinite
<1>2. PICK X \in B : \A Y \in B : ~ (<<Y, X>> \in R)
    <2> HIDE DEF R
    <2>1. QED
        BY <1>1, WFMin
<1>3. ASSUME NEW Y \in SUBSET X, Y # X, Y \in B
      PROVE  FALSE
    <2>1. <<Y, X>> \in R
        BY <1>3 DEF StrictSubsetOrdering
    <2>2. QED
        BY <1>2, <1>3, <2>1
<1>4. QED
    BY <1>3

LEMMA SumAt ==
    ASSUME NEW f, NEW S, NEW g, IsSum(f, S, g), NEW T \in SUBSET S
    PROVE  /\ T = {} => g[T] = 0
           /\ T # {} => /\ Some(T) \in T /\ T \ {Some(T)} \in SUBSET S
                        /\ g[T] = f[Some(T)] + g[T \ {Some(T)}]
<1>1. T # {} => Some(T) \in T
    BY DEF Some
<1>2. g[T] = IF T = {} THEN 0 ELSE f[Some(T)] + g[T \ {Some(T)}]
    BY Zenon DEF IsSum
<1>3. QED
    BY <1>1, <1>2

LEMMA SumsAgree ==
    ASSUME NEW f, NEW S, NEW g, IsSum(f, S, g), NEW R, NEW h, IsSum(f, R, h),
           IsFiniteSet(S), NEW T \in SUBSET S, T \subseteq R
    PROVE  g[T] = h[T]
<1> DEFINE B == {X \in SUBSET T : g[X] # h[X]}
<1>1. ASSUME B # {}
      PROVE  FALSE
    <2>1. IsFiniteSet(T)
        BY FS_Subset
    <2>2. PICK X \in B : \A Y \in SUBSET X : Y # X => Y \notin B
        <3> HIDE DEF B
        <3>1. B \subseteq SUBSET T
            BY DEF B
        <3>2. QED
            BY <1>1, <2>1, <3>1, LeastSet
    <2>3. X \in SUBSET S /\ X \in SUBSET R /\ g[X] # h[X] /\ X \subseteq T
        OBVIOUS
    <2>4. X # {}
        BY <2>3, SumAt
    <2>5. /\ Some(X) \in X /\ g[X] = f[Some(X)] + g[X \ {Some(X)}]
          /\ h[X] = f[Some(X)] + h[X \ {Some(X)}]
        BY <2>3, <2>4, SumAt
    <2>6. X \ {Some(X)} \notin B /\ X \ {Some(X)} \in SUBSET T
        BY <2>2, <2>3, <2>5
    <2>7. QED
        BY <2>3, <2>5, <2>6
<1>2. QED
    BY <1>1

LEMMA SumExists ==
    ASSUME NEW f, NEW S, IsFiniteSet(S)
    PROVE  IsSum(f, S, SumOf(f, S))
<1> DEFINE B == {X \in SUBSET S : ~\E g : IsSum(f, X, g)}
<1>1. ASSUME B # {}
      PROVE  FALSE
    <2>1. PICK X \in B : \A Y \in SUBSET X : Y # X => Y \notin B
        <3> HIDE DEF B
        <3>1. B \subseteq SUBSET S
            BY DEF B
        <3>2. QED
            BY <1>1, <3>1, LeastSet
    <2>2. X \in SUBSET S /\ ~\E g : IsSum(f, X, g)
        OBVIOUS
    <2>3. ASSUME NEW Y \in SUBSET X, Y # X
          PROVE  IsSum(f, Y, SumOf(f, Y)) /\ IsFiniteSet(Y)
        <3>1. Y \in SUBSET S /\ Y \notin B
            BY <2>1, <2>2, <2>3
        <3>2. \E g : IsSum(f, Y, g)
            BY <3>1
        <3>3. QED
            BY <3>1, <3>2, FS_Subset DEF SumOf
    <2> DEFINE Own(Y) == SumOf(f, Y)[Y]
               h == [T \in SUBSET X |-> IF T = {} THEN 0 ELSE f[Some(T)] + Own(T \ {Some(T)})]
    <2>4. ASSUME NEW Y \in SUBSET X, Y # X
          PROVE  h[Y] = Own(Y)
        <3>1. IsSum(f, Y, SumOf(f, Y)) /\ IsFiniteSet(Y) /\ Y \in SUBSET Y
            BY <2>3, <2>4
        <3>2. CASE Y = {}
            BY <3>1, <3>2, SumAt
        <3>3. CASE Y # {}
            <4> DEFINE Z == Y \ {Some(Y)}
            <4>1. Some(Y) \in Y /\ Own(Y) = f[Some(Y)] + SumOf(f, Y)[Z]
                BY <3>1, <3>3, SumAt
            <4>2. Z \in SUBSET X /\ Z # X /\ Z \in SUBSET Y /\ Z \subseteq Z
                BY <4>1
            <4>3. IsSum(f, Z, SumOf(f, Z))
                BY <2>3, <4>2
            <4>4. SumOf(f, Y)[Z] = SumOf(f, Z)[Z]
                <5> HIDE DEF Z
                <5>1. QED
                    BY <3>1, <4>2, <4>3, SumsAgree
            <4>5. h[Y] = f[Some(Y)] + Own(Z)
                BY <3>3
            <4>6. QED
                BY <4>1, <4>4, <4>5
        <3>4. QED
            BY <3>2, <3>3
    <2>5. ASSUME NEW T \in SUBSET X, T # {}
          PROVE  Own(T \ {Some(T)}) = h[T \ {Some(T)}]
        <3>1. Some(T) \in T
            BY <2>5 DEF Some
        <3>2. T \ {Some(T)} \in SUBSET X /\ T \ {Some(T)} # X
            BY <3>1
        <3>3. QED
            BY <2>4, <3>2
    <2>6. \A T \in SUBSET X : h[T] = IF T = {} THEN 0 ELSE f[Some(T)] + h[T \ {Some(T)}]
        BY <2>5
    <2>7. IsSum(f, X, h)
        <3>1. h = [T \in SUBSET X |-> h[T]]
            OBVIOUS
        <3> HIDE DEF h
        <3>2. QED
            BY <2>6, <3>1, Zenon DEF IsSum
    <2>8. QED
        BY <2>2, <2>7
<1>2. S \notin B
    BY <1>1
<1>3. QED
    BY <1>2 DEF SumOf

LEMMA TotalTakes ==
    ASSUME NEW f, NEW S, IsFiniteSet(S)
    PROVE  /\ S = {} => Total(f, S) = 0
           /\ S # {} => /\ Some(S) \in S /\ IsFiniteSet(S \ {Some(S)})
                        /\ Total(f, S) = f[Some(S)] + Total(f, S \ {Some(S)})
<1> DEFINE R == S \ {Some(S)}
<1>1. IsSum(f, S, SumOf(f, S)) /\ S \in SUBSET S /\ R \in SUBSET S /\ R \in SUBSET R
    BY SumExists
<1>2. IsFiniteSet(R)
    BY <1>1, FS_Subset
<1>3. IsSum(f, R, SumOf(f, R))
    BY <1>2, SumExists
<1>4. SumOf(f, S)[R] = SumOf(f, R)[R]
    <2> HIDE DEF R
    <2>1. QED
        BY <1>1, <1>3, SumsAgree
<1>5. /\ S = {} => SumOf(f, S)[S] = 0
      /\ S # {} => Some(S) \in S /\ SumOf(f, S)[S] = f[Some(S)] + SumOf(f, S)[R]
    BY <1>1, SumAt
<1>6. QED
    BY <1>2, <1>4, <1>5, TotalIsSum

LEMMA TotalIsNat ==
    ASSUME NEW f, NEW S, IsFiniteSet(S), \A x \in S : f[x] \in Nat
    PROVE  Total(f, S) \in Nat
<1> DEFINE B == {X \in SUBSET S : Total(f, X) \notin Nat}
<1>1. ASSUME B # {}
      PROVE  FALSE
    <2>1. PICK X \in B : \A Y \in SUBSET X : Y # X => Y \notin B
        <3> HIDE DEF B
        <3>1. B \subseteq SUBSET S
            BY DEF B
        <3>2. QED
            BY <1>1, <3>1, LeastSet
    <2>2. X \in SUBSET S /\ IsFiniteSet(X) /\ Total(f, X) \notin Nat
        BY FS_Subset
    <2> DEFINE R == X \ {Some(X)}
    <2>3. Some(X) \in X /\ Total(f, X) = f[Some(X)] + Total(f, R)
        BY <2>2, TotalTakes
    <2>4. Total(f, R) \in Nat
        BY <2>1, <2>2, <2>3
    <2>5. f[Some(X)] \in Nat
        BY <2>2, <2>3
    <2> HIDE DEF R
    <2>6. QED
        BY <2>2, <2>3, <2>4, <2>5
<1>2. S \notin B
    BY <1>1
<1>3. QED
    BY <1>2

LEMMA TotalWithout ==
    ASSUME NEW f, NEW S, IsFiniteSet(S), \A x \in S : f[x] \in Nat, NEW z \in S
    PROVE  Total(f, S) = f[z] + Total(f, S \ {z})
<1> DEFINE Parts(X) == \A x \in X : Total(f, X) = f[x] + Total(f, X \ {x})
           B == {X \in SUBSET S : ~Parts(X)}
<1>1. ASSUME B # {}
      PROVE  FALSE
    <2>1. PICK X \in B : \A Y \in SUBSET X : Y # X => Y \notin B
        <3> HIDE DEF B
        <3>1. B \subseteq SUBSET S
            BY DEF B
        <3>2. QED
            BY <1>1, <3>1, LeastSet
    <2>2. X \in SUBSET S /\ IsFiniteSet(X)
        BY FS_Subset
    <2>3. PICK x \in X : Total(f, X) # f[x] + Total(f, X \ {x})
        OBVIOUS
    <2> DEFINE y == Some(X)
    <2>4. y \in X /\ Total(f, X) = f[y] + Total(f, X \ {y})
        BY <2>2, <2>3, TotalTakes
    <2> HIDE DEF y
    <2>5. x # y
        BY <2>3, <2>4
    <2>6. Parts(X \ {x}) /\ Parts(X \ {y})
        <3>1. /\ X \ {x} \in SUBSET X /\ X \ {x} # X /\ X \ {x} \in SUBSET S
              /\ X \ {y} \in SUBSET X /\ X \ {y} # X /\ X \ {y} \in SUBSET S
            BY <2>2, <2>4
        <3>2. X \ {x} \notin B /\ X \ {y} \notin B
            BY <2>1, <3>1
        <3> HIDE DEF Parts
        <3>3. QED
            BY <3>1, <3>2
    <2>7. /\ Total(f, X \ {y}) = f[x] + Total(f, (X \ {y}) \ {x})
          /\ Total(f, X \ {x}) = f[y] + Total(f, (X \ {x}) \ {y})
        BY <2>4, <2>5, <2>6
    <2> DEFINE Z == (X \ {y}) \ {x}
    <2>8. Z = (X \ {x}) \ {y} /\ Z \in SUBSET S /\ IsFiniteSet(Z)
        BY <2>2, FS_Subset
    <2>9. Total(f, Z) \in Nat /\ f[x] \in Nat /\ f[y] \in Nat
        BY <2>2, <2>4, <2>8, TotalIsNat
    <2>10. /\ Total(f, X \ {y}) = f[x] + Total(f, Z)
           /\ Total(f, X \ {x}) = f[y] + Total(f, Z)
        BY <2>7, <2>8
    <2> HIDE DEF Z
    <2>11. f[y] + (f[x] + Total(f, Z)) = f[x] + (f[y] + Total(f, Z))
        BY <2>9
    <2>12. QED
        BY <2>3, <2>4, <2>10, <2>11
<1>2. S \notin B
    BY <1>1
<1>3. QED
    BY <1>2

LEMMA TotalGrows ==
    ASSUME NEW f, NEW S, IsFiniteSet(S), \A x \in S : f[x] \in Nat, NEW T \in SUBSET S
    PROVE  Total(f, T) <= Total(f, S)
<1> DEFINE B == {X \in SUBSET S : T \subseteq X /\ ~(Total(f, T) <= Total(f, X))}
<1>1. ASSUME B # {}
      PROVE  FALSE
    <2>1. PICK X \in B : \A Y \in SUBSET X : Y # X => Y \notin B
        <3> HIDE DEF B
        <3>1. B \subseteq SUBSET S
            BY DEF B
        <3>2. QED
            BY <1>1, <3>1, LeastSet
    <2>2. X \in SUBSET S /\ IsFiniteSet(X) /\ IsFiniteSet(T) /\ T \subseteq X
        BY FS_Subset
    <2>3. Total(f, T) \in Nat /\ Total(f, X) \in Nat
        BY <2>2, TotalIsNat
    <2>4. T # X
        BY <2>3
    <2>5. PICK x \in X : x \notin T
        BY <2>2, <2>4
    <2> DEFINE Z == X \ {x}
    <2>6. Z \in SUBSET X /\ Z # X /\ Z \in SUBSET S /\ T \subseteq Z /\ IsFiniteSet(Z)
        BY <2>2, <2>5, FS_Subset
    <2>7. Total(f, T) <= Total(f, Z)
        <3>1. Z \notin B
            BY <2>1, <2>6
        <3> HIDE DEF Z
        <3>2. QED
            BY <2>6, <3>1
    <2>8. Total(f, X) = f[x] + Total(f, Z)
        BY <2>2, TotalWithout
    <2>9. f[x] \in Nat /\ Total(f, Z) \in Nat
        BY <2>2, <2>6, TotalIsNat
    <2> HIDE DEF Z
    <2>10. QED
        BY <2>3, <2>7, <2>8, <2>9
<1>2. S \notin B
    BY <1>1
<1>3. QED
    BY <1>2

-----------------------------------------------------------------------------
(* The scores of finished matches.  A match counts for a player once its    *)
(* match_end has ended, or a call that has not failed yet wrote the record. *)

Played(u) == {m \in Matches : u \in DOMAIN Results[m]}
Scores(u) == [m \in Played(u) |-> Results[m][u]]
FirstScore(u) == IF FirstRecords[u] = None THEN 0 ELSE FirstRecords[u]
Now(u) == IF record[u] = None THEN 0 ELSE record[u]

Ending(p, m) == proc[p].op = "end" /\ proc[p].match = m
Counted(u) ==
    {m \in Played(u) : \/ m \in ended
                       \/ \E p \in Slots : Ending(p, m) /\ ~proc[p].failed /\ u \notin proc[p].left}
Calm(u) ==
    \A m \in Played(u) :
        \/ attempts[m] = 0
        \/ attempts[m] = 1 /\ (m \in ended \/ \E p \in Slots : Ending(p, m) /\ ~proc[p].failed)

Calls ==
    /\ IsFiniteSet(ended) /\ \A m \in ended : attempts[m] > 0
    /\ \A p \in Slots, m \in Matches : Ending(p, m) => attempts[m] > 0
    /\ \A p \in Slots : proc[p].pc = "history" => proc[p].left = {}
    /\ \A p \in Slots, m \in Matches :
         Ending(p, m) /\ attempts[m] = 1 => m \notin ended /\ \A q \in Slots : Ending(q, m) => q = p

Tallied(u) ==
    /\ board = None => record[u] = None
    /\ record[u] = None => Counted(u) = {}
    /\ board # None /\ board.operator = "best" =>
         /\ \A m \in Counted(u) : ~Better(board.sort, Scores(u)[m], record[u])
         /\ record[u] \in {None, FirstRecords[u]} \cup {Scores(u)[m] : m \in {x \in Played(u) : attempts[x] > 0}}
    /\ board # None /\ board.operator = "incr" =>
         \E b \in {0, FirstScore(u)} :
            /\ Now(u) >= b + Total(Scores(u), Counted(u))
            /\ Calm(u) => Now(u) = b + Total(Scores(u), Counted(u))

Tally == Calls /\ \A u \in Players \ erased : Tallied(u)

LEMMA TallyTypes ==
    ASSUME Shape, Calls, NEW u \in Players
    PROVE  /\ Counted(u) \subseteq Played(u) /\ IsFiniteSet(Counted(u))
           /\ \A m \in Played(u) : Scores(u)[m] = Results[m][u] /\ Scores(u)[m] \in Nat
           /\ FirstScore(u) \in Int /\ Now(u) \in Int
           /\ record[u] \in Int \cup {None} /\ None \notin Int
<1>1. Counted(u) \subseteq ended \cup {proc[p].match : p \in Slots}
    BY DEF Counted, Ending
<1>2. IsFiniteSet({proc[p].match : p \in Slots})
    <2> DEFINE T == {proc[p].match : p \in Slots}
               f == [p \in Slots |-> proc[p].match]
    <2>1. IsFiniteSet(Slots)
        BY ConstantTypes, FS_Interval DEF Slots
    <2>2. f \in Surjection(Slots, T)
        BY DEF Surjection
    <2> HIDE DEF f, T
    <2>3. IsFiniteSet(T)
        BY <2>1, <2>2, FS_Surjection
    <2>4. QED
        BY <2>3 DEF T
<1>3. IsFiniteSet(Counted(u))
    BY <1>1, <1>2, FS_Union, FS_Subset DEF Calls
<1>4. \A m \in Played(u) : Scores(u)[m] = Results[m][u] /\ Scores(u)[m] \in Nat
    BY BoardsAssumption DEF BoardsAssumption, Played, Scores
<1>5. FirstScore(u) \in Int
    BY BoardsAssumption DEF BoardsAssumption, FirstScore
<1>6. record[u] \in Int \cup {None} /\ None \notin Int
    BY ConstantTypes DEF Shape, Typed
<1>7. Now(u) \in Int
    BY <1>6 DEF Now
<1>8. QED
    BY <1>3, <1>4, <1>5, <1>6, <1>7 DEF Counted

(* A player whose record nobody wrote, when calls were only given up. *)
LEMMA TallySame ==
    ASSUME Shape, Calls, NEW u \in Players, Tallied(u), board' = board, record'[u] = record[u],
           \A m \in Matches : attempts[m] > 0 => attempts'[m] > 0,
           Counted(u)' \subseteq Counted(u),
           Calm(u)' => Calm(u) /\ Counted(u)' = Counted(u)
    PROVE  Tallied(u)'
<1>1. /\ Counted(u) \subseteq Played(u) /\ IsFiniteSet(Counted(u))
      /\ \A m \in Counted(u) : Scores(u)[m] \in Nat
      /\ FirstScore(u) \in Int /\ Now(u) \in Int
    BY TallyTypes
<1>2. Now(u)' = Now(u)
    BY DEF Now
<1>3. ASSUME board # None, board.operator = "best"
      PROVE  /\ \A m \in Counted(u)' : ~Better(board.sort, Scores(u)[m], record[u])
             /\ record[u] \in {None, FirstRecords[u]} \cup
                    {Scores(u)[m] : m \in {x \in Played(u) : attempts'[x] > 0}}
    <2>1. \A x \in Played(u) : attempts[x] > 0 => attempts'[x] > 0
        BY DEF Played
    <2>2. QED
        BY <1>3, <2>1 DEF Tallied
<1>4. ASSUME board # None, board.operator = "incr"
      PROVE  \E b \in {0, FirstScore(u)} :
                /\ Now(u) >= b + Total(Scores(u), Counted(u)')
                /\ Calm(u)' => Now(u) = b + Total(Scores(u), Counted(u)')
    <2>1. PICK b \in {0, FirstScore(u)} :
                /\ Now(u) >= b + Total(Scores(u), Counted(u))
                /\ Calm(u) => Now(u) = b + Total(Scores(u), Counted(u))
        BY <1>4 DEF Tallied
    <2>2. Total(Scores(u), Counted(u)') <= Total(Scores(u), Counted(u))
        BY <1>1, TotalGrows
    <2>3. Total(Scores(u), Counted(u)) \in Nat /\ Total(Scores(u), Counted(u)') \in Nat
        <3>1. IsFiniteSet(Counted(u)') /\ \A m \in Counted(u)' : Scores(u)[m] \in Nat
            BY <1>1, FS_Subset
        <3>2. QED
            BY <1>1, <3>1, TotalIsNat
    <2>4. b \in Int
        BY <1>1
    <2>5. Now(u) >= b + Total(Scores(u), Counted(u)')
        BY <1>1, <2>1, <2>2, <2>3, <2>4
    <2>6. Calm(u)' => Now(u) = b + Total(Scores(u), Counted(u)')
        BY <2>1
    <2>7. QED
        BY <2>5, <2>6
<1>5. record'[u] = None => Counted(u)' = {}
    BY DEF Tallied
<1>6. board' = None => record'[u] = None
    BY DEF Tallied
<1>7. QED
    BY <1>2, <1>3, <1>4, <1>5, <1>6 DEF Tallied

(* The board is created: nothing was on it before. *)
LEMMA TallyCreated ==
    ASSUME Shape, Calls, NEW u \in Players, Tallied(u), board = None, record'[u] = record[u],
           Counted(u)' \subseteq Counted(u)
    PROVE  Tallied(u)'
<1>1. record'[u] = None /\ Counted(u)' = {}
    BY DEF Tallied
<1>2. Now(u)' = 0
    BY <1>1 DEF Now
<1>3. Total(Scores(u), {}) = 0
    BY TotalTakes, FS_EmptySet
<1>4. 0 \in {0, FirstScore(u)} /\ 0 >= 0 + 0 /\ 0 = 0 + 0
    OBVIOUS
<1>5. Now(u)' >= 0 + Total(Scores(u), Counted(u)') /\ Now(u)' = 0 + Total(Scores(u), Counted(u)')
    BY <1>1, <1>2, <1>3, <1>4
<1>6. \E b \in {0, FirstScore(u)} :
         /\ Now(u)' >= b + Total(Scores(u), Counted(u)')
         /\ Calm(u)' => Now(u)' = b + Total(Scores(u), Counted(u)')
    BY <1>4, <1>5
<1>7. QED
    BY <1>1, <1>6 DEF Tallied

(* A record is written. *)
LEMMA TallyLands ==
    ASSUME Shape, Calls, NEW u \in Players, Tallied(u), board # None, board' = board,
           attempts' = attempts, NEW m \in Played(u), attempts[m] > 0,
           record'[u] = Combined(record[u], Results[m][u]),
           Counted(u)' \subseteq Counted(u) \cup {m},
           Calm(u)' => Calm(u) /\ m \notin Counted(u) /\ Counted(u)' = Counted(u) \cup {m}
    PROVE  Tallied(u)'
<1> DEFINE score == Scores(u)
           s == score[m]
           C == Counted(u)
           D == Counted(u)'
<1>1. /\ C \subseteq Played(u) /\ IsFiniteSet(C) /\ \A x \in Played(u) : score[x] \in Nat
      /\ FirstScore(u) \in Int /\ Now(u) \in Int /\ s \in Nat /\ s = Results[m][u]
      /\ record[u] \in Int \cup {None} /\ None \notin Int
    BY TallyTypes
<1>2. /\ record[u] = None => C = {}
      /\ D \subseteq C \cup {m} /\ (Calm(u)' => Calm(u) /\ m \notin C /\ D = C \cup {m})
      /\ record'[u] = Combined(record[u], s)
    BY <1>1 DEF Tallied
<1>3. board \in Settings
    BY DEF Shape, Typed
<1>4. ASSUME board.operator = "best"
      PROVE  /\ \A x \in D : ~Better(board.sort, score[x], record'[u])
             /\ record'[u] \in {None, FirstRecords[u]} \cup
                    {score[x] : x \in {x \in Played(u) : attempts[x] > 0}}
    <2>1. /\ \A x \in C : ~Better(board.sort, score[x], record[u])
          /\ record[u] \in {None, FirstRecords[u]} \cup
                    {score[x] : x \in {x \in Played(u) : attempts[x] > 0}}
        BY <1>4 DEF Tallied
    <2>2. s \in {score[x] : x \in {x \in Played(u) : attempts[x] > 0}}
        OBVIOUS
    <2> HIDE DEF score, s, C, D
    <2>3. CASE record[u] = None
        <3>1. record'[u] = s
            BY <1>2, <1>4, <2>3 DEF Combined
        <3>2. D \subseteq {m}
            BY <1>2, <2>3
        <3>3. ~Better(board.sort, s, s)
            BY <1>1 DEF Better
        <3>4. QED
            BY <2>2, <3>1, <3>2, <3>3 DEF s
    <2>4. CASE record[u] # None
        <3>1. record'[u] = IF Better(board.sort, s, record[u]) THEN s ELSE record[u]
            BY <1>2, <1>4, <2>4 DEF Combined
        <3>2. ASSUME NEW x \in D
              PROVE  ~Better(board.sort, score[x], record'[u])
            <4>1. record[u] \in Int /\ s \in Int
                BY <1>1, <2>4
            <4>2. CASE x = m
                BY <3>1, <4>1, <4>2 DEF Better, s
            <4>3. CASE x # m
                <5>1. x \in C /\ score[x] \in Int
                    BY <1>1, <1>2, <3>2, <4>3
                <5>2. ~Better(board.sort, score[x], record[u])
                    BY <2>1, <5>1
                <5>3. QED
                    BY <3>1, <4>1, <5>1, <5>2 DEF Better
            <4>4. QED
                BY <4>2, <4>3
        <3>3. QED
            BY <2>1, <2>2, <3>1, <3>2
    <2>5. QED
        BY <2>3, <2>4
<1>5. ASSUME board.operator = "incr"
      PROVE  \E b \in {0, FirstScore(u)} :
                /\ Now(u)' >= b + Total(score, D)
                /\ Calm(u)' => Now(u)' = b + Total(score, D)
    <2>1. PICK b \in {0, FirstScore(u)} :
                /\ Now(u) >= b + Total(score, C)
                /\ Calm(u) => Now(u) = b + Total(score, C)
        BY <1>5 DEF Tallied
    <2>2. Now(u)' = Now(u) + s
        <3> HIDE DEF s
        <3>1. CASE record[u] = None
            <4>1. record'[u] = s /\ s # None /\ Now(u) = 0
                BY <1>1, <1>2, <1>5, <3>1 DEF Combined, Now
            <4>2. QED
                BY <1>1, <4>1 DEF Now
        <3>2. CASE record[u] # None
            <4>1. record'[u] = record[u] + s /\ Now(u) = record[u]
                BY <1>2, <1>5, <3>2 DEF Combined, Now
            <4>2. record[u] + s \in Int
                BY <1>1, <3>2
            <4>3. QED
                BY <1>1, <4>1, <4>2 DEF Now
        <3>3. QED
            BY <3>1, <3>2
    <2> DEFINE E == C \cup {m}
    <2>3. IsFiniteSet(E) /\ (\A x \in E : score[x] \in Nat) /\ m \in E /\ D \in SUBSET E
        <3> HIDE DEF C, D, score
        <3>1. QED
            BY <1>1, <1>2, FS_AddElement
    <2> HIDE DEF score, C, D
    <2>4. Total(score, E) = score[m] + Total(score, E \ {m})
        <3> HIDE DEF E
        <3>1. QED
            BY <2>3, TotalWithout
    <2>5. IsFiniteSet(D) /\ IsFiniteSet(E \ {m}) /\ E \ {m} \in SUBSET C
        <3>1. E \ {m} \in SUBSET C
            BY DEF E
        <3> HIDE DEF E
        <3>2. QED
            BY <1>1, <2>3, <3>1, FS_Subset
    <2>6. /\ Total(score, C) \in Nat /\ Total(score, D) \in Nat /\ Total(score, E \ {m}) \in Nat
          /\ Total(score, D) <= Total(score, E) /\ Total(score, E \ {m}) <= Total(score, C)
        <3>1. \A x \in C : score[x] \in Nat
            BY <1>1
        <3>2. \A x \in D : score[x] \in Nat
            BY <2>3
        <3>3. \A x \in E \ {m} : score[x] \in Nat
            BY <2>3
        <3> HIDE DEF E
        <3>4. Total(score, C) \in Nat /\ Total(score, D) \in Nat /\ Total(score, E \ {m}) \in Nat
            BY <1>1, <2>5, <3>1, <3>2, <3>3, TotalIsNat
        <3>5. Total(score, D) <= Total(score, E)
            BY <2>3, TotalGrows
        <3>6. Total(score, E \ {m}) <= Total(score, C)
            BY <1>1, <2>5, <3>1, TotalGrows
        <3>7. QED
            BY <3>4, <3>5, <3>6
    <2>7. b \in Int /\ score[m] = s
        BY <1>1 DEF s
    <2>8. Calm(u)' => Calm(u) /\ D = E /\ E \ {m} = C
        BY <1>2
    <2> HIDE DEF E, s
    <2>9. Now(u)' >= b + Total(score, D)
        BY <1>1, <2>1, <2>2, <2>4, <2>6, <2>7
    <2>10. Calm(u)' => Now(u)' = b + Total(score, D)
        <3>1. SUFFICES ASSUME Calm(u)'
                       PROVE  Now(u)' = b + Total(score, D)
            OBVIOUS
        <3>2. Now(u) = b + Total(score, C) /\ D = E /\ E \ {m} = C
            BY <2>1, <2>8, <3>1
        <3>3. Total(score, D) = s + Total(score, C)
            BY <2>4, <2>7, <3>2
        <3>4. (b + Total(score, C)) + s = b + (s + Total(score, C))
            BY <1>1, <2>6, <2>7
        <3>5. QED
            BY <2>2, <3>2, <3>3, <3>4
    <2>11. QED
        BY <2>9, <2>10
<1>6. record'[u] # None
    <2>1. Combined(record[u], s) \in Int
        <3>1. s \in Int
            BY <1>1
        <3>2. QED
            BY <1>1, <1>3, <3>1, CombinedType
    <2>2. QED
        BY <1>1, <1>2, <2>1
<1>7. QED
    BY <1>4, <1>5, <1>6 DEF Tallied

(* What the tally reads of a request. *)
EndKept(q) ==
    /\ proc'[q].op = "end" <=> proc[q].op = "end"
    /\ proc[q].op = "end" =>
         /\ proc'[q].match = proc[q].match /\ proc'[q].left = proc[q].left
         /\ proc'[q].failed = proc[q].failed /\ proc'[q].pc = proc[q].pc

LEMMA EndingKept ==
    ASSUME NEW q, EndKept(q), NEW m
    PROVE  Ending(q, m)' <=> Ending(q, m)
BY DEF EndKept, Ending

LEMMA EndIsHistory ==
    ASSUME Shape
    PROVE  \A q \in Slots : proc[q].pc = "history" => proc[q].op = "end"
BY DEF Shape, Proper

LEMMA TallyFrame ==
    ASSUME Shape, Shape', Tally, UNCHANGED <<ended, attempts>>,
           erased \subseteq erased', \A u \in Players \ erased' : record'[u] = record[u],
           board' = board \/ board = None, \A q \in Slots : EndKept(q)
    PROVE  Tally'
<1>1. \A q \in Slots, m \in Matches : Ending(q, m)' <=> Ending(q, m)
    BY EndingKept
<1>2. Calls'
    <2>1. \A q \in Slots : proc'[q].pc = "history" => proc'[q].left = {}
        <3>1. \A q \in Slots : proc'[q].pc = "history" => proc'[q].op = "end"
            BY DEF Shape, Proper
        <3>2. QED
            BY <3>1 DEF EndKept, Tally, Calls
    <2>2. QED
        BY <1>1, <2>1 DEF Tally, Calls
<1>3. ASSUME NEW u \in Players \ erased'
      PROVE  Tallied(u)'
    <2>0. u \notin erased /\ record'[u] = record[u]
        OBVIOUS
    <2>1. Counted(u)' = Counted(u)
        <3>1. \A q \in Slots, m \in Matches :
                Ending(q, m) => (proc'[q].failed = proc[q].failed /\ proc'[q].left = proc[q].left)
            BY DEF EndKept, Ending
        <3>2. QED
            BY <1>1, <3>1 DEF Counted, Played
    <2>2. Calm(u)' => Calm(u)
        <3>1. \A q \in Slots, m \in Matches : Ending(q, m) => proc'[q].failed = proc[q].failed
            BY DEF EndKept, Ending
        <3>2. QED
            BY <1>1, <3>1 DEF Calm, Played
    <2>3. CASE board' = board
        BY <2>0, <2>1, <2>2, <2>3, TallySame DEF Tally
    <2>4. CASE board = None
        BY <2>0, <2>1, <2>4, TallyCreated DEF Tally
    <2>5. QED
        BY <2>3, <2>4
<1>4. QED
    BY <1>2, <1>3 DEF Tally

LEMMA TallyEndBegin ==
    ASSUME Shape, Shape', Tally, NEW p \in Slots, NEW m \in Matches, EndBegin(p, m)
    PROVE  Tally'
<1>1. proc \in [Slots -> Process] /\ Proper(proc[p]) /\ attempts \in [Matches -> Nat]
    BY DEF Shape, Typed
<1>2. /\ m \notin ended /\ At(p, "idle") /\ attempts' = [attempts EXCEPT ![m] = @ + 1]
      /\ Set(p, [Idle EXCEPT !.op = "end", !.match = m, !.left = DOMAIN Results[m], !.pc = "write"])
      /\ UNCHANGED <<board, record, erased, ended>>
    BY DEF EndBegin, Begin, registryVars
<1>3. \A q \in Slots : q # p => proc'[q] = proc[q]
    BY <1>1, <1>2 DEF Set
<1>4. /\ proc'[p].op = "end" /\ proc'[p].match = m /\ proc'[p].left = DOMAIN Results[m]
      /\ proc'[p].pc = "write" /\ proc[p].op = "none"
    BY <1>1, <1>2 DEF Set, Idle, At, Proper
<1>5. /\ attempts'[m] = attempts[m] + 1 /\ attempts[m] \in Nat
      /\ \A x \in Matches : x # m => attempts'[x] = attempts[x]
    BY <1>1, <1>2
<1>6. /\ \A x \in Matches : ~Ending(p, x)
      /\ \A x \in Matches : Ending(p, x)' <=> x = m
      /\ \A q \in Slots, x \in Matches : q # p => (Ending(q, x)' <=> Ending(q, x))
    BY <1>3, <1>4 DEF Ending
<1>7. Calls'
    <2>1. IsFiniteSet(ended') /\ \A x \in ended' : attempts'[x] > 0
        <3>1. ended \subseteq Matches
            BY DEF Shape, Typed
        <3>2. \A x \in ended : attempts'[x] = attempts[x]
            BY <1>2, <1>5, <3>1
        <3>3. QED
            BY <1>2, <3>2 DEF Tally, Calls
    <2>2. ASSUME NEW q \in Slots, NEW x \in Matches, Ending(q, x)'
          PROVE  attempts'[x] > 0
        <3>1. CASE x = m
            BY <1>5, <3>1
        <3>2. CASE x # m
            BY <1>5, <1>6, <2>2, <3>2 DEF Tally, Calls
        <3>3. QED
            BY <3>1, <3>2
    <2>3. \A q \in Slots : proc'[q].pc = "history" => proc'[q].left = {}
        BY <1>3, <1>4 DEF Tally, Calls
    <2>4. ASSUME NEW q \in Slots, NEW x \in Matches, Ending(q, x)', attempts'[x] = 1
          PROVE  x \notin ended' /\ \A t \in Slots : Ending(t, x)' => t = q
        <3>1. CASE x = m
            <4>1. ~(attempts[m] > 0)
                BY <1>5, <2>4, <3>1
            <4>2. \A t \in Slots : ~Ending(t, m)
                BY <4>1 DEF Tally, Calls
            <4>3. q = p /\ \A t \in Slots : Ending(t, m)' => t = p
                BY <1>6, <2>4, <3>1, <4>2
            <4>4. QED
                BY <1>2, <3>1, <4>3
        <3>2. CASE x # m
            <4>1. q # p /\ Ending(q, x) /\ attempts[x] = 1
                BY <1>5, <1>6, <2>4, <3>2
            <4>2. x \notin ended /\ \A t \in Slots : Ending(t, x) => t = q
                BY <4>1 DEF Tally, Calls
            <4>3. QED
                BY <1>2, <1>6, <3>2, <4>2
        <3>3. QED
            BY <3>1, <3>2
    <2>5. QED
        BY <2>1, <2>2, <2>3, <2>4 DEF Calls
<1>8. ASSUME NEW u \in Players \ erased
      PROVE  Tallied(u)'
    <2>1. Counted(u)' \subseteq Counted(u) /\ Counted(u) \subseteq Counted(u)'
        <3>1. ASSUME NEW x \in Played(u)
              PROVE  x \in Counted(u)' <=> x \in Counted(u)
            <4>1. x \in Matches /\ u \in DOMAIN Results[x]
                BY DEF Played
            <4>2. x = m => u \in proc'[p].left
                BY <1>4, <4>1
            <4>3. \A q \in Slots : q # p => proc'[q].failed = proc[q].failed /\ proc'[q].left = proc[q].left
                BY <1>3
            <4>4. (\E q \in Slots : Ending(q, x)' /\ ~proc'[q].failed /\ u \notin proc'[q].left) <=>
                  (\E q \in Slots : Ending(q, x) /\ ~proc[q].failed /\ u \notin proc[q].left)
                BY <1>6, <4>1, <4>2, <4>3
            <4>5. QED
                BY <1>2, <4>4 DEF Counted
        <3>2. QED
            BY <3>1 DEF Counted
    <2>2. Calm(u)' => Calm(u)
        <3>1. SUFFICES ASSUME Calm(u)', NEW x \in Played(u)
                       PROVE  \/ attempts[x] = 0
                              \/ attempts[x] = 1 /\ (x \in ended \/ \E q \in Slots : Ending(q, x) /\ ~proc[q].failed)
            BY DEF Calm
        <3>2. x \in Matches
            BY DEF Played
        <3>3. \/ attempts'[x] = 0
              \/ /\ attempts'[x] = 1
                 /\ x \in ended' \/ \E q \in Slots : Ending(q, x)' /\ ~proc'[q].failed
            BY <3>1 DEF Calm
        <3>4. CASE x = m
            BY <1>5, <3>3, <3>4
        <3>5. CASE x # m
            BY <1>2, <1>3, <1>5, <1>6, <3>2, <3>3, <3>5
        <3>6. QED
            BY <3>4, <3>5
    <2>3. \A x \in Matches : attempts[x] > 0 => attempts'[x] > 0
        BY <1>1, <1>5
    <2>4. QED
        BY <1>2, <2>1, <2>2, <2>3, TallySame DEF Tally
<1>9. QED
    BY <1>2, <1>7, <1>8 DEF Tally

(* What the tally reads of a request that has just written a record. *)
LEMMA AfterWriteLeft ==
    ASSUME Shape, NEW p \in Slots, At(p, "write"), NEW u, NEW ok \in BOOLEAN
    PROVE  /\ AfterWrite(p, u, ok).left = proc[p].left \ {u}
           /\ AfterWrite(p, u, ok).failed = (proc[p].failed \/ ~ok)
           /\ AfterWrite(p, u, ok).pc = "history" => AfterWrite(p, u, ok).left = {}
<1> DEFINE r == [proc[p] EXCEPT !.left = @ \ {u}, !.recorded = @ \/ ok, !.failed = @ \/ ~ok]
<1>1. proc[p] \in Process /\ proc[p].pc = "write"
    BY DEF Shape, Typed, At
<1>2. r.left = proc[p].left \ {u} /\ r.failed = (proc[p].failed \/ ~ok) /\ r.pc = "write"
    BY <1>1 DEF Process
<1>3. /\ [r EXCEPT !.pc = "history"].left = r.left
      /\ [r EXCEPT !.pc = "history"].failed = r.failed
    BY <1>1 DEF Process
<1>4. AfterWrite(p, u, ok) = IF r.left = {} THEN [r EXCEPT !.pc = "history"] ELSE r
    BY DEF AfterWrite
<1> HIDE DEF r
<1>5. CASE r.left = {}
    BY <1>2, <1>3, <1>4, <1>5
<1>6. CASE r.left # {}
    BY <1>2, <1>4, <1>6
<1>7. QED
    BY <1>5, <1>6

LEMMA TallyWriteRecord ==
    ASSUME Shape, Shape', Tally, NEW p \in Slots, NEW u \in Players, WriteRecord(p, u)
    PROVE  Tally'
<1>1. /\ proc \in [Slots -> Process] /\ Proper(proc[p]) /\ record \in [Players -> Int \cup {None}]
      /\ attempts \in [Matches -> Nat]
    BY DEF Shape, Typed
<1>2. At(p, "write") /\ u \in proc[p].left /\ UNCHANGED <<board, erased, ended, attempts>>
    BY WriteRecordCases DEF registryVars
<1>3. PICK m \in Matches : proc[p].op = "end" /\ proc[p].match = m /\ u \in DOMAIN Results[m]
    BY <1>1, <1>2 DEF At, Proper
<1>4. PICK ok \in BOOLEAN :
        /\ Set(p, AfterWrite(p, u, ok))
        /\ \/ board # None /\ record' = [record EXCEPT ![u] = Combined(@, Results[m][u])]
           \/ ~ok /\ record' = record
    BY <1>3, WriteRecordCases
<1>5. /\ proc'[p].op = "end" /\ proc'[p].match = m /\ proc'[p].left = proc[p].left \ {u}
      /\ proc'[p].failed = (proc[p].failed \/ ~ok)
      /\ proc'[p].pc = "history" => proc'[p].left = {}
    BY <1>1, <1>2, <1>3, <1>4, AfterWriteType, AfterWriteLeft DEF Set
<1>6. \A q \in Slots : q # p => proc'[q] = proc[q]
    BY <1>1, <1>4 DEF Set
<1>7. \A q \in Slots, x \in Matches : Ending(q, x)' <=> Ending(q, x)
    BY <1>3, <1>5, <1>6 DEF Ending
<1>8. Ending(p, m) /\ \A x \in Matches : Ending(p, x) => x = m
    BY <1>3 DEF Ending
<1>9. attempts[m] > 0
    BY <1>8 DEF Tally, Calls
<1>10. Calls'
    <2>1. \A q \in Slots : proc'[q].pc = "history" => proc'[q].left = {}
        BY <1>5, <1>6 DEF Tally, Calls
    <2>2. QED
        BY <1>2, <1>7, <2>1 DEF Tally, Calls
(* The only call about a match that was made once is the one that writes. *)
<1>11. ASSUME NEW w \in Players, m \in Played(w), Calm(w)'
       PROVE  /\ ok /\ ~proc[p].failed /\ m \notin ended
              /\ \A q \in Slots : Ending(q, m) => q = p
    <2>1. /\ attempts[m] = 1
          /\ m \in ended \/ \E q \in Slots : Ending(q, m)' /\ ~proc'[q].failed
        BY <1>2, <1>9, <1>11 DEF Calm
    <2>2. m \notin ended /\ \A q \in Slots : Ending(q, m) => q = p
        BY <1>8, <1>9, <2>1 DEF Tally, Calls
    <2>3. ~proc'[p].failed
        BY <1>7, <1>9, <2>1, <2>2
    <2>4. QED
        BY <1>5, <2>2, <2>3
<1>12. ASSUME NEW w \in Players
       PROVE  Calm(w)' => Calm(w)
    <2>1. SUFFICES ASSUME Calm(w)', NEW x \in Played(w)
                   PROVE  \/ attempts[x] = 0
                          \/ attempts[x] = 1 /\ (x \in ended \/ \E q \in Slots : Ending(q, x) /\ ~proc[q].failed)
        BY DEF Calm
    <2>2. x \in Matches
        BY DEF Played
    <2>3. \/ attempts[x] = 0
          \/ /\ attempts[x] = 1
             /\ x \in ended \/ \E q \in Slots : Ending(q, x)' /\ ~proc'[q].failed
        BY <1>2, <2>1 DEF Calm
    <2>4. \A q \in Slots : ~proc'[q].failed => ~proc[q].failed
        BY <1>5, <1>6
    <2>5. QED
        BY <1>7, <2>2, <2>3, <2>4
<1>13. ASSUME NEW w \in Players, NEW x \in Played(w), w # u \/ x # m
       PROVE  x \in Counted(w)' => x \in Counted(w)
    <2>1. x \in Matches
        BY DEF Played
    <2>2. ASSUME NEW q \in Slots, Ending(q, x)', ~proc'[q].failed, w \notin proc'[q].left
          PROVE  Ending(q, x) /\ ~proc[q].failed /\ w \notin proc[q].left
        <3>1. CASE q = p
            <4>1. x = m /\ w # u
                BY <1>7, <1>8, <1>13, <2>1, <2>2, <3>1
            <4>2. QED
                BY <1>5, <1>7, <2>1, <2>2, <3>1, <4>1
        <3>2. CASE q # p
            BY <1>6, <1>7, <2>1, <2>2, <3>2
        <3>3. QED
            BY <3>1, <3>2
    <2>3. QED
        BY <1>2, <2>2 DEF Counted
<1>14. ASSUME NEW w \in Players, Calm(w)', NEW x \in Counted(w)
       PROVE  x \in Counted(w)'
    <2>1. x \in Played(w) /\ x \in Matches
        BY DEF Counted, Played
    <2>2. CASE x \in ended
        BY <1>2, <2>1, <2>2 DEF Counted
    <2>3. CASE x \notin ended
        <3>1. PICK q \in Slots : Ending(q, x) /\ ~proc[q].failed /\ w \notin proc[q].left
            BY <2>3 DEF Counted
        <3>2. CASE q = p
            <4>1. x = m /\ ok
                BY <1>8, <1>11, <1>14, <2>1, <3>1, <3>2
            <4>2. ~proc'[p].failed /\ w \notin proc'[p].left
                BY <1>5, <3>1, <3>2, <4>1
            <4>3. QED
                BY <1>7, <2>1, <3>1, <3>2, <4>2 DEF Counted
        <3>3. CASE q # p
            BY <1>6, <1>7, <2>1, <3>1, <3>3 DEF Counted
        <3>4. QED
            BY <3>2, <3>3
    <2>4. QED
        BY <2>2, <2>3
<1>15. m \in Played(u)
    BY <1>3 DEF Played
<1>16. \A w \in Players : Counted(w) \subseteq Played(w) /\ Counted(w)' \subseteq Played(w)
    BY DEF Counted, Played
<1>17. ASSUME NEW w \in Players \ erased, w # u
       PROVE  Tallied(w)'
    <2>1. record'[w] = record[w]
        BY <1>1, <1>4, <1>17
    <2>2. Counted(w)' \subseteq Counted(w)
        BY <1>13, <1>16, <1>17
    <2>3. Calm(w)' => Calm(w) /\ Counted(w)' = Counted(w)
        BY <1>12, <1>14, <2>2
    <2>4. QED
        BY <1>2, <2>1, <2>2, <2>3, TallySame DEF Tally
<1>18. CASE board # None /\ record' = [record EXCEPT ![u] = Combined(@, Results[m][u])]
    <2>1. record'[u] = Combined(record[u], Results[m][u])
        BY <1>1, <1>18
    <2>2. Counted(u)' \subseteq Counted(u) \cup {m}
        BY <1>13, <1>16
    <2>3. ASSUME Calm(u)'
          PROVE  m \notin Counted(u) /\ m \in Counted(u)'
        <3>1. ok /\ ~proc[p].failed /\ m \notin ended /\ \A q \in Slots : Ending(q, m) => q = p
            BY <1>11, <1>15, <2>3
        <3>2. m \notin Counted(u)
            BY <1>2, <3>1 DEF Counted
        <3>3. Ending(p, m)' /\ ~proc'[p].failed /\ u \notin proc'[p].left
            BY <1>5, <1>7, <1>8, <1>9, <3>1
        <3>4. QED
            BY <1>15, <3>2, <3>3 DEF Counted
    <2>4. Calm(u)' => Calm(u) /\ m \notin Counted(u) /\ Counted(u)' = Counted(u) \cup {m}
        BY <1>12, <1>14, <2>2, <2>3
    <2>5. u \notin erased => Tallied(u)'
        BY <1>2, <1>9, <1>15, <1>18, <2>1, <2>2, <2>4, TallyLands DEF Tally
    <2>6. QED
        BY <1>2, <1>10, <1>17, <2>5 DEF Tally
<1>19. CASE ~ok /\ record' = record
    <2>1. Counted(u)' \subseteq Counted(u)
        <3>1. m \in Counted(u)' => m \in Counted(u)
            <4>1. ASSUME NEW q \in Slots, Ending(q, m)', ~proc'[q].failed, u \notin proc'[q].left
                  PROVE  Ending(q, m) /\ ~proc[q].failed /\ u \notin proc[q].left
                <5>1. q # p
                    BY <1>5, <1>19, <4>1
                <5>2. QED
                    BY <1>6, <1>7, <1>9, <4>1, <5>1
            <4>2. QED
                BY <1>2, <1>15, <4>1 DEF Counted
        <3>2. QED
            BY <1>13, <1>16, <3>1
    <2>2. Calm(u)' => Calm(u) /\ Counted(u)' = Counted(u)
        BY <1>12, <1>14, <2>1
    <2>3. u \notin erased => Tallied(u)'
        BY <1>2, <1>19, <2>1, <2>2, TallySame DEF Tally
    <2>4. QED
        BY <1>2, <1>10, <1>17, <2>3 DEF Tally
<1>20. QED
    BY <1>4, <1>18, <1>19

LEMMA TallyWriteHistory ==
    ASSUME Shape, Shape', Tally, NEW p \in Slots, WriteHistory(p)
    PROVE  Tally'
<1>1. proc[p].pc = "history" /\ proc[p].op = "end" /\ proc[p].match \in Matches /\ proc[p].left = {}
    BY DEF WriteHistory, At, Shape, Proper, Tally, Calls
<1>2. PICK m \in Matches : proc[p].match = m
    BY <1>1
<1>3. /\ UNCHANGED <<board, record, erased, attempts>>
      /\ \/ ended' = ended
         \/ ended' = ended \cup {m} /\ ~proc[p].failed
    BY <1>2 DEF WriteHistory, registryVars
<1>4. proc'[p].op = "none" /\ proc'[p].pc = "idle"
    BY InvalidatedRequest
<1>5. ASSUME NEW q \in Slots, q # p
      PROVE  EndKept(q)
    <2>1. proc[q] \in Process /\ (proc'[q] = proc[q] \/ proc'[q] = [proc[q] EXCEPT !.current = FALSE])
        BY <1>5, InvalidatedRequest DEF Shape, Typed
    <2>2. QED
        BY <2>1 DEF EndKept, Process
<1>6. /\ \A x \in Matches : ~Ending(p, x)' /\ (Ending(p, x) => x = m)
      /\ \A q \in Slots, x \in Matches : q # p => (Ending(q, x)' <=> Ending(q, x))
      /\ \A q \in Slots, x \in Matches : Ending(q, x)' => q # p /\ Ending(q, x)
      /\ Ending(p, m)
    <2>1. \A x \in Matches : ~Ending(p, x)' /\ (Ending(p, x) => x = m)
        BY <1>2, <1>4 DEF Ending
    <2>2. \A q \in Slots, x \in Matches : q # p => (Ending(q, x)' <=> Ending(q, x))
        BY <1>5, EndingKept
    <2>3. Ending(p, m)
        BY <1>1, <1>2 DEF Ending
    <2>4. QED
        BY <2>1, <2>2, <2>3
<1>7. attempts[m] > 0
    BY <1>6 DEF Tally, Calls
<1>8. Calls'
    <2>1. IsFiniteSet(ended') /\ \A x \in ended' : attempts'[x] > 0
        <3>1. IsFiniteSet(ended) /\ \A x \in ended : attempts[x] > 0
            BY DEF Tally, Calls
        <3>2. IsFiniteSet(ended \cup {m})
            BY <3>1, FS_AddElement
        <3>3. QED
            BY <1>3, <1>7, <3>1, <3>2
    <2>2. \A q \in Slots, x \in Matches : Ending(q, x)' => attempts'[x] > 0
        BY <1>3, <1>6 DEF Tally, Calls
    <2>3. \A q \in Slots : proc'[q].pc = "history" => proc'[q].left = {}
        <3>1. ASSUME NEW q \in Slots, proc'[q].pc = "history"
              PROVE  proc'[q].left = {}
            <4>1. q # p /\ EndKept(q) /\ proc'[q].op = "end"
                BY <1>4, <1>5, <3>1 DEF Shape, Proper
            <4>2. QED
                BY <3>1, <4>1 DEF EndKept, Tally, Calls
        <3>2. QED
            BY <3>1
    <2>4. ASSUME NEW q \in Slots, NEW x \in Matches, Ending(q, x)', attempts'[x] = 1
          PROVE  x \notin ended' /\ \A t \in Slots : Ending(t, x)' => t = q
        <3>1. q # p /\ Ending(q, x) /\ attempts[x] = 1
            BY <1>3, <1>6, <2>4
        <3>2. x \notin ended /\ \A t \in Slots : Ending(t, x) => t = q
            BY <3>1 DEF Tally, Calls
        <3>3. x # m
            BY <1>6, <3>1, <3>2
        <3>4. QED
            BY <1>3, <1>6, <3>2, <3>3
    <2>5. QED
        BY <2>1, <2>2, <2>3, <2>4 DEF Calls
<1>9. ASSUME NEW u \in Players \ erased
      PROVE  Tallied(u)'
    <2>1. \A q \in Slots, x \in Matches :
            Ending(q, x)' => proc'[q].failed = proc[q].failed /\ proc'[q].left = proc[q].left
        <3>1. ASSUME NEW q \in Slots, NEW x \in Matches, Ending(q, x)'
              PROVE  proc'[q].failed = proc[q].failed /\ proc'[q].left = proc[q].left
            <4>1. EndKept(q) /\ Ending(q, x)
                BY <1>5, <1>6, <3>1
            <4>2. QED
                BY <4>1 DEF EndKept, Ending
        <3>2. QED
            BY <3>1
    <2>2. Counted(u)' \subseteq Counted(u)
        <3>1. ASSUME NEW x \in Played(u), x \in Counted(u)'
              PROVE  x \in Counted(u)
            <4>1. x \in Matches
                BY DEF Played
            <4>2. CASE x \in ended
                BY <4>2 DEF Counted
            <4>3. CASE x = m /\ ~proc[p].failed
                BY <1>1, <1>6, <4>3 DEF Counted
            <4>4. CASE \E q \in Slots : Ending(q, x)' /\ ~proc'[q].failed /\ u \notin proc'[q].left
                BY <1>6, <2>1, <4>1, <4>4 DEF Counted
            <4>5. x \in ended' \/ \E q \in Slots : Ending(q, x)' /\ ~proc'[q].failed /\ u \notin proc'[q].left
                BY <3>1 DEF Counted
            <4>6. QED
                BY <1>3, <4>2, <4>3, <4>4, <4>5
        <3>2. Counted(u)' \subseteq Played(u)
            BY DEF Counted, Played
        <3>3. QED
            BY <3>1, <3>2
    <2>3. ASSUME Calm(u)', NEW x \in Played(u)
          PROVE  \/ attempts[x] = 0
                 \/ attempts[x] = 1 /\ (x \in ended \/ \E q \in Slots : Ending(q, x) /\ ~proc[q].failed)
        <3>1. x \in Matches
            BY DEF Played
        <3>2. \/ attempts[x] = 0
              \/ /\ attempts[x] = 1
                 /\ x \in ended' \/ \E q \in Slots : Ending(q, x)' /\ ~proc'[q].failed
            BY <1>3, <2>3 DEF Calm
        <3>3. x \in ended' => x \in ended \/ (Ending(p, x) /\ ~proc[p].failed)
            BY <1>3, <1>6
        <3>4. (\E q \in Slots : Ending(q, x)' /\ ~proc'[q].failed)
                => \E q \in Slots : Ending(q, x) /\ ~proc[q].failed
            BY <1>6, <2>1, <3>1
        <3>5. QED
            BY <3>2, <3>3, <3>4
    <2>4. Calm(u)' => Calm(u)
        BY <2>3 DEF Calm
    <2>5. ASSUME Calm(u)', NEW x \in Counted(u)
          PROVE  x \in Counted(u)'
        <3>1. x \in Played(u) /\ x \in Matches
            BY DEF Counted, Played
        <3>2. CASE x \in ended
            BY <1>3, <3>1, <3>2 DEF Counted, Played
        <3>3. CASE x \notin ended
            <4>1. PICK q \in Slots : Ending(q, x) /\ ~proc[q].failed /\ u \notin proc[q].left
                BY <3>3 DEF Counted
            <4>2. CASE q = p
                <5>1. x = m
                    BY <1>6, <3>1, <4>1, <4>2
                <5>2. /\ attempts[m] = 1
                      /\ m \in ended' \/ \E t \in Slots : Ending(t, m)' /\ ~proc'[t].failed
                    BY <1>3, <1>7, <2>5, <3>1, <5>1 DEF Calm
                <5>3. \A t \in Slots : Ending(t, m) => t = p
                    BY <1>6, <5>2 DEF Tally, Calls
                <5>4. m \in ended'
                    BY <1>6, <5>2, <5>3
                <5>5. QED
                    BY <3>1, <5>1, <5>4 DEF Counted, Played
            <4>3. CASE q # p
                <5>1. Ending(q, x)' /\ ~proc'[q].failed /\ u \notin proc'[q].left
                    BY <1>6, <2>1, <3>1, <4>1, <4>3
                <5>2. QED
                    BY <3>1, <5>1 DEF Counted, Played
            <4>4. QED
                BY <4>2, <4>3
        <3>4. QED
            BY <3>2, <3>3
    <2>6. Calm(u)' => Calm(u) /\ Counted(u)' = Counted(u)
        BY <2>2, <2>4, <2>5
    <2>7. QED
        BY <1>3, <2>2, <2>6, TallySame DEF Tally
<1>10. QED
    BY <1>3, <1>8, <1>9 DEF Tally

LEMMA TallyRestart ==
    ASSUME Shape, Tally, Restart
    PROVE  Tally'
<1>1. /\ UNCHANGED <<record, erased, ended, attempts>> /\ (board' = board \/ board = None)
      /\ \A q \in Slots : proc'[q] = Idle
    BY DEF Restart, Created
<1>2. \A q \in Slots, x \in Matches : ~Ending(q, x)'
    BY <1>1 DEF Ending, Idle
<1>3. Calls'
    BY <1>1, <1>2 DEF Tally, Calls, Idle
<1>4. ASSUME NEW u \in Players \ erased
      PROVE  Tallied(u)'
    <2>1. Counted(u)' = {x \in Played(u) : x \in ended}
        BY <1>1, <1>2 DEF Counted, Played
    <2>2. Counted(u)' \subseteq Counted(u)
        BY <2>1 DEF Counted
    <2>3. ASSUME Calm(u)', NEW x \in Played(u)
          PROVE  attempts[x] = 0 \/ (attempts[x] = 1 /\ x \in ended)
        BY <1>1, <1>2, <2>3 DEF Calm, Played
    <2>4. Calm(u)' => Calm(u)
        BY <2>3 DEF Calm
    <2>5. ASSUME Calm(u)', NEW x \in Counted(u)
          PROVE  x \in Counted(u)'
        <3>1. x \in Played(u) /\ x \in Matches /\ attempts[x] > 0
            BY DEF Counted, Played, Tally, Calls
        <3>2. QED
            BY <2>1, <2>3, <2>5, <3>1
    <2>6. Calm(u)' => Calm(u) /\ Counted(u)' = Counted(u)
        BY <2>2, <2>4, <2>5
    <2>7. CASE board' = board
        BY <1>1, <2>2, <2>6, <2>7, TallySame DEF Tally
    <2>8. CASE board = None
        BY <1>1, <2>2, <2>8, TallyCreated DEF Tally
    <2>9. QED
        BY <1>1, <2>7, <2>8
<1>5. QED
    BY <1>1, <1>3, <1>4 DEF Tally

(* Requests about the listing and stats leave records and calls alone. *)
LEMMA TallyAside ==
    ASSUME Shape, Shape', Tally, NEW p \in Slots, AsideStep(p)
    PROVE  Tally'
<1>1. CASE \E m \in Matches : EndBegin(p, m)
    BY <1>1, TallyEndBegin
<1>2. CASE \E u \in Players : WriteRecord(p, u)
    BY <1>2, TallyWriteRecord
<1>3. CASE /\ ~ \E m \in Matches : EndBegin(p, m)
           /\ ~ \E u \in Players : WriteRecord(p, u)
    <2>1. UNCHANGED board /\ Alone(p) /\ proc \in [Slots -> Process] /\ Proper(proc[p])
        BY AsideLeaves DEF registryVars, Shape, Typed
    <2>2. /\ UNCHANGED <<record, erased, ended, attempts>>
          /\ proc[p].pc \in {"idle", "check", "record", "lock", "answer"}
          /\ \/ Set(p, Idle)
             \/ Set(p, [Idle EXCEPT !.op = "list", !.pc = "lock"])
             \/ \E u \in Asked : Set(p, [Idle EXCEPT !.op = "stats", !.target = u, !.pc = "check"])
             \/ \E got \in BOOLEAN : Set(p, Answer(got))
             \/ At(p, "check") /\ Set(p, [proc[p] EXCEPT !.pc = "record"])
        BY <1>3 DEF AsideStep, ListBegin, Begin, StatsStep, StatsCheck, StatsRecord, Respond,
                    ServeCopy, BackOff, StatsBegin, At, matchVars, Answered, Answer, FallBack
    <2>3. proc'[p].op # "end"
        <3>1. CASE Set(p, Idle)
            BY <2>1, <3>1 DEF Set, Idle
        <3>2. CASE Set(p, [Idle EXCEPT !.op = "list", !.pc = "lock"])
            BY <2>1, <3>2 DEF Set, Idle
        <3>3. CASE \E u \in Asked : Set(p, [Idle EXCEPT !.op = "stats", !.target = u, !.pc = "check"])
            BY <2>1, <3>3 DEF Set, Idle
        <3>4. CASE \E got \in BOOLEAN : Set(p, Answer(got))
            BY <2>1, <3>4 DEF Set, Answer, Idle
        <3>5. CASE At(p, "check") /\ Set(p, [proc[p] EXCEPT !.pc = "record"])
            BY <2>1, <3>5 DEF Set, At, Proper, Process
        <3>6. QED
            BY <2>2, <3>1, <3>3, <3>4, <3>5, <3>2
    <2>4. proc[p].op # "end"
        BY <2>1, <2>2 DEF Proper
    <2>5. \A q \in Slots : EndKept(q)
        BY <2>1, <2>3, <2>4 DEF EndKept, Alone
    <2>6. QED
        BY <2>1, <2>2, <2>5, TallyFrame
<1>4. QED
    BY <1>1, <1>2, <1>3

LEMMA TallyNext ==
    ASSUME Shape, Shape', Tally, [Next]_vars
    PROVE  Tally'
<1>1. CASE UNCHANGED vars
    <2>1. UNCHANGED <<record, erased, ended, attempts, board, proc>>
        BY <1>1 DEF vars, registryVars, matchVars
    <2>2. \A q \in Slots : EndKept(q)
        BY <2>1 DEF EndKept
    <2>3. QED
        BY <2>1, <2>2, TallyFrame
<1>2. ASSUME UNCHANGED <<board, ended, attempts>>,
             erased \subseteq erased', \A u \in Players \ erased' : record'[u] = record[u],
             \A q \in Slots : proc'[q].pc = proc[q].pc /\ (Reading(q) \/ proc'[q] = proc[q])
      PROVE  Tally'
    <2>1. \A q \in Slots : EndKept(q)
        <3>1. ASSUME NEW q \in Slots
              PROVE  EndKept(q)
            <4>1. Proper(proc[q]) /\ Proper(proc'[q])
                BY DEF Shape
            <4>2. CASE Reading(q)
                <5>1. proc[q].op = "list" /\ proc'[q].op = "list"
                    BY <1>2, <4>1, <4>2 DEF Proper, Reading
                <5>2. QED
                    BY <5>1 DEF EndKept
            <4>3. CASE ~Reading(q)
                BY <1>2, <4>3 DEF EndKept
            <4>4. QED
                BY <4>2, <4>3
        <3>2. QED
            BY <3>1
    <2>2. QED
        BY <1>2, <2>1, TallyFrame
<1>3. CASE \E u \in Leaving : PlayerStep(u)
    <2>1. PICK u \in Leaving : PlayerStep(u)
        BY <1>3
    <2>2. /\ Moved(u) /\ u \in Players /\ UNCHANGED <<board, ended, attempts>>
          /\ Erase(u) \/ UNCHANGED <<record, erased>>
        BY <2>1, PlayerStepLeaves DEF registryVars
    <2>3. erased \subseteq erased' /\ \A w \in Players \ erased' : record'[w] = record[w]
        BY <2>2 DEF Erase, Shape, Typed
    <2>4. \A q \in Slots : proc'[q].pc = proc[q].pc /\ (Reading(q) \/ proc'[q] = proc[q])
        BY <2>2, MovedRequest
    <2>5. QED
        BY <1>2, <2>2, <2>3, <2>4
<1>4. CASE Tick
    <2>1. UNCHANGED <<registryVars, matchVars>>
        BY <1>4 DEF Tick
    <2>2. QED
        BY <1>2, <1>4, <2>1, TickedRequest DEF registryVars, matchVars
<1>5. ASSUME NEW p \in Slots, AsideStep(p)
      PROVE  Tally'
    BY <1>5, TallyAside
<1>6. ASSUME NEW p \in Slots, RegistryStep(p)
      PROVE  Tally'
    <2>1. UNCHANGED matchVars /\ Alone(p) /\ proc[p].op # "end" /\ proc'[p].op # "end"
        BY <1>6, RegistryLeaves
    <2>2. board' = board \/ board = None
        BY <1>6 DEF RegistryStep, RegisterBegin, Upsert, PutCache, CreateBoard, Created
    <2>3. \A q \in Slots : EndKept(q)
        BY <2>1 DEF EndKept, Alone
    <2>4. QED
        BY <2>1, <2>2, <2>3, TallyFrame DEF matchVars
<1>7. ASSUME NEW p \in Slots, ReadStep(p) \/ StartRead(p)
      PROVE  Tally'
    <2>1. /\ UNCHANGED <<registryVars, matchVars>> /\ Alone(p)
          /\ proc[p].op = "list" /\ proc'[p].op = "list"
        BY <1>7, ReadLeaves
    <2>2. \A q \in Slots : EndKept(q)
        BY <2>1 DEF EndKept, Alone
    <2>3. QED
        BY <2>1, <2>2, TallyFrame DEF registryVars, matchVars
<1>8. ASSUME NEW p \in Slots, WriteHistory(p)
      PROVE  Tally'
    BY <1>8, TallyWriteHistory
<1>9. QED
    BY <1>1, <1>3, <1>4, <1>5, <1>6, <1>7, <1>8, TallyRestart
       DEF Next, AsideStep, RegistryStep, Take

LEMMA TallyInit == Init => Tally
<1> SUFFICES ASSUME Init
             PROVE  Tally
    OBVIOUS
<1>1. /\ ended = {} /\ \A m \in Matches : attempts[m] = 0
      /\ \A p \in Slots : proc[p] = Idle
      /\ record = IF board = None THEN [u \in Players |-> None] ELSE FirstRecords
    BY DEF Init
<1>2. \A p \in Slots, m \in Matches : ~Ending(p, m)
    BY <1>1 DEF Ending, Idle
<1>3. Calls
    BY <1>1, <1>2, FS_EmptySet DEF Calls, Idle
<1>4. ASSUME NEW u \in Players
      PROVE  Tallied(u)
    <2>1. Counted(u) = {}
        BY <1>1, <1>2 DEF Counted, Played
    <2>2. Total(Scores(u), {}) = 0
        BY TotalTakes, FS_EmptySet
    <2>3. board # None => record[u] = FirstRecords[u]
        BY <1>1
    <2>4. FirstScore(u) \in Int
        BY BoardsAssumption DEF BoardsAssumption, FirstScore
    <2>5. board # None => Now(u) = FirstScore(u)
        BY <2>3 DEF Now, FirstScore
    <2>6. FirstScore(u) >= FirstScore(u) + 0 /\ FirstScore(u) = FirstScore(u) + 0
        BY <2>4
    <2>7. board # None =>
            /\ Now(u) >= FirstScore(u) + Total(Scores(u), Counted(u))
            /\ Now(u) = FirstScore(u) + Total(Scores(u), Counted(u))
        BY <2>1, <2>2, <2>5, <2>6
    <2>8. board = None => record[u] = None
        BY <1>1
    <2>9. QED
        BY <2>1, <2>3, <2>7, <2>8 DEF Tallied
<1>5. QED
    BY <1>3, <1>4 DEF Tally

LEMMA TallyIsCount ==
    ASSUME Shape, Tally
    PROVE  ResultsCounted
<1>1. SUFFICES
        ASSUME NEW u \in Players \ erased, {m \in Played(u) : m \in ended} # {}
        PROVE  LET mine == {m \in Played(u) : m \in ended} IN
               /\ record[u] # None
               /\ board.operator = "best" =>
                    /\ \A m \in mine : ~Better(board.sort, Scores(u)[m], record[u])
                    /\ record[u] \in {Scores(u)[m] : m \in {x \in Played(u) : attempts[x] > 0}}
                                       \cup {FirstRecords[u]}
               /\ board.operator = "incr" =>
                    \E b \in {0, FirstScore(u)} :
                       /\ record[u] >= b + Total(Scores(u), mine)
                       /\ (\A m \in Played(u) : attempts[m] = IF m \in mine THEN 1 ELSE 0) =>
                               record[u] = b + Total(Scores(u), mine)
    BY Zenon DEF ResultsCounted, Played, Scores, FirstScore
<1> DEFINE mine == {m \in Played(u) : m \in ended}
<1>2. /\ Counted(u) \subseteq Played(u) /\ IsFiniteSet(Counted(u))
      /\ \A m \in Played(u) : Scores(u)[m] \in Nat
      /\ FirstScore(u) \in Int /\ Now(u) \in Int
    BY TallyTypes DEF Tally
<1>3. mine \in SUBSET Counted(u) /\ Tallied(u)
    BY DEF Counted, Tally
<1>4. record[u] # None /\ board # None /\ Now(u) = record[u]
    BY <1>1, <1>3 DEF Tallied, Now
<1>5. ASSUME board.operator = "best"
      PROVE  /\ \A m \in mine : ~Better(board.sort, Scores(u)[m], record[u])
             /\ record[u] \in {Scores(u)[m] : m \in {x \in Played(u) : attempts[x] > 0}}
                                \cup {FirstRecords[u]}
    BY <1>3, <1>4, <1>5 DEF Tallied
<1>6. ASSUME board.operator = "incr"
      PROVE  \E b \in {0, FirstScore(u)} :
                /\ record[u] >= b + Total(Scores(u), mine)
                /\ (\A m \in Played(u) : attempts[m] = IF m \in mine THEN 1 ELSE 0) =>
                        record[u] = b + Total(Scores(u), mine)
    <2>1. PICK b \in {0, FirstScore(u)} :
                /\ Now(u) >= b + Total(Scores(u), Counted(u))
                /\ Calm(u) => Now(u) = b + Total(Scores(u), Counted(u))
        BY <1>3, <1>4, <1>6 DEF Tallied
    <2>2. /\ Total(Scores(u), mine) <= Total(Scores(u), Counted(u))
          /\ Total(Scores(u), mine) \in Nat /\ Total(Scores(u), Counted(u)) \in Nat
        <3>1. \A m \in Counted(u) : Scores(u)[m] \in Nat
            BY <1>2
        <3>2. IsFiniteSet(mine) /\ \A m \in mine : Scores(u)[m] \in Nat
            BY <1>2, <1>3, FS_Subset
        <3> HIDE DEF mine
        <3>3. QED
            BY <1>2, <1>3, <3>1, <3>2, TotalGrows, TotalIsNat
    <2>3. ASSUME \A m \in Played(u) : attempts[m] = IF m \in mine THEN 1 ELSE 0
          PROVE  Calm(u) /\ Counted(u) = mine
        <3>1. Calm(u)
            BY <2>3 DEF Calm
        <3>2. ASSUME NEW m \in Counted(u)
              PROVE  m \in mine
            <4>1. m \in Played(u) /\ attempts[m] > 0
                BY DEF Counted, Played, Tally, Calls
            <4>2. QED
                BY <2>3, <4>1
        <3>3. QED
            BY <1>3, <3>1, <3>2
    <2> HIDE DEF mine
    <2>4. b \in Int
        BY <1>2
    <2>5. record[u] >= b + Total(Scores(u), mine)
        BY <1>2, <1>4, <2>1, <2>2, <2>4
    <2>6. (\A m \in Played(u) : attempts[m] = IF m \in mine THEN 1 ELSE 0) =>
                record[u] = b + Total(Scores(u), mine)
        BY <1>4, <2>1, <2>3
    <2>7. QED
        BY <2>5, <2>6
<1>7. QED
    BY <1>4, <1>5, <1>6

-----------------------------------------------------------------------------
(* The theorems.                                                            *)

IInv == Shape /\ Registry /\ Timely /\ Exact /\ Tally

(* Whatever requests, failures, restarts, bans, deletions and ticks follow  *)
(* one another (the actions of leaderboard_public.go, match_lifecycle.go,   *)
(* account.go and per_game_config.go), the five parts of the inductive      *)
(* invariant hold.                                                          *)
THEOREM Always == Spec => []IInv
<1>1. Init => IInv
    BY ShapeInit, RegistryInit, TimelyInit, ExactInit, TallyInit DEF IInv
<1>2. IInv /\ [Next]_vars => IInv'
    <2> SUFFICES ASSUME IInv, [Next]_vars PROVE IInv'
        OBVIOUS
    <2>1. Shape'
        BY ShapeNext DEF IInv
    <2>2. Registry'
        BY <2>1, RegistryNext DEF IInv
    <2>3. Timely'
        BY <2>1, TimelyNext DEF IInv
    <2>4. Exact'
        BY ExactNext DEF IInv
    <2>5. Tally'
        BY <2>1, TallyNext DEF IInv
    <2>6. QED
        BY <2>1, <2>2, <2>3, <2>4, <2>5 DEF IInv
<1>3. QED
    BY <1>1, <1>2, PTL DEF Spec

(* Types: every value stays in its set and at most one request reads the    *)
(* board, for the mutex of the cache's entry.                               *)
THEOREM BoardsTypeCorrect == Spec => []BoardsTypeOK
<1>1. IInv => BoardsTypeOK
    BY ShapeIsTypeOK DEF IInv
<1>2. QED
    BY <1>1, Always, PTL

(* "Update the in-memory cache to match" (per_game_config.go:251): the      *)
(* registry holds its table's row when no registration is under way, and a  *)
(* registration answered with success has its board.                        *)
THEOREM RegistryHolds == Spec => []RegisteredIsLive
<1>1. IInv => RegisteredIsLive
    <2> SUFFICES ASSUME IInv PROVE RegisteredIsLive
        OBVIOUS
    <2>1. \A p \in Slots : proc[p].pc = "cache" => proc[p].op = "register"
        BY DEF IInv, Shape, Proper
    <2>2. QED
        BY <2>1 DEF IInv, Registry, RegisteredIsLive
<1>2. QED
    BY <1>1, Always, PTL

(* "How long a deletion made just before a Postgres outage could stay       *)
(* listed" (leaderboard_public.go:82-84): no answer names a player who was  *)
(* hidden for the life of a copy, or, when reads fail, for that of a stale  *)
(* one and the read that failed.                                            *)
THEOREM UnlistedHolds == Spec => UnlistedInTime
<1>1. IInv /\ IInv' /\ [Next]_vars =>
        [\A p \in Slots :
            At(p, "answer")' /\ ~At(p, "answer") /\ proc'[p].got =>
               \A i \in DOMAIN copy' :
                  LET u == copy'[i].player IN
                  hidden'[u] # "no" => hiddenAge'[u] < IF failAge' = None THEN TTL ELSE MaxAge]_vars
    BY AnswersInTime DEF IInv
<1>2. QED
    BY <1>1, Always, PTL DEF Spec, UnlistedInTime

(* "A finished match shows on the website, in the game, and in              *)
(* get_player_stats' rank on the next request"                              *)
(* (leaderboard_public.go:320-322): a copy of the present generation has    *)
(* the records, the order and the ranks of the board as it is now, and when *)
(* nobody was hidden, shown or erased since its read began, everyone it     *)
(* must list, whatever reads, writes, deletions and invalidations           *)
(* overlapped.  Only of a record that a deletion removed since the read     *)
(* began may it still have the score.                                       *)
THEOREM CurrentHolds == Spec => []CurrentIsExact
<1>1. IInv => CurrentIsExact
    BY ExactIsCurrent DEF IInv
<1>2. QED
    BY <1>1, Always, PTL

(* "History keys and leaderboard writes make the retry idempotent"          *)
(* (match_lifecycle.go:612): the scores of a match that ended with success  *)
(* are on the board, whatever calls failed, overlapped or were repeated and *)
(* whenever the runtime started again, until a deletion removes the         *)
(* player's record; a best score is one that a match reported, and a total  *)
(* counts each match at least once, and exactly once when no call was       *)
(* repeated.                                                                *)
THEOREM ResultsHold == Spec => []ResultsCounted
<1>1. IInv => ResultsCounted
    BY TallyIsCount DEF IInv
<1>2. QED
    BY <1>1, Always, PTL

=============================================================================
