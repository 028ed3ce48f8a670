---------------------------- MODULE RankingProofs ---------------------------
(***************************************************************************)
(* The popular menu list, for every set of menus and every count: it is    *)
(* sorted, holds the best, and the Java and the SQL ranking agree.         *)
(***************************************************************************)
EXTENDS Ranking, FiniteSetTheorems, TLAPS

USE TopNAssumption

-----------------------------------------------------------------------------
(* Sorting by the number of predecessors *)

\* s holds every element of S once, and no element before a smaller one.
Sorts(s, S, R) ==
    /\ s \in Seq(S) /\ Len(s) = Cardinality(S) /\ DOMAIN s = 1..Cardinality(S)
    /\ \A i, j \in DOMAIN s : i < j => <<s[i], s[j]>> \in R /\ s[i] # s[j]
    /\ \A e \in S : \E n \in DOMAIN s : s[n] = e

LEMMA SeqElements ==
    ASSUME NEW S, NEW s \in Seq(S)
    PROVE  Len(s) \in Nat /\ DOMAIN s = 1..Len(s) /\ \A n \in DOMAIN s : s[n] \in S
  OBVIOUS

LEMMA SeqOfLength ==
    ASSUME NEW S, NEW N \in Nat, NEW s \in [1..N -> S]
    PROVE  s \in Seq(S) /\ Len(s) = N
  OBVIOUS

\* R orders S totally.
TotallyOrders(R, S) ==
    /\ \A a \in S : <<a, a>> \notin R
    /\ \A a, b, c \in S : <<a, b>> \in R /\ <<b, c>> \in R => <<a, c>> \in R
    /\ \A a, b \in S : a # b => <<a, b>> \in R \/ <<b, a>> \in R

Below(S, R, e) == {f \in S : <<f, e>> \in R}

\* The number of predecessors tells the elements of S apart and takes every
\* value below Cardinality(S).
LEMMA RankFacts ==
    ASSUME NEW S, IsFiniteSet(S), NEW R, TotallyOrders(R, S)
    PROVE  /\ Cardinality(S) \in Nat
           /\ \A e \in S : Cardinality(Below(S, R, e)) \in 0..(Cardinality(S) - 1)
           /\ \A a, b \in S : <<a, b>> \in R =>
                 Cardinality(Below(S, R, a)) < Cardinality(Below(S, R, b))
           /\ \A a, b \in S : Cardinality(Below(S, R, a)) = Cardinality(Below(S, R, b)) => a = b
           /\ \A n \in 1..Cardinality(S) : \E e \in S : Cardinality(Below(S, R, e)) = n - 1
  <1> DEFINE N == Cardinality(S)
             rank == [e \in S |-> Cardinality(Below(S, R, e)) + 1]
  <1>0. N \in Nat
    BY FS_CardinalityType
  <1>1. \A e \in S : /\ Below(S, R, e) \in SUBSET S /\ e \notin Below(S, R, e)
                     /\ IsFiniteSet(Below(S, R, e))
    BY FS_Subset DEF Below, TotallyOrders
  <1>2. ASSUME NEW e \in S PROVE Cardinality(Below(S, R, e)) \in 0..(N - 1)
    <2>1. Below(S, R, e) \in SUBSET S /\ Below(S, R, e) # S /\ IsFiniteSet(Below(S, R, e))
      BY <1>1
    <2>2. Cardinality(Below(S, R, e)) <= N /\ Cardinality(Below(S, R, e)) # N
      BY <2>1, FS_Subset
    <2>3. Cardinality(Below(S, R, e)) \in Nat
      BY <2>1, FS_CardinalityType
    <2>. QED  BY <1>0, <2>2, <2>3
  <1>3. ASSUME NEW a \in S, NEW b \in S, <<a, b>> \in R
        PROVE  Cardinality(Below(S, R, a)) < Cardinality(Below(S, R, b))
    <2>1. Below(S, R, a) \in SUBSET Below(S, R, b) /\ a \in Below(S, R, b) /\ a \notin Below(S, R, a)
      BY <1>3 DEF Below, TotallyOrders
    <2>2. IsFiniteSet(Below(S, R, b))
      BY <1>1
    <2>3. /\ Cardinality(Below(S, R, a)) <= Cardinality(Below(S, R, b))
          /\ Cardinality(Below(S, R, b)) # Cardinality(Below(S, R, a))
      BY <2>1, <2>2, FS_Subset
    <2>. QED  BY <1>0, <1>2, <2>3
  <1>4. ASSUME NEW a \in S, NEW b \in S, Cardinality(Below(S, R, a)) = Cardinality(Below(S, R, b))
        PROVE  a = b
    <2>1. a # b => <<a, b>> \in R \/ <<b, a>> \in R
      BY DEF TotallyOrders
    <2>2. <<a, b>> \notin R /\ <<b, a>> \notin R
      BY <1>0, <1>2, <1>3, <1>4
    <2>. QED  BY <2>1, <2>2
  <1>5. rank \in Surjection(S, 1..N)
    <2>1. rank \in [S -> 1..N]
      BY <1>0, <1>2
    <2>2. \A a, b \in S : rank[a] = rank[b] => a = b
      BY <1>0, <1>2, <1>4
    <2>3. rank \in Injection(S, 1..N)
      BY <2>1, <2>2 DEF Injection, IsInjective
    <2>4. IsFiniteSet(1..N) /\ Cardinality(1..N) = N
      BY <1>0, FS_Interval
    <2> HIDE DEF rank
    <2>. QED  BY <2>3, <2>4, FS_Injection
  <1>6. ASSUME NEW n \in 1..N PROVE \E e \in S : Cardinality(Below(S, R, e)) = n - 1
    <2>1. PICK e \in S : rank[e] = n
      BY <1>5 DEF Surjection
    <2>2. Cardinality(Below(S, R, e)) + 1 = n
      BY <2>1
    <2>. QED  BY <1>0, <1>2, <2>2
  <1>. QED  BY <1>0, <1>2, <1>3, <1>4, <1>6

LEMMA RankExists ==
    ASSUME NEW S, IsFiniteSet(S), NEW R, TotallyOrders(R, S), NEW n \in 1..Cardinality(S)
    PROVE  \E e \in S : Cardinality(Below(S, R, e)) = n - 1
  BY RankFacts

\* Hence the sequence of them is what sorting gives: every element once, and
\* in order.
LEMMA SortFacts ==
    ASSUME NEW S, IsFiniteSet(S), NEW R, TotallyOrders(R, S),
           NEW s \in [1..Cardinality(S) -> S],
           \A n \in 1..Cardinality(S) : Cardinality(Below(S, R, s[n])) = n - 1
    PROVE  Sorts(s, S, R)
  <1> DEFINE N == Cardinality(S)
             r == [e \in S |-> Cardinality(Below(S, R, e))]
  <1>0. N \in Nat
    BY RankFacts
  <1>1. /\ \A e \in S : r[e] \in 0..(N - 1)
        /\ \A a, b \in S : <<a, b>> \in R => r[a] < r[b]
        /\ \A a, b \in S : r[a] = r[b] => a = b
        /\ \A n \in 1..N : \E e \in S : r[e] = n - 1
    BY RankFacts
  <1>2. DOMAIN s = 1..N /\ \A n \in 1..N : s[n] \in S /\ r[s[n]] = n - 1
    BY <1>1
  <1> HIDE DEF N, r
  <1>4. s \in Seq(S) /\ Len(s) = N
    BY <1>0, SeqOfLength DEF N
  <1>5. ASSUME NEW e \in S PROVE \E n \in DOMAIN s : s[n] = e
    <2>1. r[e] \in 0..(N - 1)
      BY <1>1
    <2>2. r[e] + 1 \in 1..N /\ (r[e] + 1) - 1 = r[e]
      BY <1>0, <2>1
    <2>3. s[r[e] + 1] \in S /\ r[s[r[e] + 1]] = r[e]
      BY <1>2, <2>2
    <2>. QED  BY <1>1, <1>2, <2>2, <2>3
  <1>6. ASSUME NEW i \in 1..N, NEW j \in 1..N, i < j PROVE <<s[i], s[j]>> \in R /\ s[i] # s[j]
    <2>1. s[i] \in S /\ s[j] \in S /\ r[s[i]] = i - 1 /\ r[s[j]] = j - 1
      BY <1>2
    <2>2. s[i] # s[j]
      BY <1>6, <2>1
    <2>3. ~(r[s[j]] < r[s[i]])
      BY <1>6, <2>1
    <2>4. <<s[j], s[i]>> \notin R
      BY <1>1, <2>1, <2>3
    <2>. QED  BY <2>1, <2>2, <2>4 DEF TotallyOrders
  <1>. QED  BY <1>0, <1>2, <1>4, <1>5, <1>6 DEF N, Sorts
-----------------------------------------------------------------------------
(* The list *)

Ordered(counts) == {m \in DOMAIN counts : counts[m] > 0}
Entries(counts) == {Entry(m, counts[m]) : m \in Ordered(counts)}
BeforeIn(S) == {p \in S \X S : Before(p[1], p[2])}

\* One entry for each menu that was ordered.
LEMMA EntriesFacts ==
    ASSUME NEW M \in SUBSET Nat, IsFiniteSet(M), NEW counts \in [M -> Nat]
    PROVE  /\ IsFiniteSet(Ordered(counts)) /\ IsFiniteSet(Entries(counts))
           /\ Cardinality(Entries(counts)) = Cardinality(Ordered(counts))
           /\ Cardinality(Ordered(counts)) \in Nat
           /\ \A e \in Entries(counts) : /\ e \in [menuId : M, orderCount : Nat]
                                        /\ e.menuId \in Ordered(counts)
                                        /\ e = Entry(e.menuId, counts[e.menuId])
           /\ \A m \in Ordered(counts) : Entry(m, counts[m]) \in Entries(counts)
  <1> DEFINE O == Ordered(counts)
             E == Entries(counts)
             f == [m \in O |-> Entry(m, counts[m])]
  <1>1. O \in SUBSET M /\ IsFiniteSet(O) /\ Cardinality(O) \in Nat
    BY FS_Subset, FS_CardinalityType DEF Ordered
  <1>2. \A e \in E : /\ e \in [menuId : M, orderCount : Nat] /\ e.menuId \in O
                     /\ e = Entry(e.menuId, counts[e.menuId])
    BY <1>1 DEF Entries, Entry
  <1>3. \A m \in O : Entry(m, counts[m]) \in E
    BY DEF Entries
  <1>4. f \in Bijection(O, E)
    <2>1. f \in [O -> E]
      BY <1>3
    <2>2. \A m, n \in O : f[m] = f[n] => m = n
      BY DEF Entry
    <2>3. \A e \in E : \E m \in O : f[m] = e
      BY <1>2
    <2> HIDE DEF f
    <2>. QED  BY <2>1, <2>2, <2>3 DEF Bijection, Injection, Surjection, IsInjective
  <1>5. ExistsBijection(O, E)
    BY <1>4 DEF ExistsBijection
  <1>6. IsFiniteSet(E) /\ Cardinality(E) = Cardinality(O)
    BY <1>1, <1>5, FS_Bijection
  <1>. QED  BY <1>1, <1>2, <1>3, <1>6

\* The comparator orders them totally, ties included.
LEMMA BeforeOrders ==
    ASSUME NEW M \in SUBSET Nat, IsFiniteSet(M), NEW counts \in [M -> Nat]
    PROVE  TotallyOrders(BeforeIn(Entries(counts)), Entries(counts))
  <1> DEFINE E == Entries(counts)
  <1>1. \A e \in E : e.menuId \in Nat /\ e.orderCount \in Nat /\ e = Entry(e.menuId, counts[e.menuId])
    BY EntriesFacts
  <1>2. \A a, b \in E : a.menuId = b.menuId => a = b
    BY <1>1
  <1>3. \A a, b \in E : <<a, b>> \in BeforeIn(E) <=> Before(a, b)
    BY DEF BeforeIn
  <1> HIDE DEF E
  <1>4. \A a \in E : ~Before(a, a)
    BY <1>1 DEF Before
  <1>5. \A a, b, c \in E : Before(a, b) /\ Before(b, c) => Before(a, c)
    BY <1>1 DEF Before
  <1>6. \A a, b \in E : a # b => Before(a, b) \/ Before(b, a)
    BY <1>1, <1>2 DEF Before
  <1>7. TotallyOrders(BeforeIn(E), E)
    BY <1>3, <1>4, <1>5, <1>6 DEF TotallyOrders
  <1>. QED  BY <1>7 DEF E

\* Sorted by the comparator: every entry once, and in order.
LEMMA SortedBefore ==
    ASSUME NEW S, IsFiniteSet(S), TotallyOrders(BeforeIn(S), S),
           NEW s, s = Sorted(S, Before)
    PROVE  Sorts(s, S, BeforeIn(S))
  <1> DEFINE at(n) == CHOOSE e \in S : Cardinality({f \in S : Before(f, e)}) = n - 1
  <1>1. s = [n \in 1..Cardinality(S) |-> at(n)]
    BY DEF Sorted
  <1>2. ASSUME NEW e \in S PROVE Below(S, BeforeIn(S), e) = {f \in S : Before(f, e)}
    BY DEF Below, BeforeIn
  <1>3. ASSUME NEW n \in 1..Cardinality(S)
        PROVE  at(n) \in S /\ Cardinality(Below(S, BeforeIn(S), at(n))) = n - 1
    <2>1. PICK e \in S : Cardinality(Below(S, BeforeIn(S), e)) = n - 1
      BY RankFacts
    <2>2. Cardinality({f \in S : Before(f, e)}) = n - 1
      BY <1>2, <2>1
    <2>3. at(n) \in S /\ Cardinality({f \in S : Before(f, at(n))}) = n - 1
      BY <2>2
    <2>. QED  BY <1>2, <2>3
  <1> HIDE DEF at
  <1>4. s \in [1..Cardinality(S) -> S]
    BY <1>1, <1>3
  <1>5. \A n \in 1..Cardinality(S) : Cardinality(Below(S, BeforeIn(S), s[n])) = n - 1
    BY <1>1, <1>3
  <1>. QED  BY <1>4, <1>5, SortFacts

LEMMA SortedEntries ==
    ASSUME NEW M \in SUBSET Nat, IsFiniteSet(M), NEW counts \in [M -> Nat],
           NEW s, s = Sorted(Entries(counts), Before)
    PROVE  Sorts(s, Entries(counts), BeforeIn(Entries(counts)))
  BY EntriesFacts, BeforeOrders, SortedBefore

\* The first of them, at most TopN.
LEMMA LimitFacts ==
    ASSUME NEW S, NEW s \in Seq(S)
    PROVE  /\ Limit(s) \in Seq(S)
           /\ Len(Limit(s)) = IF Len(s) < TopN THEN Len(s) ELSE TopN
           /\ \A n \in DOMAIN Limit(s) : n \in DOMAIN s /\ Limit(s)[n] = s[n]
           /\ \A n \in DOMAIN s : n \notin DOMAIN Limit(s) =>
                 \A i \in DOMAIN Limit(s) : i < n
  <1> DEFINE k == IF Len(s) < TopN THEN Len(s) ELSE TopN
  <1>1. k \in Nat /\ k <= Len(s) /\ Len(s) \in Nat
    OBVIOUS
  <1>2. Limit(s) = SubSeq(s, 1, k)
    BY DEF Limit
  <1>3. DOMAIN s = 1..Len(s)
    OBVIOUS
  <1> HIDE DEF k
  <1>4. SubSeq(s, 1, k) \in Seq(S) /\ Len(SubSeq(s, 1, k)) = k
        /\ \A n \in 1..k : SubSeq(s, 1, k)[n] = s[n]
    BY <1>1
  <1>5. DOMAIN Limit(s) = 1..k
    BY <1>2, <1>4
  <1>. QED  BY <1>1, <1>2, <1>3, <1>4, <1>5 DEF k

\* The list that the service makes of the counts it read from Redis holds the
\* TopN best of the menus that were ordered, in order, ties in id order
\* (getFromRedis: filter, sorted, limit).
THEOREM RedisRanking ==
    ASSUME NEW M \in SUBSET Nat, IsFiniteSet(M), NEW counts \in [M -> Nat]
    PROVE  /\ IsRanking(PopularFromCounts(counts), counts)
           /\ PopularFromCounts(counts) \in Seq([menuId : M, orderCount : Nat])
  <1> DEFINE E == Entries(counts)
             O == Ordered(counts)
             s == Sorted(E, Before)
             list == Limit(s)
  <1>1. PopularFromCounts(counts) = list
    BY DEF PopularFromCounts, Entries, Ordered
  <1>2. /\ IsFiniteSet(O) /\ Cardinality(O) \in Nat
        /\ \A e \in E : /\ e \in [menuId : M, orderCount : Nat]
                       /\ e.menuId \in O
                       /\ e = Entry(e.menuId, counts[e.menuId])
        /\ \A m \in O : Entry(m, counts[m]) \in E
    BY EntriesFacts
  <1>3. /\ s \in Seq(E) /\ Len(s) = Cardinality(O)
        /\ \A i, j \in DOMAIN s : i < j => Before(s[i], s[j]) /\ s[i] # s[j]
        /\ \A e \in E : \E n \in DOMAIN s : s[n] = e
    <2>1. Sorts(s, E, BeforeIn(E)) /\ Cardinality(E) = Cardinality(O)
      BY SortedEntries, EntriesFacts
    <2> HIDE DEF s, E
    <2>. QED  BY <2>1 DEF Sorts, BeforeIn
  <1> HIDE DEF s
  <1>4. /\ list \in Seq(E)
        /\ Len(list) = IF Cardinality(O) < TopN THEN Cardinality(O) ELSE TopN
        /\ \A n \in DOMAIN list : n \in DOMAIN s /\ list[n] = s[n]
        /\ \A n \in DOMAIN s : n \notin DOMAIN list => \A i \in DOMAIN list : i < n
    BY <1>3, LimitFacts
  <1> HIDE DEF list, E, O
  <1>5. \A n \in DOMAIN list : list[n] \in E
    BY <1>4
  <1>6. \A n \in DOMAIN list : /\ list[n].menuId \in O
                              /\ list[n].orderCount = counts[list[n].menuId]
    BY <1>2, <1>5 DEF Entry
  <1>7. \A i, j \in DOMAIN list : i < j => Before(list[i], list[j])
    BY <1>3, <1>4
  <1>8. \A i, j \in DOMAIN list : i < j => Better(list[i].menuId, list[j].menuId, counts)
    BY <1>6, <1>7 DEF Before, Better
  <1>9. ASSUME NEW i \in DOMAIN list, NEW n \in O, \A j \in DOMAIN list : list[j].menuId # n
        PROVE  Better(list[i].menuId, n, counts)
    <2> DEFINE e == Entry(n, counts[n])
    <2>1. e \in E /\ e.menuId = n /\ e.orderCount = counts[n]
      BY <1>2 DEF Entry
    <2> HIDE DEF e
    <2>2. PICK j \in DOMAIN s : s[j] = e
      BY <1>3, <2>1
    <2>3. j \notin DOMAIN list
      BY <1>4, <1>9, <2>1, <2>2
    <2>4. i < j /\ i \in DOMAIN s /\ list[i] = s[i]
      BY <1>4, <2>3
    <2>5. Before(list[i], e)
      BY <1>3, <2>2, <2>4
    <2>. QED  BY <1>6, <2>1, <2>5 DEF Before, Better
  <1>10. IsRanking(list, counts)
    BY <1>4, <1>6, <1>8, <1>9 DEF IsRanking, O, Ordered
  <1>11. list \in Seq([menuId : M, orderCount : Nat])
    <2>1. DOMAIN list = 1..Len(list) /\ Len(list) \in Nat
      BY <1>4
    <2>2. list \in [1..Len(list) -> [menuId : M, orderCount : Nat]]
      BY <1>2, <1>4, <1>5, <2>1
    <2>. QED  BY <2>1, <2>2, SeqOfLength
  <1>. QED  BY <1>1, <1>10, <1>11

\* A list that is not cut off misses no menu that was ordered, and a list is
\* empty only when none was.
LEMMA ShortLists ==
    ASSUME NEW M, IsFiniteSet(M), NEW counts \in [M -> Nat], M \in SUBSET Nat,
           NEW list \in Seq([menuId : M, orderCount : Nat]), IsRanking(list, counts)
    PROVE  /\ Len(list) # TopN =>
                 \A m \in Ordered(counts) : \E e \in DOMAIN list : list[e].menuId = m
           /\ list = <<>> => Ordered(counts) = {}
  <1> DEFINE f == [e \in 1..Len(list) |-> list[e].menuId]
  <1>1. /\ Len(list) \in Nat /\ DOMAIN list = 1..Len(list)
        /\ \A e \in DOMAIN list : list[e].menuId \in M
    <2>1. \A e \in DOMAIN list : list[e] \in [menuId : M, orderCount : Nat]
      BY SeqElements
    <2>. QED  BY <2>1
  <1>2. IsFiniteSet(Ordered(counts)) /\ Cardinality(Ordered(counts)) \in Nat
    BY EntriesFacts
  <1>3. /\ \A e \in DOMAIN list : list[e].menuId \in Ordered(counts)
        /\ Len(list) = IF Cardinality(Ordered(counts)) < TopN THEN Cardinality(Ordered(counts)) ELSE TopN
        /\ \A i, j \in DOMAIN list : i < j => Better(list[i].menuId, list[j].menuId, counts)
    BY DEF IsRanking, Ordered
  <1>4. ASSUME Len(list) # TopN, NEW m \in Ordered(counts)
        PROVE  \E e \in DOMAIN list : list[e].menuId = m
    <2>1. Len(list) = Cardinality(Ordered(counts))
      BY <1>2, <1>3, <1>4
    <2>2. \A i, j \in DOMAIN list : i < j => list[i].menuId # list[j].menuId
      <3>1. \A m1, n1 \in M : Better(m1, n1, counts) => m1 # n1
        BY DEF Better
      <3>. QED  BY <1>1, <1>3, <3>1
    <2>3. ASSUME NEW i \in 1..Len(list), NEW j \in 1..Len(list), f[i] = f[j] PROVE i = j
      <3>1. list[i].menuId = list[j].menuId
        BY <2>3
      <3>2. ~(i < j) /\ ~(j < i)
        BY <1>1, <2>2, <3>1
      <3>. QED  BY <3>2
    <2>4. f \in Injection(1..Len(list), Ordered(counts))
      <3>1. f \in [1..Len(list) -> Ordered(counts)] /\ DOMAIN f = 1..Len(list)
        BY <1>1, <1>3
      <3> HIDE DEF f
      <3>. QED  BY <2>3, <3>1 DEF Injection, IsInjective
    <2> HIDE DEF f
    <2>5. Cardinality(1..Len(list)) = Len(list)
      <3> DEFINE n == Len(list)
      <3>1. n \in Nat
        BY <1>1
      <3> HIDE DEF n
      <3>2. Cardinality(1..n) = n
        BY <3>1, FS_Interval
      <3>. QED  BY <3>2 DEF n
    <2>6. f \in Surjection(1..Len(list), Ordered(counts))
      BY <1>2, <2>1, <2>4, <2>5, FS_Injection
    <2>7. PICK e \in 1..Len(list) : f[e] = m
      BY <1>4, <2>6 DEF Surjection
    <2>. QED  BY <1>1, <2>7 DEF f
  <1>5. ASSUME list = <<>> PROVE Ordered(counts) = {}
    <2>1. Cardinality(Ordered(counts)) = 0
      BY <1>2, <1>3, <1>5
    <2>. QED  BY <1>2, <2>1, FS_EmptySet
  <1>. QED  BY <1>4, <1>5

\* The fallback gives the same list: on rows that have the same number of
\* orders for each menu in the window, the SQL query ranks as the service does
\* (findPopularMenus: GROUP BY, ORDER BY, LIMIT).
THEOREM DatabaseRanking ==
    ASSUME NEW M \in SUBSET Nat, NEW rows, NEW from, NEW to
    PROVE  FindPopularMenus(rows, M, from, to)
             = PopularFromCounts([m \in M |-> CountInWindow(rows, m, from, to)])
  <1> DEFINE counts == [m \in M |-> CountInWindow(rows, m, from, to)]
             S == {Entry(m, CountInWindow(rows, m, from, to)) :
                     m \in {n \in M : CountInWindow(rows, n, from, to) > 0}}
  <1>1. S = {Entry(m, counts[m]) : m \in {n \in DOMAIN counts : counts[n] > 0}}
    OBVIOUS
  <1>2. Sorted(S, SqlBefore) = Sorted(S, Before)
    BY DEF Sorted, SqlBefore, Before
  <1>. QED  BY <1>1, <1>2 DEF FindPopularMenus, PopularFromCounts
=============================================================================
