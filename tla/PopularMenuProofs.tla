-------------------------- MODULE PopularMenuProofs -------------------------
(***************************************************************************)
(* The popular menu query and its read model, for every number of          *)
(* instances, menus, orders and queries and every length of the window and *)
(* the list.                                                               *)
(*                                                                         *)
(* What a query or an answer must satisfy depends on the orders and on the *)
(* sorted sets only.  It is stated here as a predicate of those two, and   *)
(* lasts while orders are added or advance and sorted sets grow (Grow).    *)
(***************************************************************************)
EXTENDS PopularMenu, RankingProofs

USE PopularMenuAssumption

CommittedIn(ords) == {k \in DOMAIN ords : ords[k].state \in {"pending", "settled"}}
SettledIn(ords) == {k \in DOMAIN ords : ords[k].state = "settled"}
Win(ords, ids, m, to) ==
    {k \in ids : ords[k].menu = m /\ to - Window <= ords[k].at /\ ords[k].at < to}
RecordedIn(ords, zs, q) ==
    {k \in q.base \ q.unsettled : \E z \in zs[ords[k].menu] : z.id = k}

\* What ZsetsHoldCommitted says of sets zs and orders ords.
Holds(ords, zs) ==
    \A m \in Menu : \A z \in zs[m] :
        z.id \in SettledIn(ords) /\ ords[z.id].menu = m /\ ords[z.id].at = z.score

\* The snapshot of a query or an answer.
Snapshot(ords, q) == q.base \subseteq CommittedIn(ords) /\ q.base \ q.unsettled \subseteq SettledIn(ords)

AtMost(ords, q, m, n) == n <= Cardinality(Win(ords, CommittedIn(ords), m, q.to))
AtLeast(ords, zs, q, m, n) == n >= Cardinality(Win(ords, RecordedIn(ords, zs, q), m, q.to))

GoodQuery(ords, zs, q) ==
    /\ Snapshot(ords, q)
    /\ \A m \in Menu : AtMost(ords, q, m, q.counts[m])
    /\ \A n \in 1..Cardinality(Menu) :
          n <= q.next => AtLeast(ords, zs, q, MenuAt(n), q.counts[MenuAt(n)])

GoodAnswer(ords, zs, a) ==
    /\ Snapshot(ords, a)
    /\ \A m \in Menu : AtMost(ords, a, m, CountIn(a.list, m))
    /\ a.source = "redis" =>
          \A m \in Menu :
             \/ AtLeast(ords, zs, a, m, CountIn(a.list, m))
             \/ /\ Len(a.list) = TopN
                /\ \A e \in DOMAIN a.list : AtLeast(ords, zs, a, m, a.list[e].orderCount)
    /\ a.source # "none" /\ a.list = <<>> =>
          \A m \in Menu : Win(ords, a.base, m, a.to) = {}

\* Orders advance or are added, sorted sets get orders that had not been
\* settled before.
Grow(ords, zs, ords2, zs2) ==
    /\ DOMAIN ords \subseteq DOMAIN ords2
    /\ \A k \in DOMAIN ords : ords2[k].menu = ords[k].menu /\ ords2[k].at = ords[k].at
    /\ CommittedIn(ords) \subseteq CommittedIn(ords2)
    /\ SettledIn(ords) \subseteq SettledIn(ords2)
    /\ \A m \in Menu : /\ zs[m] \subseteq zs2[m]
                       /\ \A z \in zs2[m] : z \in zs[m] \/ z.id \notin SettledIn(ords)

-----------------------------------------------------------------------------
(* Counting *)

LEMMA FinitelyManyOrders ==
    ASSUME NEW ords \in Seq(Row), NEW ids \in SUBSET DOMAIN ords, NEW m, NEW to
    PROVE  /\ IsFiniteSet(ids) /\ IsFiniteSet(Win(ords, ids, m, to))
           /\ Cardinality(Win(ords, ids, m, to)) \in Nat
  <1>1. Len(ords) \in Nat /\ DOMAIN ords = 1..Len(ords)
    OBVIOUS
  <1>2. IsFiniteSet(DOMAIN ords)
    BY <1>1, FS_Interval
  <1>3. IsFiniteSet(ids) /\ Win(ords, ids, m, to) \in SUBSET ids
    BY <1>2, FS_Subset DEF Win
  <1>. QED  BY <1>3, FS_Subset, FS_CardinalityType

LEMMA WindowGrows ==
    ASSUME NEW ords \in Seq(Row), NEW more \in SUBSET DOMAIN ords, NEW ids \in SUBSET more, NEW m, NEW to
    PROVE  Cardinality(Win(ords, ids, m, to)) <= Cardinality(Win(ords, more, m, to))
  <1>1. Win(ords, ids, m, to) \in SUBSET Win(ords, more, m, to)
    BY DEF Win
  <1>. QED  BY <1>1, FinitelyManyOrders, FS_Subset

\* ZCOUNT from (to - 1) counts orders of the window, each once: a member has
\* the id and the time of an order, and no order is in a set twice.
LEMMA ZcountFacts ==
    ASSUME TypeOK, Holds(orders, zset), NEW m \in Menu, NEW q, q.to \in Int,
           q.base \subseteq CommittedIn(orders)
    PROVE  /\ Zcount(m, From(q), q.to - 1) \in Nat
           /\ AtMost(orders, q, m, Zcount(m, From(q), q.to - 1))
           /\ AtLeast(orders, zset, q, m, Zcount(m, From(q), q.to - 1))
  <1> DEFINE counted == {z \in zset[m] : From(q) <= z.score /\ z.score <= q.to - 1}
             all == Win(orders, CommittedIn(orders), m, q.to)
             recorded == Win(orders, RecordedIn(orders, zset, q), m, q.to)
             idOf == [z \in counted |-> z.id]
             memberOf == [k \in recorded |-> [id |-> k, score |-> orders[k].at]]
  <1>1. /\ orders \in Seq(Row) /\ Window \in Int /\ zset[m] \in SUBSET Member
        /\ CommittedIn(orders) \in SUBSET DOMAIN orders
        /\ RecordedIn(orders, zset, q) \in SUBSET DOMAIN orders
        /\ \A k \in DOMAIN orders : orders[k] \in Row
    <2>1. orders \in Seq(Row) /\ Window \in Int /\ zset[m] \in SUBSET Member
      BY DEF TypeOK
    <2>2. \A k \in DOMAIN orders : orders[k] \in Row
      BY <2>1
    <2>3. CommittedIn(orders) \in SUBSET DOMAIN orders
      BY DEF CommittedIn
    <2>4. RecordedIn(orders, zset, q) \in SUBSET DOMAIN orders
      BY <2>3 DEF RecordedIn
    <2>. QED  BY <2>1, <2>2, <2>3, <2>4
  <1>2. IsFiniteSet(all) /\ IsFiniteSet(recorded)
    BY <1>1, FinitelyManyOrders
  <1>3. idOf \in Injection(counted, all)
    <2>1. ASSUME NEW z \in counted PROVE z.id \in all
      BY <1>1 DEF Holds, SettledIn, CommittedIn, Win, From, Member
    <2>2. ASSUME NEW y \in counted, NEW z \in counted, y.id = z.id PROVE y = z
      <3>1. y \in Member /\ z \in Member /\ y.score = z.score
        BY <1>1, <2>2 DEF Holds
      <3>. QED  BY <2>2, <3>1 DEF Member
    <2> HIDE DEF counted, all
    <2>. QED  BY <2>1, <2>2 DEF Injection, IsInjective
  <1>4. memberOf \in Injection(recorded, counted)
    <2>1. ASSUME NEW k \in recorded PROVE [id |-> k, score |-> orders[k].at] \in counted
      <3>1. /\ k \in DOMAIN orders /\ orders[k].menu = m /\ orders[k].at \in Nat
            /\ q.to - Window <= orders[k].at /\ orders[k].at < q.to
        BY <1>1 DEF Win, Row
      <3>2. PICK z \in zset[m] : z.id = k
        BY <3>1 DEF Win, RecordedIn
      <3>3. z \in Member /\ z.score = orders[k].at
        BY <1>1, <3>2 DEF Holds
      <3>4. z = [id |-> k, score |-> orders[k].at]
        BY <3>2, <3>3 DEF Member
      <3>. QED  BY <3>1, <3>2, <3>3, <3>4 DEF From
    <2> HIDE DEF counted, recorded
    <2>. QED  BY <2>1 DEF Injection, IsInjective
  <1> HIDE DEF counted, all, recorded, idOf, memberOf
  <1>5. IsFiniteSet(counted) /\ Cardinality(counted) <= Cardinality(all)
    BY <1>2, <1>3, FS_Injection
  <1>6. Cardinality(recorded) <= Cardinality(counted)
    BY <1>4, <1>5, FS_Injection
  <1>7. Cardinality(counted) \in Nat /\ Cardinality(recorded) \in Nat
    BY <1>2, <1>5, FS_CardinalityType
  <1>8. Zcount(m, From(q), q.to - 1) = Cardinality(counted)
    BY DEF Zcount, counted
  <1>. QED  BY <1>5, <1>6, <1>7, <1>8 DEF AtMost, AtLeast, all, recorded

\* The rows of a menu in the window that the SQL query counts are the orders of
\* its snapshot.
LEMMA RowsFacts ==
    ASSUME TypeOK, NEW ids \in SUBSET OrderIds, NEW m \in Menu, NEW to \in Int
    PROVE  CountInWindow(Rows(ids), m, to - Window, to) = Cardinality(Win(orders, ids, m, to))
  <1> DEFINE row(k) == [id |-> k, menu |-> orders[k].menu, at |-> orders[k].at]
             win == Win(orders, ids, m, to)
             rows == {r \in Rows(ids) : r.menu = m /\ to - Window <= r.at /\ r.at < to}
             f == [k \in win |-> row(k)]
  <1>1. IsFiniteSet(win)
    BY FinitelyManyOrders DEF TypeOK, OrderIds
  <1>2. ASSUME NEW k \in win PROVE row(k) \in rows
    BY DEF Win, Rows
  <1>3. ASSUME NEW r \in rows PROVE \E k \in win : row(k) = r
    <2>1. PICK k \in ids : r = row(k)
      BY DEF Rows
    <2>2. k \in win
      BY <2>1 DEF Win
    <2>. QED  BY <2>1, <2>2
  <1>4. \A j, k \in win : row(j) = row(k) => j = k
    OBVIOUS
  <1> HIDE DEF row, win, rows
  <1>5. f \in Bijection(win, rows)
    BY <1>2, <1>3, <1>4 DEF Bijection, Injection, Surjection, IsInjective
  <1>6. Cardinality(rows) = Cardinality(win)
    BY <1>1, <1>5, FS_Bijection DEF ExistsBijection
  <1>. QED  BY <1>6 DEF CountInWindow, rows, win

-----------------------------------------------------------------------------
(* What lasts *)

\* The window over orders that were there does not change.
LEMMA WinStays ==
    ASSUME NEW ords, NEW zs, NEW ords2, NEW zs2, Grow(ords, zs, ords2, zs2),
           NEW ids \in SUBSET DOMAIN ords, NEW m, NEW to
    PROVE  Win(ords2, ids, m, to) = Win(ords, ids, m, to)
  BY DEF Grow, Win

\* Neither do the orders recorded before a query started.
LEMMA RecordedStays ==
    ASSUME NEW ords \in Seq(Row), NEW zs, NEW ords2, NEW zs2, Grow(ords, zs, ords2, zs2),
           NEW q, Snapshot(ords, q)
    PROVE  RecordedIn(ords2, zs2, q) = RecordedIn(ords, zs, q)
  <1>1. ASSUME NEW k \in q.base \ q.unsettled
        PROVE  (\E z \in zs2[ords2[k].menu] : z.id = k) <=> (\E z \in zs[ords[k].menu] : z.id = k)
    <2>1. k \in SettledIn(ords) /\ k \in DOMAIN ords
      BY DEF Snapshot, SettledIn
    <2>2. ords[k].menu \in Menu /\ ords2[k].menu = ords[k].menu
      <3>1. ords[k] \in Row
        BY <2>1
      <3>. QED  BY <2>1, <3>1 DEF Grow, Row
    <2>. QED  BY <2>1, <2>2 DEF Grow
  <1>. QED  BY <1>1 DEF RecordedIn

LEMMA SnapshotStays ==
    ASSUME NEW ords \in Seq(Row), NEW zs, NEW ords2 \in Seq(Row), NEW zs2, Grow(ords, zs, ords2, zs2),
           NEW q, Snapshot(ords, q)
    PROVE  Snapshot(ords2, q) /\ q.base \in SUBSET DOMAIN ords
  BY DEF Snapshot, Grow, CommittedIn

LEMMA AtMostStays ==
    ASSUME NEW ords \in Seq(Row), NEW zs, NEW ords2 \in Seq(Row), NEW zs2, Grow(ords, zs, ords2, zs2),
           NEW q, NEW m, NEW n \in Int, AtMost(ords, q, m, n)
    PROVE  AtMost(ords2, q, m, n)
  <1> DEFINE old == CommittedIn(ords)
             new == CommittedIn(ords2)
  <1>1. old \in SUBSET DOMAIN ords /\ old \in SUBSET new /\ new \in SUBSET DOMAIN ords2
    BY DEF Grow, CommittedIn
  <1> HIDE DEF old, new
  <1>2. Win(ords2, old, m, q.to) = Win(ords, old, m, q.to)
    BY <1>1, WinStays
  <1>3. Cardinality(Win(ords2, old, m, q.to)) <= Cardinality(Win(ords2, new, m, q.to))
    BY <1>1, WindowGrows
  <1>4. /\ Cardinality(Win(ords2, new, m, q.to)) \in Nat
        /\ Cardinality(Win(ords, old, m, q.to)) \in Nat
    BY <1>1, FinitelyManyOrders
  <1>5. n <= Cardinality(Win(ords, old, m, q.to))
    BY DEF AtMost, old
  <1> DEFINE before == Cardinality(Win(ords, old, m, q.to))
             after == Cardinality(Win(ords2, new, m, q.to))
  <1>6. before \in Nat /\ after \in Nat /\ before <= after /\ n <= before
    BY <1>2, <1>3, <1>4, <1>5
  <1> HIDE DEF before, after
  <1>7. n <= after
    BY <1>6
  <1>. QED  BY <1>7, Zenon DEF AtMost, after, new

LEMMA AtLeastStays ==
    ASSUME NEW ords \in Seq(Row), NEW zs, NEW ords2 \in Seq(Row), NEW zs2, Grow(ords, zs, ords2, zs2),
           NEW q, Snapshot(ords, q), NEW m, NEW n, AtLeast(ords, zs, q, m, n)
    PROVE  AtLeast(ords2, zs2, q, m, n)
  <1> DEFINE rec == RecordedIn(ords, zs, q)
  <1>1. rec \in SUBSET DOMAIN ords /\ RecordedIn(ords2, zs2, q) = rec
    <2>1. RecordedIn(ords2, zs2, q) = rec
      BY RecordedStays
    <2>2. rec \in SUBSET DOMAIN ords
      BY DEF Snapshot, SettledIn, RecordedIn
    <2>. QED  BY <2>1, <2>2
  <1> HIDE DEF rec
  <1>2. Win(ords2, rec, m, q.to) = Win(ords, rec, m, q.to)
    BY <1>1, WinStays
  <1>. QED  BY <1>1, <1>2 DEF AtLeast, rec

LEMMA CountInFacts ==
    ASSUME NEW list \in Seq([menuId : Menu, orderCount : Nat]), NEW m
    PROVE  /\ CountIn(list, m) \in Nat
           /\ \A e \in DOMAIN list : list[e].orderCount \in Nat
           /\ IF \E e \in DOMAIN list : list[e].menuId = m
                THEN \E e \in DOMAIN list : list[e].menuId = m /\ CountIn(list, m) = list[e].orderCount
                ELSE CountIn(list, m) = 0
  <1>1. \A e \in DOMAIN list : list[e] \in [menuId : Menu, orderCount : Nat]
    BY SeqElements
  <1>2. CASE \E e \in DOMAIN list : list[e].menuId = m
    <2> DEFINE first == CHOOSE e \in DOMAIN list : list[e].menuId = m
    <2>1. first \in DOMAIN list /\ list[first].menuId = m
      BY <1>2
    <2>2. CountIn(list, m) = list[first].orderCount
      BY <1>2 DEF CountIn
    <2> HIDE DEF first
    <2>. QED  BY <1>1, <2>1, <2>2
  <1>3. CASE ~\E e \in DOMAIN list : list[e].menuId = m
    BY <1>1, <1>3 DEF CountIn
  <1>. QED  BY <1>2, <1>3

LEMMA GoodQueryStays ==
    ASSUME NEW ords \in Seq(Row), NEW zs, NEW ords2 \in Seq(Row), NEW zs2, Grow(ords, zs, ords2, zs2),
           NEW q \in Query, GoodQuery(ords, zs, q),
           \A n \in 1..Cardinality(Menu) : MenuAt(n) \in Menu
    PROVE  GoodQuery(ords2, zs2, q)
  <1>1. Snapshot(ords, q) /\ q.counts \in [Menu -> Nat]
    BY DEF GoodQuery, Query
  <1>2. \A m \in Menu : q.counts[m] \in Int
    BY <1>1
  <1>3. Snapshot(ords2, q)
    BY <1>1, SnapshotStays
  <1>4. ASSUME NEW m \in Menu PROVE AtMost(ords2, q, m, q.counts[m])
    BY <1>2, AtMostStays DEF GoodQuery
  <1>5. ASSUME NEW n \in 1..Cardinality(Menu), n <= q.next
        PROVE  AtLeast(ords2, zs2, q, MenuAt(n), q.counts[MenuAt(n)])
    <2>1. AtLeast(ords, zs, q, MenuAt(n), q.counts[MenuAt(n)])
      BY <1>5 DEF GoodQuery
    <2>. QED  BY <1>1, <2>1, AtLeastStays
  <1>. QED  BY <1>3, <1>4, <1>5 DEF GoodQuery

LEMMA GoodAnswerStays ==
    ASSUME NEW ords \in Seq(Row), NEW zs, NEW ords2 \in Seq(Row), NEW zs2, Grow(ords, zs, ords2, zs2),
           NEW a \in Answer, GoodAnswer(ords, zs, a)
    PROVE  GoodAnswer(ords2, zs2, a)
  <1>1. Snapshot(ords, a) /\ a.list \in Seq([menuId : Menu, orderCount : Nat])
    BY DEF GoodAnswer, Answer
  <1>2. /\ \A m : CountIn(a.list, m) \in Int
        /\ \A e \in DOMAIN a.list : a.list[e].orderCount \in Int
    <2>1. ASSUME NEW m PROVE CountIn(a.list, m) \in Nat
      BY <1>1, CountInFacts
    <2>2. \A e \in DOMAIN a.list : a.list[e].orderCount \in Nat
      BY <1>1, CountInFacts
    <2>. QED  BY <2>1, <2>2
  <1>3. Snapshot(ords2, a)
    BY <1>1, SnapshotStays
  <1>4. ASSUME NEW m \in Menu PROVE AtMost(ords2, a, m, CountIn(a.list, m))
    BY <1>2, AtMostStays DEF GoodAnswer
  <1>5. ASSUME a.source = "redis", NEW m \in Menu
        PROVE  \/ AtLeast(ords2, zs2, a, m, CountIn(a.list, m))
               \/ /\ Len(a.list) = TopN
                  /\ \A e \in DOMAIN a.list : AtLeast(ords2, zs2, a, m, a.list[e].orderCount)
    <2>1. CASE AtLeast(ords, zs, a, m, CountIn(a.list, m))
      BY <1>1, <2>1, AtLeastStays
    <2>2. CASE /\ Len(a.list) = TopN
               /\ \A e \in DOMAIN a.list : AtLeast(ords, zs, a, m, a.list[e].orderCount)
      BY <1>1, <2>2, AtLeastStays
    <2>. QED  BY <1>5, <2>1, <2>2 DEF GoodAnswer
  <1>6. ASSUME a.source # "none", a.list = <<>>, NEW m \in Menu PROVE Win(ords2, a.base, m, a.to) = {}
    <2>1. Win(ords, a.base, m, a.to) = {}
      BY <1>6 DEF GoodAnswer
    <2>2. a.base \in SUBSET DOMAIN ords
      BY <1>1, SnapshotStays
    <2>. QED  BY <2>1, <2>2, WinStays
  <1>. QED  BY <1>3, <1>4, <1>5, <1>6 DEF GoodAnswer

-----------------------------------------------------------------------------
(* Answers *)

\* The loop of countByMenuIds gets to every menu.
LEMMA EveryMenuHasATurn ==
    /\ Cardinality(Menu) \in Nat
    /\ \A n \in 1..Cardinality(Menu) : MenuAt(n) \in Menu
    /\ \A m \in Menu : \E n \in 1..Cardinality(Menu) : MenuAt(n) = m
  <1> DEFINE R == {p \in Menu \X Menu : p[1] < p[2]}
             at(n) == CHOOSE e \in Menu : Cardinality({f \in Menu : f < e}) = n - 1
             s == [n \in 1..Cardinality(Menu) |-> at(n)]
  <1>1. Cardinality(Menu) \in Nat
    BY FS_CardinalityType
  <1>2. TotallyOrders(R, Menu)
    BY DEF TotallyOrders
  <1>3. ASSUME NEW e \in Menu PROVE Below(Menu, R, e) = {f \in Menu : f < e}
    BY DEF Below
  <1>4. \A n \in 1..Cardinality(Menu) : MenuAt(n) = at(n)
    BY DEF MenuAt, Sorted
  <1> HIDE DEF R
  <1>5. ASSUME NEW n \in 1..Cardinality(Menu)
        PROVE  at(n) \in Menu /\ Cardinality(Below(Menu, R, at(n))) = n - 1
    <2>1. PICK e \in Menu : Cardinality(Below(Menu, R, e)) = n - 1
      <3>1. IsFiniteSet(Menu)
        OBVIOUS
      <3>. QED  BY <1>2, <3>1, RankExists
    <2>2. Cardinality({f \in Menu : f < e}) = n - 1
      BY <1>3, <2>1
    <2>3. at(n) \in Menu /\ Cardinality({f \in Menu : f < at(n)}) = n - 1
      BY <2>2
    <2>. QED  BY <1>3, <2>3
  <1> HIDE DEF at
  <1>6. s \in [1..Cardinality(Menu) -> Menu]
    BY <1>5
  <1>7. \A n \in 1..Cardinality(Menu) : Cardinality(Below(Menu, R, s[n])) = n - 1
    BY <1>5
  <1>8. \A n \in 1..Cardinality(Menu) : s[n] = at(n)
    OBVIOUS
  <1> HIDE DEF s
  <1>9. Sorts(s, Menu, R)
    BY <1>2, <1>6, <1>7, SortFacts
  <1>10. \A m \in Menu : \E n \in 1..Cardinality(Menu) : s[n] = m
    BY <1>9 DEF Sorts
  <1>. QED  BY <1>1, <1>4, <1>5, <1>8, <1>10

\* An answer takes over what its query held.
Takes(a, q, list) ==
    /\ a.list = list /\ a.to = q.to /\ a.base = q.base
    /\ a.unsettled = q.unsettled /\ a.failedBefore = q.failedBefore

LEMMA AnsweredFacts ==
    ASSUME TypeOK, NEW q \in Query, NEW source \in {"none", "redis", "mysql"},
           NEW list \in Seq([menuId : Menu, orderCount : Nat]), Snapshot(orders, q),
           NEW a, a = Answered(source, q, list)
    PROVE  a \in Answer /\ a.source = source /\ Takes(a, q, list) /\ Snapshot(orders, a)
  <1>1. Committed \in SUBSET Nat
    <2>1. Len(orders) \in Nat /\ DOMAIN orders = 1..Len(orders)
      BY SeqElements DEF TypeOK
    <2>. QED  BY <2>1 DEF Committed, OrderIds
  <1>2. /\ a.source = source /\ a.list = list /\ a.to = q.to /\ a.base = q.base
        /\ a.unsettled = q.unsettled /\ a.failedBefore = q.failedBefore
    BY DEF Answered
  <1>3. a \in Answer
    BY <1>1 DEF Answered, Answer, Query
  <1>4. Snapshot(orders, a)
    BY <1>2 DEF Snapshot
  <1>. QED  BY <1>2, <1>3, <1>4 DEF Takes

LEMMA SameCounts ==
    ASSUME NEW a, NEW q, a.to = q.to, a.base = q.base, a.unsettled = q.unsettled, NEW m, NEW n
    PROVE  /\ AtMost(orders, q, m, n) => AtMost(orders, a, m, n)
           /\ AtLeast(orders, zset, q, m, n) => AtLeast(orders, zset, a, m, n)
  <1>1. RecordedIn(orders, zset, a) = RecordedIn(orders, zset, q)
    BY DEF RecordedIn
  <1>. QED  BY <1>1 DEF AtMost, AtLeast

\* getFromRedis: when every menu has been counted and one of them was ordered.
LEMMA RedisAnswer ==
    ASSUME TypeOK, NEW r \in Query, GoodQuery(orders, zset, r), r.next >= Cardinality(Menu),
           NEW c \in Menu, r.counts[c] # 0,
           NEW a, a = Answered("redis", r, PopularFromCounts(r.counts))
    PROVE  a \in Answer /\ GoodAnswer(orders, zset, a)
  <1> DEFINE counts == r.counts
             list == PopularFromCounts(r.counts)
  <1>1. /\ counts \in [Menu -> Nat] /\ r.next \in Nat /\ Snapshot(orders, r)
        /\ Menu \in SUBSET Nat /\ IsFiniteSet(Menu)
    BY DEF Query, GoodQuery
  <1>2. IsRanking(list, counts) /\ list \in Seq([menuId : Menu, orderCount : Nat])
    BY <1>1, RedisRanking
  <1>3. /\ a \in Answer /\ a.list = list /\ Snapshot(orders, a)
        /\ a.to = r.to /\ a.base = r.base /\ a.unsettled = r.unsettled
    <2>1. a = Answered("redis", r, list) /\ "redis" \in {"none", "redis", "mysql"}
      OBVIOUS
    <2> HIDE DEF list
    <2>2. a \in Answer /\ Takes(a, r, list) /\ Snapshot(orders, a)
      BY <1>1, <1>2, <2>1, AnsweredFacts
    <2>. QED  BY <2>2 DEF Takes
  <1>4. /\ \A e \in DOMAIN list : list[e].orderCount = counts[list[e].menuId]
        /\ \A e \in DOMAIN list, n \in Ordered(counts) :
              (\A j \in DOMAIN list : list[j].menuId # n) => Better(list[e].menuId, n, counts)
    BY <1>1, <1>2 DEF IsRanking, Ordered
  <1>5. /\ Len(list) # TopN =>
              \A m \in Ordered(counts) : \E e \in DOMAIN list : list[e].menuId = m
        /\ list = <<>> => Ordered(counts) = {}
    BY <1>1, <1>2, ShortLists
  <1>6. ASSUME NEW m \in Menu
        PROVE  AtMost(orders, r, m, counts[m]) /\ AtLeast(orders, zset, r, m, counts[m]) /\ counts[m] \in Nat
    <2>1. PICK n \in 1..Cardinality(Menu) : MenuAt(n) = m
      BY EveryMenuHasATurn
    <2>2. n <= r.next
      BY <1>1, EveryMenuHasATurn
    <2>. QED  BY <1>1, <2>1, <2>2 DEF GoodQuery
  <1>7. ASSUME NEW m \in Menu PROVE AtMost(orders, r, m, 0)
    <2>1. orders \in Seq(Row) /\ CommittedIn(orders) \in SUBSET DOMAIN orders
      BY DEF TypeOK, CommittedIn
    <2>2. Cardinality(Win(orders, CommittedIn(orders), m, r.to)) \in Nat
      BY <2>1, FinitelyManyOrders
    <2>. QED  BY <2>2 DEF AtMost
  <1> HIDE DEF counts, list
  <1>8. ASSUME NEW m \in Menu
        PROVE  IF \E e \in DOMAIN list : list[e].menuId = m
                 THEN CountIn(list, m) = counts[m] ELSE CountIn(list, m) = 0
    <2>1. IF \E e \in DOMAIN list : list[e].menuId = m
            THEN \E e \in DOMAIN list : list[e].menuId = m /\ CountIn(list, m) = list[e].orderCount
            ELSE CountIn(list, m) = 0
      BY <1>2, CountInFacts
    <2>. QED  BY <1>4, <2>1
  <1>9. ASSUME NEW m \in Menu PROVE AtMost(orders, a, m, CountIn(a.list, m))
    <2>1. AtMost(orders, r, m, CountIn(list, m))
      BY <1>6, <1>7, <1>8
    <2>. QED  BY <1>3, <2>1, SameCounts
  <1>10. ASSUME NEW m \in Menu
         PROVE  \/ AtLeast(orders, zset, a, m, CountIn(a.list, m))
                \/ /\ Len(a.list) = TopN
                   /\ \A e \in DOMAIN a.list : AtLeast(orders, zset, a, m, a.list[e].orderCount)
    <2>1. CASE \E e \in DOMAIN list : list[e].menuId = m
      BY <1>3, <1>6, <1>8, <2>1, SameCounts
    <2>2. CASE counts[m] = 0
      <3>1. CountIn(list, m) = counts[m]
        BY <1>8, <2>2
      <3>. QED  BY <1>3, <1>6, <3>1, SameCounts
    <2>3. CASE (\A e \in DOMAIN list : list[e].menuId # m) /\ counts[m] # 0
      <3>1. m \in Ordered(counts)
        <4>1. counts[m] > 0 /\ DOMAIN counts = Menu
          BY <1>1, <1>6, <2>3 DEF counts
        <4>. QED  BY <4>1 DEF Ordered
      <3>2. Len(list) = TopN
        BY <1>5, <2>3, <3>1
      <3>3. ASSUME NEW e \in DOMAIN list PROVE AtLeast(orders, zset, r, m, list[e].orderCount)
        <4>1. list[e].orderCount >= counts[m] /\ list[e].orderCount \in Nat
          <5>1. list[e] \in [menuId : Menu, orderCount : Nat]
            BY <1>2, SeqElements
          <5>2. Better(list[e].menuId, m, counts)
            BY <1>4, <2>3, <3>1
          <5>. QED  BY <1>4, <1>6, <5>1, <5>2 DEF Better
        <4>2. Cardinality(Win(orders, RecordedIn(orders, zset, r), m, r.to)) \in Nat
          <5>1. orders \in Seq(Row) /\ RecordedIn(orders, zset, r) \in SUBSET DOMAIN orders
            BY <1>1 DEF TypeOK, RecordedIn, Snapshot, SettledIn
          <5>. QED  BY <5>1, FinitelyManyOrders
        <4>. QED  BY <1>6, <4>1, <4>2 DEF AtLeast
      <3>4. ASSUME NEW e \in DOMAIN list PROVE AtLeast(orders, zset, a, m, list[e].orderCount)
        BY <1>3, <3>3, SameCounts
      <3>. QED  BY <1>3, <3>2, <3>4
    <2>. QED  BY <2>1, <2>2, <2>3
  <1>11. a.list # <<>>
    <2>1. c \in Ordered(counts)
      <3>1. counts[c] > 0 /\ DOMAIN counts = Menu
        BY <1>1, <1>6 DEF counts
      <3>. QED  BY <3>1 DEF Ordered
    <2>. QED  BY <1>3, <1>5, <2>1
  <1>. QED  BY <1>3, <1>9, <1>10, <1>11 DEF GoodAnswer

\* getFromDatabase: the list of the orders in the snapshot.
LEMMA DatabaseAnswer ==
    ASSUME TypeOK, NEW q \in Query, Snapshot(orders, q),
           NEW a, a = Answered("mysql", q, FindPopularMenus(Rows(q.base), Menu, From(q), q.to))
    PROVE  a \in Answer /\ GoodAnswer(orders, zset, a)
  <1> DEFINE counts == [m \in Menu |-> CountInWindow(Rows(q.base), m, From(q), q.to)]
             list == FindPopularMenus(Rows(q.base), Menu, From(q), q.to)
  <1>1. /\ orders \in Seq(Row) /\ q.to \in Int /\ From(q) = q.to - Window
        /\ Menu \in SUBSET Nat /\ IsFiniteSet(Menu)
        /\ CommittedIn(orders) \in SUBSET DOMAIN orders /\ q.base \in SUBSET CommittedIn(orders)
    BY DEF TypeOK, Query, From, Snapshot, CommittedIn
  <1>2. ASSUME NEW m \in Menu
        PROVE  /\ counts[m] = Cardinality(Win(orders, q.base, m, q.to)) /\ counts[m] \in Nat
               /\ IsFiniteSet(Win(orders, q.base, m, q.to))
    <2>1. q.base \in SUBSET OrderIds /\ q.base \in SUBSET DOMAIN orders
      BY <1>1 DEF OrderIds
    <2>2. counts[m] = Cardinality(Win(orders, q.base, m, q.to))
      BY <1>1, <2>1, RowsFacts
    <2>. QED  BY <1>1, <2>1, <2>2, FinitelyManyOrders
  <1>3. counts \in [Menu -> Nat]
    BY <1>2
  <1>4. list = PopularFromCounts(counts)
    BY <1>1, DatabaseRanking
  <1> HIDE DEF counts
  <1>5. IsRanking(list, counts) /\ list \in Seq([menuId : Menu, orderCount : Nat])
    BY <1>1, <1>3, <1>4, RedisRanking
  <1>6. /\ a \in Answer /\ a.list = list /\ a.base = q.base /\ a.to = q.to /\ a.source = "mysql"
        /\ Snapshot(orders, a) /\ a.unsettled = q.unsettled
    <2>1. a = Answered("mysql", q, list) /\ "mysql" \in {"none", "redis", "mysql"}
      OBVIOUS
    <2> HIDE DEF list
    <2>2. a \in Answer /\ a.source = "mysql" /\ Takes(a, q, list) /\ Snapshot(orders, a)
      BY <1>5, <2>1, AnsweredFacts
    <2>. QED  BY <2>2 DEF Takes
  <1> HIDE DEF list
  <1>7. ASSUME NEW m \in Menu PROVE AtMost(orders, a, m, CountIn(a.list, m))
    <2>1. CountIn(list, m) = 0 \/ CountIn(list, m) = counts[m]
      <3>1. \A e \in DOMAIN list : list[e].orderCount = counts[list[e].menuId]
        BY <1>5 DEF IsRanking
      <3>. QED  BY <1>5, <3>1, CountInFacts
    <2>2. /\ Cardinality(Win(orders, q.base, m, q.to))
               <= Cardinality(Win(orders, CommittedIn(orders), m, q.to))
          /\ Cardinality(Win(orders, CommittedIn(orders), m, q.to)) \in Nat
      BY <1>1, WindowGrows, FinitelyManyOrders
    <2>3. AtMost(orders, q, m, CountIn(list, m))
      BY <1>2, <2>1, <2>2, SMTT(20) DEF AtMost
    <2>. QED  BY <1>6, <2>3, SameCounts
  <1>8. ASSUME a.list = <<>>, NEW m \in Menu PROVE Win(orders, a.base, m, a.to) = {}
    <2>1. Ordered(counts) = {}
      <3>1. list = <<>> /\ IsFiniteSet(Menu) /\ Menu \in SUBSET Nat
        BY <1>1, <1>6, <1>8, PopularMenuAssumption
      <3>. QED  BY <1>3, <1>5, <3>1, ShortLists
    <2>2. counts[m] = 0
      BY <1>2, <1>3, <2>1 DEF Ordered
    <2>. QED  BY <1>2, <1>6, <2>2, FS_EmptySet
  <1>. QED  BY <1>6, <1>7, <1>8 DEF GoodAnswer

-----------------------------------------------------------------------------
(* The inductive invariant *)

Good ==
    /\ TypeOK /\ Holds(orders, zset) /\ OwnFailureFallsBack
    /\ \A i \in Instance : GoodQuery(orders, zset, query[i]) /\ GoodAnswer(orders, zset, answer[i])

LEMMA GoodImplies ==
    ASSUME Good
    PROVE  ReadModelInv /\ NeverOverCounts /\ CountsAllRecorded /\ NeverEmptyByMistake
  <1>1. TypeOK /\ OwnFailureFallsBack /\ Holds(orders, zset)
    BY DEF Good
  <1>2. /\ Committed = CommittedIn(orders) /\ Committed = SettledIn(orders) \cup Pending
        /\ SettledIn(orders) \cap Pending = {}
    BY DEF Committed, Pending, CommittedIn, SettledIn, OrderIds
  <1>3. /\ \A ids, m, q : InWindow(ids, m, q) = Win(orders, ids, m, q.to)
        /\ \A q : Recorded(q) = RecordedIn(orders, zset, q)
    BY DEF InWindow, Win, From, Recorded, RecordedIn
  <1>4. ZsetsHoldCommitted
    BY <1>1 DEF Holds, ZsetsHoldCommitted, SettledIn, OrderIds
  <1>5. SnapshotsSettled
    <2>1. ASSUME NEW q, Snapshot(orders, q)
          PROVE  q.base \subseteq Committed /\ (q.base \ q.unsettled) \cap Pending = {}
      BY <1>2, <2>1 DEF Snapshot
    <2>2. \A i \in Instance : Snapshot(orders, query[i]) /\ Snapshot(orders, answer[i])
      BY DEF Good, GoodQuery, GoodAnswer
    <2>. QED  BY <2>1, <2>2 DEF SnapshotsSettled
  <1>6. QueriesCount
    BY <1>2, <1>3 DEF Good, GoodQuery, QueriesCount, AtMost, AtLeast
  <1>7. NeverOverCounts
    BY <1>2, <1>3 DEF Good, GoodAnswer, NeverOverCounts, AtMost
  <1>8. CountsAllRecorded
    BY <1>3 DEF Good, GoodAnswer, CountsAllRecorded, AtLeast
  <1>9. NeverEmptyByMistake
    BY <1>3 DEF Good, GoodAnswer, NeverEmptyByMistake
  <1>. QED  BY <1>1, <1>4, <1>5, <1>6, <1>7, <1>8, <1>9 DEF ReadModelInv

\* No query, and no answer yet.
LEMMA NothingToAnswer ==
    ASSUME NEW ords \in Seq(Row), NEW zs
    PROVE  /\ Idle \in Query /\ GoodQuery(ords, zs, Idle) /\ ~Idle.active
           /\ NoAnswer \in Answer /\ GoodAnswer(ords, zs, NoAnswer) /\ NoAnswer.source = "none"
  <1>0. ASSUME NEW q, NEW m PROVE AtMost(ords, q, m, 0)
    <2>1. CommittedIn(ords) \in SUBSET DOMAIN ords
      BY DEF CommittedIn
    <2>2. Cardinality(Win(ords, CommittedIn(ords), m, q.to)) \in Nat
      BY <2>1, FinitelyManyOrders
    <2>. QED  BY <2>2 DEF AtMost
  <1>1. /\ Idle \in Query /\ ~Idle.active /\ Idle.base = {} /\ Idle.next = 0
        /\ \A m \in Menu : Idle.counts[m] = 0
    BY DEF Idle, Query, NoCounts
  <1>3. /\ NoAnswer \in Answer /\ NoAnswer.source = "none" /\ NoAnswer.list = <<>> /\ NoAnswer.base = {}
    BY DEF NoAnswer, Answer
  <1>4. Snapshot(ords, Idle) /\ Snapshot(ords, NoAnswer)
    BY <1>1, <1>3 DEF Snapshot
  <1>5. GoodQuery(ords, zs, Idle)
    <2>1. ASSUME NEW m \in Menu PROVE AtMost(ords, Idle, m, Idle.counts[m])
      BY <1>0, <1>1
    <2>2. \A n \in 1..Cardinality(Menu) : ~(n <= Idle.next)
      BY <1>1, EveryMenuHasATurn
    <2>. QED  BY <1>4, <2>1, <2>2 DEF GoodQuery
  <1>6. GoodAnswer(ords, zs, NoAnswer)
    <2>1. \A m : CountIn(<<>>, m) = 0
      BY DEF CountIn
    <2>2. ASSUME NEW m \in Menu PROVE AtMost(ords, NoAnswer, m, CountIn(NoAnswer.list, m))
      BY <1>0, <1>3, <2>1
    <2>. QED  BY <1>3, <1>4, <2>2 DEF GoodAnswer
  <1>. QED  BY <1>1, <1>3, <1>5, <1>6

\* Steps of orders and of the read model: what was counted and answered before
\* stays right.
LEMMA DataStep ==
    ASSUME Good, TypeOK', Grow(orders, zset, orders', zset'), Holds(orders', zset'), OwnFailureFallsBack',
           \A i \in Instance : query'[i] = query[i] \/ query'[i] = Idle,
           \A i \in Instance : answer'[i] = answer[i] \/ answer'[i] = NoAnswer
    PROVE  Good'
  <1>1. /\ orders \in Seq(Row) /\ orders' \in Seq(Row)
        /\ \A i \in Instance : query[i] \in Query /\ answer[i] \in Answer
    BY DEF Good, TypeOK
  <1>2. ASSUME NEW i \in Instance PROVE GoodQuery(orders', zset', query'[i])
    <2>1. CASE query'[i] = query[i]
      BY <1>1, <2>1, GoodQueryStays, EveryMenuHasATurn DEF Good
    <2>2. CASE query'[i] = Idle
      BY <1>1, <2>2, NothingToAnswer
    <2>. QED  BY <2>1, <2>2
  <1>3. ASSUME NEW i \in Instance PROVE GoodAnswer(orders', zset', answer'[i])
    <2>1. CASE answer'[i] = answer[i]
      BY <1>1, <2>1, GoodAnswerStays DEF Good
    <2>2. CASE answer'[i] = NoAnswer
      BY <1>1, <2>2, NothingToAnswer
    <2>. QED  BY <2>1, <2>2
  <1>. QED  BY <1>2, <1>3 DEF Good

-----------------------------------------------------------------------------
(* The actions on orders *)

\* One order gets a new state.
LEMMA SetStateFacts ==
    ASSUME TypeOK, NEW k \in OrderIds, NEW st \in OrderState,
           orders' = [orders EXCEPT ![k].state = st]
    PROVE  /\ orders' \in Seq(Row) /\ OrderIds' = OrderIds
           /\ \A j \in OrderIds : /\ orders'[j].menu = orders[j].menu /\ orders'[j].at = orders[j].at
                                  /\ orders'[j].state = IF j = k THEN st ELSE orders[j].state
  <1> DEFINE r == [orders[k] EXCEPT !.state = st]
  <1>0. orders \in Seq(Row)
    BY DEF TypeOK
  <1>1. orders[k] \in Row
    BY <1>0 DEF OrderIds
  <1>2. r \in Row /\ r.menu = orders[k].menu /\ r.at = orders[k].at /\ r.state = st
    BY <1>1 DEF Row
  <1>3. orders' = [orders EXCEPT ![k] = r]
    OBVIOUS
  <1> HIDE DEF r
  <1>4. orders' \in Seq(Row) /\ Len(orders') = Len(orders) /\ DOMAIN orders' = DOMAIN orders
    <2>1. Len(orders) \in Nat /\ orders \in [1..Len(orders) -> Row]
      BY <1>0
    <2>2. orders' \in [1..Len(orders) -> Row]
      BY <1>2, <1>3, <2>1
    <2>. QED  BY <2>1, <2>2, SeqOfLength
  <1>5. orders'[k] = r /\ \A j \in DOMAIN orders : j # k => orders'[j] = orders[j]
    BY <1>0, <1>3 DEF OrderIds
  <1>. QED  BY <1>2, <1>4, <1>5 DEF OrderIds

\* What the sorted sets hold stays right while no order leaves "settled".
LEMMA HoldsStays ==
    ASSUME NEW ords, NEW zs, NEW ords2, Grow(ords, zs, ords2, zs), Holds(ords, zs)
    PROVE  Holds(ords2, zs)
  BY DEF Grow, Holds, SettledIn

\* Orders change, nothing else does.
LEMMA OrderStep ==
    ASSUME Good, orders' \in Seq(Row), Grow(orders, zset, orders', zset),
           UNCHANGED <<clock, zset, stale, up, query, answer, asked, failed>>
    PROVE  Good'
  <1>1. TypeOK' /\ OwnFailureFallsBack'
    <2>1. TypeOK'
      BY DEF Good, TypeOK
    <2>2. OwnFailureFallsBack'
      BY DEF Good, OwnFailureFallsBack
    <2>. QED  BY <2>1, <2>2
  <1>2. Holds(orders', zset')
    BY HoldsStays DEF Good
  <1>3. Grow(orders, zset, orders', zset')
    OBVIOUS
  <1>4. /\ \A i \in Instance : query'[i] = query[i]
        /\ \A i \in Instance : answer'[i] = answer[i]
    OBVIOUS
  <1>. QED  BY <1>1, <1>2, <1>3, <1>4, DataStep

LEMMA PlaceOrderGood ==
    ASSUME Good, NEW i \in Instance, NEW m \in Menu, PlaceOrder(i, m)
    PROVE  Good'
  <1> DEFINE r == [menu |-> m, at |-> clock, instance |-> i, state |-> "open"]
  <1>1. orders \in Seq(Row) /\ clock \in Nat
    BY DEF Good, TypeOK
  <1>2. r \in Row
    BY <1>1 DEF Row, OrderState
  <1>3. /\ orders' = Append(orders, r)
        /\ UNCHANGED <<clock, zset, stale, up, query, answer, asked, failed>>
    BY DEF PlaceOrder
  <1> HIDE DEF r
  <1>4. /\ orders' \in Seq(Row) /\ DOMAIN orders \subseteq DOMAIN orders'
        /\ \A k \in DOMAIN orders : orders'[k] = orders[k]
    BY <1>1, <1>2, <1>3
  <1>5. Grow(orders, zset, orders', zset)
    BY <1>4 DEF Grow, CommittedIn, SettledIn
  <1>. QED  BY <1>3, <1>4, <1>5, OrderStep

LEMMA CommitRollbackGood ==
    ASSUME Good, NEW k \in OrderIds, CommitOrder(k) \/ CommitAckLost(k) \/ RollbackOrder(k)
    PROVE  Good'
  <1>1. PICK st \in {"pending", "settled", "rolledBack"} : orders' = [orders EXCEPT ![k].state = st]
    BY DEF CommitOrder, CommitAckLost, RollbackOrder
  <1>2. /\ orders[k].state = "open"
        /\ UNCHANGED <<clock, zset, stale, up, query, answer, asked, failed>>
    BY DEF CommitOrder, CommitAckLost, RollbackOrder
  <1>3. /\ orders' \in Seq(Row) /\ OrderIds' = OrderIds
        /\ \A j \in OrderIds : /\ orders'[j].menu = orders[j].menu /\ orders'[j].at = orders[j].at
                               /\ orders'[j].state = IF j = k THEN st ELSE orders[j].state
    <2>1. TypeOK /\ st \in OrderState
      BY DEF Good, OrderState
    <2>. QED  BY <1>1, <2>1, SetStateFacts
  <1>4. Grow(orders, zset, orders', zset)
    BY <1>2, <1>3 DEF Grow, CommittedIn, SettledIn, OrderIds
  <1>. QED  BY <1>2, <1>3, <1>4, OrderStep

\* The ZADD of an order: its menu's sorted set gets the order, with its time.
LEMMA ZaddFacts ==
    ASSUME Good, NEW k \in OrderIds, orders[k].state = "pending",
           orders' = [orders EXCEPT ![k].state = "settled"], zset' = zset \/ zset' = Zadd(k)
    PROVE  /\ orders' \in Seq(Row) /\ zset' \in [Menu -> SUBSET Member]
           /\ Grow(orders, zset, orders', zset') /\ Holds(orders', zset')
  <1> DEFINE z == [id |-> k, score |-> orders[k].at]
             m == orders[k].menu
  <1>0. TypeOK /\ Holds(orders, zset) /\ zset \in [Menu -> SUBSET Member] /\ orders \in Seq(Row)
    BY DEF Good, TypeOK
  <1>1. /\ orders' \in Seq(Row) /\ OrderIds' = OrderIds
        /\ \A j \in OrderIds : /\ orders'[j].menu = orders[j].menu /\ orders'[j].at = orders[j].at
                               /\ orders'[j].state = IF j = k THEN "settled" ELSE orders[j].state
    BY <1>0, SetStateFacts DEF OrderState
  <1>2. m \in Menu /\ z \in Member /\ z.id = k /\ z.score = orders[k].at
    <2>1. orders[k] \in Row /\ k \in Nat
      BY <1>0, SeqElements DEF OrderIds
    <2>. QED  BY <2>1 DEF Row, Member
  <1>a. Zadd(k) = [zset EXCEPT ![m] = zset[m] \cup {z}]
    BY DEF Zadd
  <1> HIDE DEF z, m
  <1>3. ASSUME NEW n \in Menu
        PROVE  /\ zset[n] \subseteq zset'[n] /\ zset'[n] \in SUBSET Member
               /\ \A y \in zset'[n] : y \in zset[n] \/ (y = z /\ n = m)
    <2>1. CASE zset' = zset
      BY <1>0, <2>1
    <2>2. CASE zset' = Zadd(k)
      BY <1>0, <1>2, <1>a, <2>2
    <2>. QED  BY <2>1, <2>2
  <1>4. zset' \in [Menu -> SUBSET Member]
    <2>1. CASE zset' = zset
      BY <1>0, <2>1
    <2>2. CASE zset' = Zadd(k)
      BY <1>0, <1>2, <1>a, <2>2
    <2>. QED  BY <2>1, <2>2
  <1>5. Grow(orders, zset, orders', zset')
    <2>1. k \notin SettledIn(orders)
      BY DEF SettledIn
    <2>2. \A n \in Menu : /\ zset[n] \subseteq zset'[n]
                          /\ \A y \in zset'[n] : y \in zset[n] \/ y.id \notin SettledIn(orders)
      BY <1>2, <1>3, <2>1
    <2>3. CommittedIn(orders) \subseteq CommittedIn(orders') /\ SettledIn(orders) \subseteq SettledIn(orders')
      BY <1>1 DEF CommittedIn, SettledIn, OrderIds
    <2>. QED  BY <1>1, <2>2, <2>3 DEF Grow, OrderIds
  <1>6. Holds(orders', zset')
    <2>1. ASSUME NEW n \in Menu, NEW y \in zset[n]
          PROVE  y.id \in SettledIn(orders') /\ orders'[y.id].menu = n /\ orders'[y.id].at = y.score
      BY <1>0, <1>1 DEF Holds, SettledIn, OrderIds
    <2>2. /\ z.id \in SettledIn(orders') /\ orders'[z.id].menu = m /\ orders'[z.id].at = z.score
      BY <1>1, <1>2 DEF SettledIn, OrderIds, m
    <2>3. ASSUME NEW n \in Menu, NEW y \in zset'[n]
          PROVE  y.id \in SettledIn(orders') /\ orders'[y.id].menu = n /\ orders'[y.id].at = y.score
      BY <1>3, <2>1, <2>2
    <2>. QED  BY <2>3 DEF Holds
  <1>. QED  BY <1>1, <1>4, <1>5, <1>6

LEMMA ListenerGood ==
    ASSUME Good, NEW k \in OrderIds, Listener(k)
    PROVE  Good'
  <1>1. /\ orders[k].state = "pending" /\ orders' = [orders EXCEPT ![k].state = "settled"]
        /\ zset' = zset \/ zset' = Zadd(k)
        /\ UNCHANGED <<clock, up, query, answer, asked>>
    BY DEF Listener, RecordAfterCommit, RecordFails
  <1>2. /\ orders' \in Seq(Row) /\ zset' \in [Menu -> SUBSET Member]
        /\ Grow(orders, zset, orders', zset') /\ Holds(orders', zset')
    BY <1>1, ZaddFacts
  <1>3. TypeOK /\ OwnFailureFallsBack
    BY DEF Good
  <1>4. /\ stale' \in [Instance -> BOOLEAN] /\ failed' \in [Instance -> BOOLEAN]
        /\ \A i \in Instance : failed'[i] => stale'[i]
    <2>1. CASE RecordAfterCommit(k)
      BY <1>3, <2>1 DEF RecordAfterCommit, TypeOK, OwnFailureFallsBack
    <2>2. CASE RecordFails(k)
      <3> DEFINE i == orders[k].instance
      <3>1. stale' = [stale EXCEPT ![i] = TRUE] /\ failed' = [failed EXCEPT ![i] = TRUE]
        BY <2>2 DEF RecordFails
      <3> HIDE DEF i
      <3>2. stale' \in [Instance -> BOOLEAN] /\ failed' \in [Instance -> BOOLEAN]
        BY <1>3, <3>1 DEF TypeOK
      <3>3. ASSUME NEW j \in Instance, failed'[j] PROVE stale'[j]
        BY <1>3, <3>1, <3>3 DEF TypeOK, OwnFailureFallsBack
      <3>. QED  BY <3>2, <3>3
    <2>. QED  BY <2>1, <2>2 DEF Listener
  <1>5. TypeOK'
    BY <1>1, <1>2, <1>3, <1>4 DEF TypeOK
  <1>6. OwnFailureFallsBack'
    BY <1>1, <1>3, <1>4 DEF OwnFailureFallsBack
  <1>7. /\ \A i \in Instance : query'[i] = query[i]
        /\ \A i \in Instance : answer'[i] = answer[i]
    BY <1>1
  <1>. QED  BY <1>2, <1>5, <1>6, <1>7, DataStep

\* A crash rolls open transactions back and gives up the listeners that have
\* not run: their orders stay committed, and are lost to the read model.
LEMMA CrashGood ==
    ASSUME Good, NEW i \in Instance, Crash(i)
    PROVE  Good'
  <1> DEFINE new(k) == CASE orders[k].state = "open" -> "rolledBack"
                         [] orders[k].state = "pending" -> "settled"
                         [] OTHER -> orders[k].state
             e(k) == IF orders[k].instance # i THEN orders[k] ELSE [orders[k] EXCEPT !.state = new(k)]
  <1>0. TypeOK /\ orders \in Seq(Row) /\ OwnFailureFallsBack /\ Holds(orders, zset)
    BY DEF Good, TypeOK
  <1>1. orders' = [k \in OrderIds |-> e(k)]
    BY DEF Crash
  <1>2. ASSUME NEW k \in OrderIds
        PROVE  /\ e(k) \in Row /\ e(k).menu = orders[k].menu /\ e(k).at = orders[k].at
               /\ e(k).state = IF orders[k].instance # i THEN orders[k].state ELSE new(k)
    <2>1. orders[k] \in Row
      BY <1>0 DEF OrderIds
    <2>2. new(k) \in OrderState
      BY <2>1 DEF Row, OrderState
    <2> HIDE DEF new
    <2>. QED  BY <2>1, <2>2 DEF Row
  <1>3. ASSUME NEW k \in OrderIds
        PROVE  /\ orders[k].state \in {"pending", "settled"} => e(k).state \in {"pending", "settled"}
               /\ orders[k].state = "settled" => e(k).state = "settled"
    BY <1>2
  <1> HIDE DEF e, new
  <1>4. /\ orders' \in Seq(Row) /\ DOMAIN orders' = DOMAIN orders
        /\ \A k \in DOMAIN orders : orders'[k] = e(k)
    <2>1. OrderIds = 1..Len(orders) /\ Len(orders) \in Nat /\ OrderIds = DOMAIN orders
      BY <1>0 DEF OrderIds
    <2>2. orders' \in [1..Len(orders) -> Row]
      BY <1>1, <1>2, <2>1
    <2>. QED  BY <1>1, <2>1, <2>2, SeqOfLength
  <1>5. Grow(orders, zset, orders', zset)
    BY <1>2, <1>3, <1>4 DEF Grow, CommittedIn, SettledIn, OrderIds
  <1>6. /\ up' = [up EXCEPT ![i] = FALSE] /\ query' = [query EXCEPT ![i] = Idle]
        /\ UNCHANGED <<clock, zset, stale, answer, asked, failed>>
    BY DEF Crash
  <1>7. /\ query' \in [Instance -> Query] /\ up' \in [Instance -> BOOLEAN]
        /\ \A j \in Instance : query'[j] = query[j] \/ query'[j] = Idle
        /\ ~Idle.active
    BY <1>0, <1>6, NothingToAnswer DEF TypeOK
  <1>8. TypeOK'
    BY <1>0, <1>4, <1>6, <1>7 DEF TypeOK
  <1>9. OwnFailureFallsBack'
    <2>1. ASSUME NEW j \in Instance, query'[j].active PROVE ~query'[j].failedBefore
      BY <1>0, <1>7, <2>1 DEF OwnFailureFallsBack
    <2>. QED  BY <1>0, <1>6, <2>1 DEF OwnFailureFallsBack
  <1>10. Holds(orders', zset') /\ Grow(orders, zset, orders', zset')
    BY <1>0, <1>5, <1>6, HoldsStays
  <1>11. \A j \in Instance : answer'[j] = answer[j]
    BY <1>6
  <1>. QED  BY <1>7, <1>8, <1>9, <1>10, <1>11, DataStep

\* The clock, and a new process.
LEMMA TickRestartGood ==
    ASSUME Good, Tick \/ \E i \in Instance : Restart(i)
    PROVE  Good'
  <1>0. TypeOK /\ OwnFailureFallsBack /\ Holds(orders, zset)
    BY DEF Good
  <1>1. UNCHANGED <<orders, zset>>
    BY DEF Tick, Restart
  <1>2. Grow(orders, zset, orders', zset') /\ Holds(orders', zset')
    BY <1>0, <1>1 DEF Grow
  <1>3. CASE Tick
    <2>1. clock' \in 0..MaxTime /\ UNCHANGED <<orders, zset, stale, up, query, answer, asked, failed>>
      BY <1>0, <1>3 DEF Tick, TypeOK
    <2>2. TypeOK'
      BY <1>0, <2>1 DEF TypeOK
    <2>3. OwnFailureFallsBack'
      BY <1>0, <2>1 DEF OwnFailureFallsBack
    <2>4. /\ \A i \in Instance : query'[i] = query[i]
          /\ \A i \in Instance : answer'[i] = answer[i]
      BY <2>1
    <2>. QED  BY <1>2, <2>2, <2>3, <2>4, DataStep
  <1>4. ASSUME NEW i \in Instance, Restart(i) PROVE Good'
    <2>1. /\ up' = [up EXCEPT ![i] = TRUE] /\ stale' = [stale EXCEPT ![i] = FALSE]
          /\ failed' = [failed EXCEPT ![i] = FALSE] /\ answer' = [answer EXCEPT ![i] = NoAnswer]
          /\ UNCHANGED <<clock, orders, zset, query, asked>>
      BY <1>4 DEF Restart
    <2>2. orders \in Seq(Row)
      BY <1>0 DEF TypeOK
    <2>3. NoAnswer \in Answer /\ NoAnswer.source = "none"
      BY <2>2, NothingToAnswer
    <2>4. /\ answer' \in [Instance -> Answer] /\ up' \in [Instance -> BOOLEAN]
          /\ stale' \in [Instance -> BOOLEAN] /\ failed' \in [Instance -> BOOLEAN]
      BY <1>0, <2>1, <2>3 DEF TypeOK
    <2>5. \A j \in Instance : answer'[j] = answer[j] \/ answer'[j] = NoAnswer
      BY <1>0, <2>1 DEF TypeOK
    <2>6. TypeOK'
      BY <1>0, <2>1, <2>4 DEF TypeOK
    <2>7. OwnFailureFallsBack'
      <3>1. ASSUME NEW j \in Instance, failed'[j] PROVE stale'[j]
        BY <1>0, <2>1, <3>1 DEF TypeOK, OwnFailureFallsBack
      <3>2. ASSUME NEW j \in Instance, answer'[j].source = "redis" PROVE ~answer'[j].failedBefore
        BY <1>0, <2>3, <2>5, <3>2 DEF OwnFailureFallsBack
      <3>3. ASSUME NEW j \in Instance, query'[j].active PROVE ~query'[j].failedBefore
        BY <1>0, <2>1, <3>3 DEF OwnFailureFallsBack
      <3>. QED  BY <3>1, <3>2, <3>3 DEF OwnFailureFallsBack
    <2>8. \A j \in Instance : query'[j] = query[j]
      BY <2>1
    <2>. QED  BY <1>2, <2>5, <2>6, <2>7, <2>8, DataStep
  <1>. QED  BY <1>3, <1>4

-----------------------------------------------------------------------------
(* The actions of a query *)

\* One instance's query and answer change, the data does not.
LEMMA QueryStep ==
    ASSUME Good, NEW i \in Instance, NEW q2 \in Query, NEW a2 \in Answer,
           query' = [query EXCEPT ![i] = q2], answer' = [answer EXCEPT ![i] = a2],
           GoodQuery(orders, zset, q2), GoodAnswer(orders, zset, a2),
           q2.active => ~q2.failedBefore, a2.source = "redis" => ~a2.failedBefore,
           asked' \in 0..MaxQueries, stale' = stale \/ stale' = [stale EXCEPT ![i] = TRUE],
           UNCHANGED <<clock, orders, zset, up, failed>>
    PROVE  Good'
  <1>0. TypeOK /\ OwnFailureFallsBack /\ Holds(orders, zset)
    BY DEF Good
  <1>1. /\ query \in [Instance -> Query] /\ answer \in [Instance -> Answer]
        /\ stale \in [Instance -> BOOLEAN]
    BY <1>0 DEF TypeOK
  <1>2. /\ query' \in [Instance -> Query] /\ answer' \in [Instance -> Answer]
        /\ query'[i] = q2 /\ answer'[i] = a2
        /\ \A j \in Instance : j # i => query'[j] = query[j] /\ answer'[j] = answer[j]
    BY <1>1
  <1>3. /\ stale' \in [Instance -> BOOLEAN]
        /\ \A j \in Instance : stale[j] => stale'[j]
    <2>1. CASE stale' = stale
      BY <1>1, <2>1
    <2>2. CASE stale' = [stale EXCEPT ![i] = TRUE]
      BY <1>1, <2>2
    <2>. QED  BY <2>1, <2>2
  <1>4. TypeOK'
    BY <1>0, <1>2, <1>3 DEF TypeOK
  <1>5. OwnFailureFallsBack'
    <2>1. ASSUME NEW j \in Instance, failed'[j] PROVE stale'[j]
      BY <1>0, <1>3, <2>1 DEF OwnFailureFallsBack
    <2>2. ASSUME NEW j \in Instance, query'[j].active PROVE ~query'[j].failedBefore
      <3>1. CASE j = i
        BY <1>2, <2>2, <3>1
      <3>2. CASE j # i
        BY <1>0, <1>2, <2>2, <3>2 DEF OwnFailureFallsBack
      <3>. QED  BY <3>1, <3>2
    <2>3. ASSUME NEW j \in Instance, answer'[j].source = "redis" PROVE ~answer'[j].failedBefore
      <3>1. CASE j = i
        BY <1>2, <2>3, <3>1
      <3>2. CASE j # i
        BY <1>0, <1>2, <2>3, <3>2 DEF OwnFailureFallsBack
      <3>. QED  BY <3>1, <3>2
    <2>. QED  BY <2>1, <2>2, <2>3 DEF OwnFailureFallsBack
  <1>6. ASSUME NEW j \in Instance
        PROVE  GoodQuery(orders', zset', query'[j]) /\ GoodAnswer(orders', zset', answer'[j])
    <2>1. CASE j = i
      BY <1>2, <2>1
    <2>2. CASE j # i
      BY <1>2, <2>2 DEF Good
    <2>. QED  BY <2>1, <2>2
  <1>. QED  BY <1>0, <1>4, <1>5, <1>6 DEF Good

\* An answer from MySQL ends the query.
LEMMA FromDatabaseGood ==
    ASSUME Good, NEW i \in Instance, NEW q \in Query, Snapshot(orders, q), AnswerFromDatabase(i, q),
           asked' \in 0..MaxQueries, stale' = stale \/ stale' = [stale EXCEPT ![i] = TRUE],
           UNCHANGED <<clock, orders, zset, up, failed>>
    PROVE  Good'
  <1> DEFINE a == Answered("mysql", q, FindPopularMenus(Rows(q.base), Menu, From(q), q.to))
  <1>1. answer' = [answer EXCEPT ![i] = a] /\ query' = [query EXCEPT ![i] = Idle]
    BY DEF AnswerFromDatabase, AnswerWith
  <1>2. a.source # "redis"
    BY DEF Answered
  <1>3. TypeOK /\ orders \in Seq(Row)
    BY DEF Good, TypeOK
  <1>4. a \in Answer /\ GoodAnswer(orders, zset, a)
    BY <1>3, DatabaseAnswer
  <1>5. Idle \in Query /\ GoodQuery(orders, zset, Idle) /\ ~Idle.active
    BY <1>3, NothingToAnswer
  <1> HIDE DEF a
  <1>. QED  BY <1>1, <1>2, <1>4, <1>5, QueryStep

\* A query starts: its snapshot is taken, nothing is counted yet.
LEMMA GetPopularMenusGood ==
    ASSUME Good, NEW i \in Instance, GetPopularMenus(i)
    PROVE  Good'
  <1> DEFINE q == [active |-> TRUE, to |-> clock, base |-> Committed, counts |-> NoCounts,
                   next |-> 0, unsettled |-> Pending, failedBefore |-> failed[i]]
  <1>0. TypeOK /\ OwnFailureFallsBack /\ orders \in Seq(Row)
    BY DEF Good, TypeOK
  <1>1. Committed \in SUBSET Nat /\ Pending \in SUBSET Nat
    <2>1. Len(orders) \in Nat /\ DOMAIN orders = 1..Len(orders)
      BY <1>0, SeqElements
    <2>. QED  BY <2>1 DEF Committed, Pending, OrderIds
  <1>2. /\ q.to = clock /\ q.base = Committed /\ q.unsettled = Pending /\ q.next = 0
        /\ q.failedBefore = failed[i] /\ \A m \in Menu : q.counts[m] = 0
    BY DEF NoCounts
  <1>3. q \in Query
    <2>1. clock \in Int /\ failed[i] \in BOOLEAN /\ NoCounts \in [Menu -> Nat]
      BY <1>0 DEF TypeOK, NoCounts
    <2>. QED  BY <1>1, <2>1 DEF Query
  <1>4. /\ asked' \in 0..MaxQueries /\ UNCHANGED <<clock, orders, zset, stale, up, failed>>
        /\ IF stale[i] THEN AnswerFromDatabase(i, q)
             ELSE query' = [query EXCEPT ![i] = q] /\ UNCHANGED answer
    BY <1>0 DEF GetPopularMenus, TypeOK
  <1> HIDE DEF q
  <1>5. Snapshot(orders, q)
    BY <1>2 DEF Snapshot, CommittedIn, SettledIn, Committed, Pending, OrderIds
  <1>6. GoodQuery(orders, zset, q)
    <2>1. ASSUME NEW m \in Menu PROVE AtMost(orders, q, m, 0)
      <3>1. CommittedIn(orders) \in SUBSET DOMAIN orders
        BY DEF CommittedIn
      <3>2. Cardinality(Win(orders, CommittedIn(orders), m, q.to)) \in Nat
        BY <1>0, <3>1, FinitelyManyOrders
      <3>. QED  BY <3>2 DEF AtMost
    <2>2. \A n \in 1..Cardinality(Menu) : ~(n <= q.next)
      BY <1>2, EveryMenuHasATurn
    <2>. QED  BY <1>2, <1>5, <2>1, <2>2 DEF GoodQuery
  <1>7. CASE stale[i]
    BY <1>3, <1>4, <1>5, <1>7, FromDatabaseGood
  <1>8. CASE ~stale[i]
    <2>1. ~failed[i]
      BY <1>0, <1>8 DEF OwnFailureFallsBack
    <2>2. ~q.failedBefore
      BY <1>2, <2>1
    <2>3. query' = [query EXCEPT ![i] = q] /\ answer' = answer
      BY <1>4, <1>8
    <2>4. answer[i] \in Answer /\ GoodAnswer(orders, zset, answer[i])
      BY <1>0 DEF Good, TypeOK
    <2>5. answer' = [answer EXCEPT ![i] = answer[i]]
      BY <1>0, <2>3 DEF TypeOK
    <2>6. answer[i].source = "redis" => ~answer[i].failedBefore
      BY <1>0 DEF OwnFailureFallsBack
    <2>. QED  BY <1>3, <1>4, <1>6, <2>2, <2>3, <2>4, <2>5, <2>6, QueryStep
  <1>. QED  BY <1>7, <1>8

LEMMA SetCount ==
    ASSUME NEW f \in [Menu -> Nat], NEW m, NEW z, m \in Menu => z \in Nat,
           NEW g, g = [f EXCEPT ![m] = z]
    PROVE  g \in [Menu -> Nat] /\ \A c \in Menu : g[c] = IF c = m THEN z ELSE f[c]
  OBVIOUS

\* One more menu is counted: a count of Redis is right when it is made, whatever
\* was committed and added since the query started.
LEMMA CountedOneMore ==
    ASSUME Good, NEW q \in Query, GoodQuery(orders, zset, q), NEW r,
           r = [q EXCEPT !.counts[MenuAt(q.next + 1)] = Zcount(MenuAt(q.next + 1), From(q), q.to - 1),
                         !.next = @ + 1]
    PROVE  /\ r \in Query /\ GoodQuery(orders, zset, r)
           /\ r.failedBefore = q.failedBefore
  <1> DEFINE m == MenuAt(q.next + 1)
             z == Zcount(m, From(q), q.to - 1)
  <1>0. TypeOK /\ Holds(orders, zset)
    BY DEF Good
  <1>1. /\ q.counts \in [Menu -> Nat] /\ q.next \in Nat /\ q.to \in Int /\ Snapshot(orders, q)
        /\ q.base \subseteq CommittedIn(orders)
    BY DEF Query, GoodQuery, Snapshot
  <1>2. /\ r.counts = [q.counts EXCEPT ![m] = z] /\ r.next = q.next + 1
        /\ r.to = q.to /\ r.base = q.base /\ r.unsettled = q.unsettled
        /\ r.failedBefore = q.failedBefore
    BY DEF Query
  <1>3. ASSUME m \in Menu
        PROVE  /\ z \in Nat /\ AtMost(orders, r, m, z) /\ AtLeast(orders, zset, r, m, z)
    <2>1. z \in Nat /\ AtMost(orders, q, m, z) /\ AtLeast(orders, zset, q, m, z)
      BY <1>0, <1>1, <1>3, ZcountFacts
    <2> HIDE DEF m, z
    <2>. QED  BY <1>2, <2>1, SameCounts
  <1>a. r = [[q EXCEPT !.counts = [q.counts EXCEPT ![m] = z]] EXCEPT !.next = q.next + 1]
    BY DEF Query
  <1>b. MenuAt(q.next + 1) = m
    OBVIOUS
  <1> HIDE DEF m, z
  <1>4. /\ r.counts \in [Menu -> Nat]
        /\ \A c \in Menu : r.counts[c] = IF c = m THEN z ELSE q.counts[c]
    <2>1. m \in Menu => z \in Nat
      BY <1>3
    <2>2. PICK g : g = r.counts
      OBVIOUS
    <2>3. g = [q.counts EXCEPT ![m] = z]
      BY <1>2, <2>2
    <2>4. g \in [Menu -> Nat] /\ \A c \in Menu : g[c] = IF c = m THEN z ELSE q.counts[c]
      BY <1>1, <2>1, <2>3, SetCount
    <2>. QED  BY <2>2, <2>4
  <1>5. r \in Query
    <2>1. [q.counts EXCEPT ![m] = z] \in [Menu -> Nat]
      BY <1>2, <1>4
    <2>2. q.next + 1 \in Nat
      BY <1>1
    <2>. QED  BY <1>a, <2>1, <2>2 DEF Query
  <1>6. Snapshot(orders, r)
    BY <1>1, <1>2 DEF Snapshot
  <1>7. ASSUME NEW c \in Menu PROVE AtMost(orders, r, c, r.counts[c])
    <2>1. CASE c = m
      BY <1>3, <1>4, <2>1
    <2>2. CASE c # m
      <3>1. AtMost(orders, q, c, q.counts[c])
        BY DEF GoodQuery
      <3>. QED  BY <1>2, <1>4, <2>2, <3>1, SameCounts
    <2>. QED  BY <2>1, <2>2
  <1>8. ASSUME NEW n \in 1..Cardinality(Menu), n <= r.next
        PROVE  AtLeast(orders, zset, r, MenuAt(n), r.counts[MenuAt(n)])
    <2>0. MenuAt(n) \in Menu
      BY EveryMenuHasATurn
    <2>1. CASE MenuAt(n) = m
      BY <1>3, <1>4, <2>0, <2>1
    <2>2. CASE MenuAt(n) # m
      <3>1. n <= q.next
        BY <1>1, <1>2, <1>8, <1>b, <2>2, EveryMenuHasATurn
      <3>2. AtLeast(orders, zset, q, MenuAt(n), q.counts[MenuAt(n)])
        BY <3>1 DEF GoodQuery
      <3>. QED  BY <1>2, <1>4, <2>0, <2>2, <3>2, SameCounts
    <2>. QED  BY <2>1, <2>2
  <1>. QED  BY <1>2, <1>5, <1>6, <1>7, <1>8 DEF GoodQuery

LEMMA CountMenuGood ==
    ASSUME Good, NEW i \in Instance, CountMenu(i)
    PROVE  Good'
  <1> DEFINE q == query[i]
             r == [q EXCEPT !.counts[MenuAt(q.next + 1)] = Zcount(MenuAt(q.next + 1), From(q), q.to - 1),
                            !.next = @ + 1]
             a == Answered("redis", r, PopularFromCounts(r.counts))
  <1>0. /\ TypeOK /\ OwnFailureFallsBack /\ orders \in Seq(Row) /\ q \in Query
        /\ GoodQuery(orders, zset, q) /\ answer \in [Instance -> Answer]
        /\ GoodAnswer(orders, zset, answer[i]) /\ asked \in 0..MaxQueries
    BY DEF Good, TypeOK
  <1>1. /\ q.active /\ UNCHANGED <<clock, orders, zset, stale, up, asked, failed>>
        /\ IF r.next < Cardinality(Menu)
             THEN query' = [query EXCEPT ![i] = r] /\ UNCHANGED answer
             ELSE IF \A n \in Menu : r.counts[n] = 0
                    THEN AnswerFromDatabase(i, r)
                    ELSE AnswerWith(i, "redis", r, PopularFromCounts(r.counts))
    BY DEF CountMenu
  <1>2. r \in Query /\ GoodQuery(orders, zset, r) /\ r.failedBefore = q.failedBefore
    BY <1>0, CountedOneMore
  <1>3. ~r.failedBefore
    BY <1>0, <1>1, <1>2 DEF OwnFailureFallsBack
  <1>4. asked' \in 0..MaxQueries
    BY <1>0, <1>1
  <1> HIDE DEF r
  <1>5. CASE r.next < Cardinality(Menu)
    <2>1. query' = [query EXCEPT ![i] = r] /\ answer' = [answer EXCEPT ![i] = answer[i]]
      BY <1>0, <1>1, <1>5
    <2>2. answer[i].source = "redis" => ~answer[i].failedBefore
      BY <1>0 DEF OwnFailureFallsBack
    <2>3. answer[i] \in Answer
      BY <1>0
    <2>. QED  BY <1>0, <1>1, <1>2, <1>3, <1>4, <2>1, <2>2, <2>3, QueryStep
  <1>6. CASE ~(r.next < Cardinality(Menu)) /\ \A n \in Menu : r.counts[n] = 0
    <2>1. AnswerFromDatabase(i, r)
      BY <1>1, <1>6
    <2>2. Snapshot(orders, r)
      BY <1>2 DEF GoodQuery
    <2>. QED  BY <1>1, <1>2, <1>4, <2>1, <2>2, FromDatabaseGood
  <1>7. CASE ~(r.next < Cardinality(Menu)) /\ \E n \in Menu : r.counts[n] # 0
    <2>1. answer' = [answer EXCEPT ![i] = a] /\ query' = [query EXCEPT ![i] = Idle]
      BY <1>1, <1>7 DEF AnswerWith
    <2>2. r.next >= Cardinality(Menu)
      BY <1>2, <1>7, EveryMenuHasATurn DEF Query
    <2>3. a.failedBefore = r.failedBefore
      BY DEF Answered
    <2>4. a \in Answer /\ GoodAnswer(orders, zset, a)
      BY <1>0, <1>2, <1>7, <2>2, RedisAnswer
    <2>5. Idle \in Query /\ GoodQuery(orders, zset, Idle) /\ ~Idle.active
      BY <1>0, NothingToAnswer
    <2> HIDE DEF a
    <2>6. ~a.failedBefore
      BY <1>3, <2>3
    <2>. QED  BY <1>1, <1>4, <2>1, <2>4, <2>5, <2>6, QueryStep
  <1>. QED  BY <1>5, <1>6, <1>7

LEMMA CountFailsGood ==
    ASSUME Good, NEW i \in Instance, CountFails(i)
    PROVE  Good'
  <1>1. query[i] \in Query /\ Snapshot(orders, query[i]) /\ asked \in 0..MaxQueries
    BY DEF Good, TypeOK, GoodQuery
  <1>. QED  BY <1>1, FromDatabaseGood DEF CountFails

-----------------------------------------------------------------------------
(* The theorems *)

LEMMA InitGood == Init => Good
  <1>. SUFFICES ASSUME Init PROVE Good
    OBVIOUS
  <1> DEFINE row(k) == [menu |-> LegacyOrders[k].menu, at |-> LegacyOrders[k].at,
                        instance |-> NoInstance, state |-> "settled"]
  <1>1. /\ Len(LegacyOrders) \in Nat /\ DOMAIN LegacyOrders = 1..Len(LegacyOrders)
        /\ \A k \in DOMAIN LegacyOrders : LegacyOrders[k] \in [menu : Menu, at : Nat]
    <2>1. LegacyOrders \in Seq([menu : Menu, at : Nat])
      OBVIOUS
    <2>. QED  BY <2>1, SeqElements
  <1>2. \A k \in DOMAIN LegacyOrders : row(k) \in Row
    BY <1>1 DEF Row, OrderState
  <1>3. orders = [k \in 1..Len(LegacyOrders) |-> row(k)]
    BY <1>1 DEF Init
  <1> HIDE DEF row
  <1>4. orders \in Seq(Row)
    BY <1>1, <1>2, <1>3, SeqOfLength
  <1>5. Idle \in Query /\ NoAnswer \in Answer /\ ~Idle.active /\ NoAnswer.source = "none"
    BY <1>4, NothingToAnswer
  <1>6. /\ query = [i \in Instance |-> Idle] /\ answer = [i \in Instance |-> NoAnswer]
        /\ zset = [m \in Menu |-> {}] /\ failed = [i \in Instance |-> FALSE]
        /\ stale = [i \in Instance |-> FALSE] /\ up = [i \in Instance |-> TRUE]
        /\ clock = 0 /\ asked = 0
    BY DEF Init
  <1>7. TypeOK
    BY <1>4, <1>5, <1>6 DEF TypeOK
  <1>8. OwnFailureFallsBack
    BY <1>5, <1>6 DEF OwnFailureFallsBack
  <1>9. Holds(orders, zset)
    BY <1>6 DEF Holds
  <1>10. \A i \in Instance : GoodQuery(orders, zset, query[i]) /\ GoodAnswer(orders, zset, answer[i])
    BY <1>4, <1>6, NothingToAnswer
  <1>. QED  BY <1>7, <1>8, <1>9, <1>10 DEF Good

LEMMA NextGood == Good /\ [Next]_vars => Good'
  <1>. SUFFICES ASSUME Good, [Next]_vars PROVE Good'
    OBVIOUS
  <1>1. ASSUME NEW i \in Instance, NEW m \in Menu, PlaceOrder(i, m) PROVE Good'
    BY <1>1, PlaceOrderGood
  <1>2. ASSUME NEW i \in Instance, GetPopularMenus(i) PROVE Good'
    BY <1>2, GetPopularMenusGood
  <1>3. ASSUME NEW i \in Instance, Count(i) PROVE Good'
    BY <1>3, CountMenuGood, CountFailsGood DEF Count
  <1>4. ASSUME NEW i \in Instance, Crash(i) PROVE Good'
    BY <1>4, CrashGood
  <1>5. ASSUME NEW i \in Instance, Restart(i) PROVE Good'
    BY <1>5, TickRestartGood
  <1>6. ASSUME NEW k \in OrderIds, CommitOrder(k) \/ CommitAckLost(k) \/ RollbackOrder(k) PROVE Good'
    BY <1>6, CommitRollbackGood
  <1>7. ASSUME NEW k \in OrderIds, Listener(k) PROVE Good'
    BY <1>7, ListenerGood
  <1>8. CASE Tick
    BY <1>8, TickRestartGood
  <1>9. CASE UNCHANGED vars
    <2>1. UNCHANGED <<clock, orders, zset, stale, up, query, answer, asked, failed>>
      BY <1>9 DEF vars
    <2>2. orders' \in Seq(Row) /\ Grow(orders, zset, orders', zset)
      BY <2>1 DEF Good, TypeOK, Grow
    <2>. QED  BY <2>1, <2>2, OrderStep
  <1>. QED  BY <1>1, <1>2, <1>3, <1>4, <1>5, <1>6, <1>7, <1>8, <1>9 DEF Next

LEMMA AlwaysGood == Spec => []Good
  BY InitGood, NextGood, PTL DEF Spec

\* Redis holds committed orders only, whose listener (recordAfterCommit) ran;
\* no query has counted more than was committed or less than was recorded
\* before it started; an instance whose update failed does not trust Redis.
THEOREM ReadModelInvariant == Spec => []ReadModelInv
  <1>1. Good => ReadModelInv
    BY GoodImplies
  <1>. QED  BY <1>1, AlwaysGood, PTL

\* No answer of getPopularMenus, from Redis or from MySQL, counts an order that
\* was not committed or that lies outside the seven days of the request.
THEOREM NoOverCount == Spec => []NeverOverCounts
  <1>1. Good => NeverOverCounts
    BY GoodImplies
  <1>. QED  BY <1>1, AlwaysGood, PTL

\* getFromRedis misses no order that was in Redis before the query started,
\* however the counting of the menus interleaves with new orders.
THEOREM AllRecordedCounted == Spec => []CountsAllRecorded
  <1>1. Good => CountsAllRecorded
    BY GoodImplies
  <1>. QED  BY <1>1, AlwaysGood, PTL

\* An empty list means that the snapshot has no order in the window: an empty
\* Redis sends getFromRedis to MySQL.
THEOREM NoEmptyMistake == Spec => []NeverEmptyByMistake
  <1>1. Good => NeverEmptyByMistake
    BY GoodImplies
  <1>. QED  BY <1>1, AlwaysGood, PTL
=============================================================================
