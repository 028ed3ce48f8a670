------------------------------- MODULE Ranking ------------------------------
(***************************************************************************)
(* How order counts become the popular menu list.  Menus are numbered by   *)
(* their id; a list entry is a menu id with its number of orders.          *)
(***************************************************************************)
EXTENDS Integers, Sequences, FiniteSets

CONSTANT TopN   \* length of the list; LIMIT 3 and .limit(3) in the code

ASSUME TopNAssumption == TopN \in Nat \ {0}

Entry(m, c) == [menuId |-> m, orderCount |-> c]

\* Mutant: the reversal applied to the whole comparator, ties included.
BeforeTiesReversed(x, y) ==
    \/ x.orderCount > y.orderCount
    \/ x.orderCount = y.orderCount /\ x.menuId > y.menuId

\* Comparator.comparing(orderCount).reversed().thenComparing(menuId)
Before(x, y) ==
    \/ x.orderCount > y.orderCount
    \/ x.orderCount = y.orderCount /\ x.menuId < y.menuId

Limit(s) == SubSeq(s, 1, IF Len(s) < TopN THEN Len(s) ELSE TopN)

\* The elements of S in the total order Precedes: at n stands the one that
\* n - 1 others precede.
Sorted(S, Precedes(_, _)) ==
    [n \in 1..Cardinality(S) |-> CHOOSE e \in S : Cardinality({f \in S : Precedes(f, e)}) = n - 1]

\* getFromRedis: filter, sort and limit the counts of all menus.
PopularFromCounts(counts) ==
    Limit(Sorted({Entry(m, counts[m]) : m \in {n \in DOMAIN counts : counts[n] > 0}}, Before))

\* The rows of one menu that an order set contributes: WHERE created_at >=
\* :from AND created_at < :to, grouped by menu.
CountInWindow(rows, m, from, to) ==
    Cardinality({r \in rows : r.menu = m /\ from <= r.at /\ r.at < to})

\* ORDER BY orderCount DESC, id ASC
SqlBefore(x, y) ==
    \/ x.orderCount > y.orderCount
    \/ x.orderCount = y.orderCount /\ x.menuId < y.menuId

\* findPopularMenus: GROUP BY drops menus without a row, ORDER BY, LIMIT.
FindPopularMenus(rows, menus, from, to) ==
    LET grouped == {m \in menus : CountInWindow(rows, m, from, to) > 0}
    IN  Limit(Sorted({Entry(m, CountInWindow(rows, m, from, to)) : m \in grouped}, SqlBefore))

-----------------------------------------------------------------------------
(* Correctness *)

Better(m, n, counts) == counts[m] > counts[n] \/ (counts[m] = counts[n] /\ m < n)

\* The list is the best of the menus that were ordered at all: it holds TopN
\* of them (or all, when there are fewer), each once and with its count, in
\* order, and no menu left out should have come before one in the list.
IsRanking(list, counts) ==
    LET listed == {list[i].menuId : i \in DOMAIN list}
        ordered == {m \in DOMAIN counts : counts[m] > 0}
    IN  /\ listed \subseteq ordered
        /\ Len(list) = IF Cardinality(ordered) < TopN THEN Cardinality(ordered) ELSE TopN
        /\ \A i \in DOMAIN list : list[i].orderCount = counts[list[i].menuId]
        /\ \A i, j \in DOMAIN list : i < j => Better(list[i].menuId, list[j].menuId, counts)
        /\ \A m \in listed, n \in ordered \ listed : Better(m, n, counts)
=============================================================================
