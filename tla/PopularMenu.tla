----------------------------- MODULE PopularMenu ----------------------------
(***************************************************************************)
(* The popular menu query and the Redis read model it is served from.      *)
(*                                                                         *)
(* Orders are committed in MySQL; after the commit the thread that placed  *)
(* the order adds it to the Redis sorted set of its menu.  A query counts  *)
(* the sets one menu at a time and falls back to MySQL when Redis fails or *)
(* when this instance has seen Redis fail before (readModelStale, a flag   *)
(* in the memory of one instance).                                         *)
(*                                                                         *)
(* Payment models how an order gets committed; here an order is placed,    *)
(* then committed or rolled back, then recorded.                           *)
(***************************************************************************)
EXTENDS Integers, Sequences, FiniteSets, Ranking

CONSTANTS
    Instance,      \* application instances
    NoInstance,    \* where orders older than the read model come from
    Menu,          \* menu ids
    Window,        \* length of the window, 7 days in the code
    LegacyOrders,  \* orders in MySQL from before the read model existed
    MaxOrders,     \* bound: number of orders
    MaxQueries,    \* bound: number of queries
    MaxTime        \* bound: last clock value

ASSUME PopularMenuAssumption == /\ Menu \subseteq Nat /\ IsFiniteSet(Menu)
                                /\ Window \in Nat \ {0}
                                /\ LegacyOrders \in Seq([menu : Menu, at : Nat])
                                /\ MaxQueries \in Nat /\ MaxTime \in Nat

VARIABLES
    clock,     \* the UTC clock, truncated to microseconds
    orders,    \* orders[k]: row k with the state of its transaction
    zset,      \* zset[m]: members (order id, score) of popular:menus:m:orders
    stale,     \* stale[i]: readModelStale of instance i
    up,        \* up[i]: instance i is running
    query,     \* query[i]: the query instance i is executing
    answer,    \* answer[i]: the last answer of instance i
    asked,     \* number of queries so far
    failed     \* failed[i]: auxiliary, an update failed on i since it started

vars == <<clock, orders, zset, stale, up, query, answer, asked, failed>>

-----------------------------------------------------------------------------
\* open: inserted, not committed; pending: committed, the AFTER_COMMIT
\* listener has not run; settled: the listener ran or will never run.
OrderState == {"open", "rolledBack", "pending", "settled"}
OrderIds == DOMAIN orders
Committed == {k \in OrderIds : orders[k].state \in {"pending", "settled"}}
Pending == {k \in OrderIds : orders[k].state = "pending"}

Rows(ids) == {[id |-> k, menu |-> orders[k].menu, at |-> orders[k].at] : k \in ids}

NoCounts == [m \in Menu |-> 0]

\* to, and from with it, are fixed when the query starts; base is the MySQL
\* snapshot (REPEATABLE READ) its first statement, the read of the menus,
\* takes; next is the number of menus counted so far.
Query == [active : BOOLEAN, to : Int, base : SUBSET Nat, counts : [Menu -> Nat], next : Nat,
          unsettled : SUBSET Nat, failedBefore : BOOLEAN]

Idle == [active |-> FALSE, to |-> 0, base |-> {}, counts |-> NoCounts, next |-> 0,
         unsettled |-> {}, failedBefore |-> FALSE]

\* What is kept of an answer: its list, where it came from, its query and what
\* was committed when it was given.
Answered(source, q, list) ==
    [source |-> source, list |-> list, to |-> q.to, base |-> q.base, until |-> Committed,
     unsettled |-> q.unsettled, failedBefore |-> q.failedBefore]

NoAnswer == [source |-> "none", list |-> <<>>, to |-> 0, base |-> {}, until |-> {},
             unsettled |-> {}, failedBefore |-> FALSE]

Answer == [source : {"none", "redis", "mysql"}, list : Seq([menuId : Menu, orderCount : Nat]),
           to : Int, base : SUBSET Nat, until : SUBSET Nat, unsettled : SUBSET Nat,
           failedBefore : BOOLEAN]

Row == [menu : Menu, at : Nat, instance : Instance \cup {NoInstance}, state : OrderState]
Member == [id : Nat, score : Nat]

TypeOK ==
    /\ clock \in 0..MaxTime
    /\ orders \in Seq(Row)
    /\ zset \in [Menu -> SUBSET Member]
    /\ stale \in [Instance -> BOOLEAN]
    /\ up \in [Instance -> BOOLEAN]
    /\ query \in [Instance -> Query]
    /\ answer \in [Instance -> Answer]
    /\ asked \in 0..MaxQueries
    /\ failed \in [Instance -> BOOLEAN]

Init ==
    /\ clock = 0
    /\ orders = [k \in DOMAIN LegacyOrders |->
                   [menu |-> LegacyOrders[k].menu, at |-> LegacyOrders[k].at,
                    instance |-> NoInstance, state |-> "settled"]]
    /\ zset = [m \in Menu |-> {}]
    /\ stale = [i \in Instance |-> FALSE]
    /\ up = [i \in Instance |-> TRUE]
    /\ query = [i \in Instance |-> Idle]
    /\ answer = [i \in Instance |-> NoAnswer]
    /\ asked = 0
    /\ failed = [i \in Instance |-> FALSE]

-----------------------------------------------------------------------------
(* Orders *)

\* OrderService.order reads the clock and inserts the row with that time.
PlaceOrder(i, m) ==
    /\ up[i]
    /\ Len(orders) < MaxOrders
    /\ orders' = Append(orders, [menu |-> m, at |-> clock, instance |-> i, state |-> "open"])
    /\ UNCHANGED <<clock, zset, stale, up, query, answer, asked, failed>>

CommitOrder(k) ==
    /\ orders[k].state = "open"
    /\ orders' = [orders EXCEPT ![k].state = "pending"]
    /\ UNCHANGED <<clock, zset, stale, up, query, answer, asked, failed>>

\* The connection breaks after the server committed: the listener does not run
\* although the instance lives (Payment, CommitAckLost).
CommitAckLost(k) ==
    /\ orders[k].state = "open"
    /\ orders' = [orders EXCEPT ![k].state = "settled"]
    /\ UNCHANGED <<clock, zset, stale, up, query, answer, asked, failed>>

RollbackOrder(k) ==
    /\ orders[k].state = "open"
    /\ orders' = [orders EXCEPT ![k].state = "rolledBack"]
    /\ UNCHANGED <<clock, zset, stale, up, query, answer, asked, failed>>

Zadd(k) == [zset EXCEPT ![orders[k].menu] = @ \cup {[id |-> k, score |-> orders[k].at]}]

\* Mutant: a plain @EventListener adds the order inside its transaction.
RecordBeforeCommit(k) ==
    /\ orders[k].state \in {"open", "pending"}
    /\ zset' = Zadd(k)
    /\ orders' = [orders EXCEPT ![k].state = IF @ = "pending" THEN "settled" ELSE @]
    /\ UNCHANGED <<clock, stale, up, query, answer, asked, failed>>

\* recordAfterCommit: ZADD of the committed order.
RecordAfterCommit(k) ==
    /\ orders[k].state = "pending"
    /\ zset' = Zadd(k)
    /\ orders' = [orders EXCEPT ![k].state = "settled"]
    /\ UNCHANGED <<clock, stale, up, query, answer, asked, failed>>

\* Mutant: the failure is logged but not remembered.
RecordFailsSilently(k) ==
    LET i == orders[k].instance IN
    /\ orders[k].state = "pending"
    /\ zset' \in {zset, Zadd(k)}
    /\ orders' = [orders EXCEPT ![k].state = "settled"]
    /\ failed' = [failed EXCEPT ![i] = TRUE]
    /\ UNCHANGED <<clock, stale, up, query, answer, asked>>

\* The ZADD fails or times out (500 ms), whether or not Redis executed it (any
\* call to Redis may fail, so Redis going away and coming back needs no state
\* of its own; its data is on an append-only file and survives): the
\* instance remembers that Redis may be behind, the listener swallows the rest.
RecordFails(k) ==
    LET i == orders[k].instance IN
    /\ orders[k].state = "pending"
    /\ zset' \in {zset, Zadd(k)}
    /\ stale' = [stale EXCEPT ![i] = TRUE]
    /\ orders' = [orders EXCEPT ![k].state = "settled"]
    /\ failed' = [failed EXCEPT ![i] = TRUE]
    /\ UNCHANGED <<clock, up, query, answer, asked>>

-----------------------------------------------------------------------------
(* Queries *)

From(q) == q.to - Window

AnswerWith(i, source, q, list) ==
    /\ answer' = [answer EXCEPT ![i] = Answered(source, q, list)]
    /\ query' = [query EXCEPT ![i] = Idle]

\* getFromDatabase, inside the transaction and snapshot of the query.
AnswerFromDatabase(i, q) ==
    AnswerWith(i, "mysql", q, FindPopularMenus(Rows(q.base), Menu, From(q), q.to))

\* getPopularMenus up to the stale check of countByMenuIds.
GetPopularMenus(i) ==
    LET q == [active |-> TRUE, to |-> clock, base |-> Committed, counts |-> NoCounts,
              next |-> 0, unsettled |-> Pending, failedBefore |-> failed[i]]
    IN  /\ up[i]
        /\ ~query[i].active
        /\ asked < MaxQueries
        /\ asked' = asked + 1
        /\ IF stale[i]
             THEN AnswerFromDatabase(i, q)
             ELSE query' = [query EXCEPT ![i] = q] /\ UNCHANGED answer
        /\ UNCHANGED <<clock, orders, zset, stale, up, failed>>

\* Mutant: ZCOUNT with an exclusive lower end.
ZcountExclusive(m, from, last) ==
    Cardinality({z \in zset[m] : from < z.score /\ z.score <= last})

\* ZCOUNT key from (to - 1)
Zcount(m, from, last) == Cardinality({z \in zset[m] : from <= z.score /\ z.score <= last})

\* Menus are counted in id order, one Redis call each.
MenuAt(n) == Sorted(Menu, <)[n]

\* Mutant: an empty Redis answer is taken at its word.
CountMenuNoColdStart(i) ==
    LET q == query[i]
        m == MenuAt(q.next + 1)
        r == [q EXCEPT !.counts[m] = Zcount(m, From(q), q.to - 1), !.next = @ + 1]
    IN  /\ q.active
        /\ IF r.next < Cardinality(Menu)
             THEN query' = [query EXCEPT ![i] = r] /\ UNCHANGED answer
             ELSE AnswerWith(i, "redis", r, PopularFromCounts(r.counts))
        /\ UNCHANGED <<clock, orders, zset, stale, up, asked, failed>>

\* One turn of the loop of countByMenuIds; after the last one getFromRedis
\* ranks the counts, or asks MySQL when Redis knows no order at all.
CountMenu(i) ==
    LET q == query[i]
        m == MenuAt(q.next + 1)
        r == [q EXCEPT !.counts[m] = Zcount(m, From(q), q.to - 1), !.next = @ + 1]
    IN  /\ q.active
        /\ IF r.next < Cardinality(Menu)
             THEN query' = [query EXCEPT ![i] = r] /\ UNCHANGED answer
             ELSE IF \A n \in Menu : r.counts[n] = 0
                    THEN AnswerFromDatabase(i, r)
                    ELSE AnswerWith(i, "redis", r, PopularFromCounts(r.counts))
        /\ UNCHANGED <<clock, orders, zset, stale, up, asked, failed>>

\* Mutant: countByMenuIds retries for ever instead of giving up.
CountFailsRetrying(i) ==
    /\ query[i].active
    /\ stale' = [stale EXCEPT ![i] = TRUE]
    /\ query' = [query EXCEPT ![i].next = 0, ![i].counts = NoCounts]
    /\ UNCHANGED <<clock, orders, zset, up, answer, asked, failed>>

\* A ZCOUNT fails or times out: the flag is set and this query uses MySQL.
CountFails(i) ==
    /\ query[i].active
    /\ stale' = [stale EXCEPT ![i] = TRUE]
    /\ AnswerFromDatabase(i, query[i])
    /\ UNCHANGED <<clock, orders, zset, up, asked, failed>>

-----------------------------------------------------------------------------
(* Environment *)

Tick ==
    /\ clock < MaxTime
    /\ clock' = clock + 1
    /\ UNCHANGED <<orders, zset, stale, up, query, answer, asked, failed>>

\* Open transactions roll back, listeners that have not run never will.
Crash(i) ==
    /\ up[i]
    /\ up' = [up EXCEPT ![i] = FALSE]
    /\ orders' = [k \in OrderIds |->
                    IF orders[k].instance # i THEN orders[k]
                    ELSE [orders[k] EXCEPT !.state = CASE @ = "open" -> "rolledBack"
                                                       [] @ = "pending" -> "settled"
                                                       [] OTHER -> @]]
    /\ query' = [query EXCEPT ![i] = Idle]
    /\ UNCHANGED <<clock, zset, stale, answer, asked, failed>>

\* A new process: readModelStale starts as FALSE.
Restart(i) ==
    /\ ~up[i]
    /\ up' = [up EXCEPT ![i] = TRUE]
    /\ stale' = [stale EXCEPT ![i] = FALSE]
    /\ failed' = [failed EXCEPT ![i] = FALSE]
    /\ answer' = [answer EXCEPT ![i] = NoAnswer]
    /\ UNCHANGED <<clock, orders, zset, query, asked>>

Listener(k) == RecordAfterCommit(k) \/ RecordFails(k)
Count(i) == CountMenu(i) \/ CountFails(i)

Next ==
    \/ \E i \in Instance : \/ \E m \in Menu : PlaceOrder(i, m)
                           \/ GetPopularMenus(i) \/ Count(i)
                           \/ Crash(i) \/ Restart(i)
    \/ \E k \in OrderIds : CommitOrder(k) \/ CommitAckLost(k) \/ RollbackOrder(k) \/ Listener(k)
    \/ Tick

Spec == Init /\ [][Next]_vars

\* Listeners and queries run to their end: a Redis call returns or times out.
FairSpec ==
    /\ Spec
    /\ \A i \in Instance : WF_vars(Count(i))
    /\ \A k \in 1..MaxOrders : WF_vars(k \in OrderIds /\ Listener(k))

-----------------------------------------------------------------------------
(* Correctness *)

InWindow(ids, m, q) == {k \in ids : orders[k].menu = m /\ From(q) <= orders[k].at /\ orders[k].at < q.to}

CountIn(list, m) ==
    IF \E e \in DOMAIN list : list[e].menuId = m
      THEN list[CHOOSE e \in DOMAIN list : list[e].menuId = m].orderCount ELSE 0

\* No answer counts an order that is not committed, or one outside the seven
\* days [to - 7d, to): rolled back orders never get into the read model, and
\* the two ends of the window are those of the SQL query.
NeverOverCounts ==
    \A i \in Instance : \A m \in Menu :
        CountIn(answer[i].list, m) <= Cardinality(InWindow(Committed, m, answer[i]))

\* What a query must not miss: the orders that were committed, and whose
\* listener had run, before it started, but for those the read model does not
\* have because their own update failed, their listener never ran or their
\* instance died.
Recorded(q) == {k \in q.base \ q.unsettled : \E z \in zset[orders[k].menu] : z.id = k}

\* An answer from Redis misses none of them: each menu is listed with at least
\* that many orders, or TopN others with as many are listed instead of it.
CountsAllRecorded ==
    \A i \in Instance : answer[i].source = "redis" =>
        \A m \in Menu :
            LET list == answer[i].list
                n == Cardinality(InWindow(Recorded(answer[i]), m, answer[i]))
            IN  \/ CountIn(list, m) >= n
                \/ Len(list) = TopN /\ \A e \in DOMAIN list : list[e].orderCount >= n

\* The sorted sets hold committed orders whose listener ran, each under its
\* menu and with its own time.
ZsetsHoldCommitted ==
    \A m \in Menu : \A z \in zset[m] :
        /\ z.id \in OrderIds /\ orders[z.id].menu = m /\ orders[z.id].at = z.score
        /\ orders[z.id].state = "settled"

\* An instance that has seen one of its own updates fail starts no query on
\* Redis and answers none from it, until it restarts (record sets
\* readModelStale, countByMenuIds checks it).
OwnFailureFallsBack ==
    \A i \in Instance :
        /\ failed[i] => stale[i]
        /\ query[i].active => ~query[i].failedBefore
        /\ answer[i].source = "redis" => ~answer[i].failedBefore

\* What a query holds so far.  Its snapshot is of committed orders, each of
\* them settled unless it was pending when the query started; an answer keeps
\* the snapshot of its query.
SnapshotsSettled ==
    \A i \in Instance : \A q \in {query[i], answer[i]} :
        q.base \subseteq Committed /\ (q.base \ q.unsettled) \cap Pending = {}

\* No menu is counted higher than the committed orders of the window, and none
\* counted lower than the recorded ones, although the menus are counted one by
\* one while orders commit and are added.
QueriesCount ==
    \A i \in Instance :
        /\ \A m \in Menu : query[i].counts[m] <= Cardinality(InWindow(Committed, m, query[i]))
        /\ \A n \in 1..Cardinality(Menu) : n <= query[i].next =>
              query[i].counts[MenuAt(n)]
                >= Cardinality(InWindow(Recorded(query[i]), MenuAt(n), query[i]))

\* The inductive invariant of the read model, with updates, queries, failing
\* calls and crashes in any order: Redis holds nothing but committed orders,
\* no query counts more than those or less than what was recorded before it,
\* and an instance that failed to add an order does not trust Redis.
ReadModelInv ==
    TypeOK /\ ZsetsHoldCommitted /\ OwnFailureFallsBack /\ SnapshotsSettled /\ QueriesCount

\* The list is empty only when no committed order lies in the window, also
\* when Redis is still empty and MySQL is not (docs/logs/popular-menu.md).
NeverEmptyByMistake ==
    \A i \in Instance : answer[i].source # "none" /\ answer[i].list = <<>> =>
        \A m \in Menu : InWindow(answer[i].base, m, answer[i]) = {}

\* Every query ends with an answer although Redis may be away, and every
\* committed order's listener ends too.
QueriesAndListenersEnd ==
    /\ \A i \in Instance : query[i].active ~> ~query[i].active
    /\ \A k \in 1..MaxOrders : (k \in OrderIds /\ orders[k].state = "pending")
                                 ~> (k \in OrderIds /\ orders[k].state = "settled")

\* docs/strategy.md: whichever instance serves the request, it sees the same
\* popular read model.  Two answers for the same window and the same
\* committed orders, with no order in progress meanwhile, would be equal.
SameAnswerOnAnyInstance ==
    \A i, j \in Instance :
        LET p == answer[i]
            q == answer[j]
        IN  /\ answer[i].source # "none" /\ answer[j].source # "none"
            /\ p.to = q.to /\ p.base = q.base /\ p.until = p.base /\ q.until = q.base
            /\ p.unsettled = {} /\ q.unsettled = {}
            => answer[i].list = answer[j].list
=============================================================================
