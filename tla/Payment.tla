------------------------------- MODULE Payment ------------------------------
(***************************************************************************)
(* Charging points (PointService.charge) and paying an order               *)
(* (OrderService.order) on several application instances that share one    *)
(* MySQL database.                                                         *)
(*                                                                         *)
(* A request is served by one thread of one instance.  Between two steps   *)
(* of a thread the threads of every instance may act: the only thing that  *)
(* serialises two requests of a user is the row lock of findByIdForUpdate. *)
(* Nothing a transaction writes is visible before its commit; the balance  *)
(* is written at commit, as an absolute value, from the entity loaded      *)
(* under the lock.                                                         *)
(***************************************************************************)
EXTENDS Integers, Sequences, FiniteSets

CONSTANTS
    Instance,        \* application instances behind the load balancer
    Thread,          \* request threads of all instances
    Host,            \* Host[t]: the instance thread t belongs to
    NoThread,        \* "nobody holds the row lock"
    UserId, User,    \* ids a client may send, and the users that exist
    MenuId, Menu,    \* ids a client may send, and the menus that exist
    NoMenu,          \* no menu id: a charge request, an incomplete order
    Amount,          \* amounts a client may send to the charge endpoint
    Price,           \* values the price column of a menu may take
    MaxLong,         \* largest value of a Java long
    InitialBalance,  \* balance of every user before the first request
    InitialPrice,    \* price of every menu before the first request
    MaxRequests      \* bound: number of requests served

ASSUME ThreadAssumption == /\ Host \in [Thread -> Instance]
                           /\ NoThread \notin Thread
ASSUME DomainAssumption == /\ UserId # {}
                           /\ User \subseteq UserId
                           /\ Menu \subseteq MenuId
                           /\ NoMenu \notin MenuId
                           /\ Amount \subseteq Int
                           /\ Price \subseteq Int
ASSUME ValueAssumption == /\ MaxLong \in Nat
                          /\ InitialBalance \in [User -> 0..MaxLong]
                          /\ InitialPrice \in [Menu -> Price]
                          /\ \A a \in Amount \cup Price : a <= MaxLong
                          /\ MaxRequests \in Nat

VARIABLES
    balance,      \* users.balance, as committed
    history,      \* history[u]: point_history rows of u, in commit order
    orders,       \* orders[u]: orders rows of u, in commit order
    price,        \* menus.price, as committed
    rowLock,      \* rowLock[u]: the thread whose transaction holds u's row
    nextOrderId,  \* AUTO_INCREMENT counter of orders
    up,           \* up[i]: instance i is running
    pc,           \* pc[t]: the statement thread t executes next
    tx,           \* tx[t]: request, entity and uncommitted writes of thread t
    reply,        \* reply[t]: the last answer thread t gave
    published,    \* OrderPaidEvents handed to the AFTER_COMMIT listeners
    received,     \* number of requests served so far
    trail         \* auxiliary: trail[u] is every balance u ever had

dbVars == <<balance, history, orders, trail>>
vars == <<balance, history, orders, price, rowLock, nextOrderId, up, pc, tx,
          reply, published, received, trail>>

-----------------------------------------------------------------------------
PointHistoryType == {"CHARGE", "USE"}

\* Error codes a business rule answers with; the transaction is rolled back.
BusinessError == {"VALIDATION_ERROR", "MENU_NOT_FOUND", "USER_NOT_FOUND",
                  "INSUFFICIENT_POINT", "POINT_BALANCE_OVERFLOW"}

\* NONE: no answer (yet, or the instance died).  SERVER_ERROR: any other
\* exception, which no handler of GlobalExceptionHandler translates.
Status == BusinessError \cup {"NONE", "OK", "SERVER_ERROR"}

InTransaction == {"apply", "saveHistory", "saveOrder", "commit"}
Step == InTransaction \cup {"idle", "lock", "afterCommit"}

HistoryRow == [req : Nat, type : PointHistoryType, amount : Int]
OrderRow == [id : Nat, req : Nat, menu : MenuId, price : Int]

\* The request (req, type, user, menu, amount: the charge amount or the price
\* read from the menu), the User entity's balance, the rows already inserted,
\* the generated order id and the position of the committed history row.
Tx == [req : Nat, type : PointHistoryType, user : UserId,
       menu : MenuId \cup {NoMenu}, amount : Int, bal : Int,
       saved : SUBSET {"history", "order"}, orderId : Nat, at : Nat]

Reply == [status : Status, req : Nat, user : UserId, type : PointHistoryType,
          amount : Int, bal : Int, at : Nat]

NewTx(r, ty, u, m, a) ==
    [req |-> r, type |-> ty, user |-> u, menu |-> m, amount |-> a, bal |-> 0,
     saved |-> {}, orderId |-> 0, at |-> 0]

Answer(s, x) ==
    [status |-> s, req |-> x.req, user |-> x.user, type |-> x.type,
     amount |-> x.amount, bal |-> x.bal, at |-> x.at]

HistoryRowOf(x) == [req |-> x.req, type |-> x.type, amount |-> x.amount]
OrderRowOf(x) == [id |-> x.orderId, req |-> x.req, menu |-> x.menu, price |-> x.amount]

TypeOK ==
    /\ balance \in [User -> 0..MaxLong]
    /\ history \in [User -> Seq(HistoryRow)]
    /\ orders \in [User -> Seq(OrderRow)]
    /\ price \in [Menu -> Price]
    /\ rowLock \in [User -> Thread \cup {NoThread}]
    /\ nextOrderId \in Nat \ {0}
    /\ up \in [Instance -> BOOLEAN]
    /\ pc \in [Thread -> Step]
    /\ tx \in [Thread -> Tx]
    /\ reply \in [Thread -> Reply]
    /\ published \in Seq(OrderRow)
    /\ received \in 0..MaxRequests
    /\ trail \in [User -> Seq(0..MaxLong)]

NoTx == NewTx(0, "CHARGE", CHOOSE u \in UserId : TRUE, NoMenu, 0)

Init ==
    /\ balance = InitialBalance
    /\ history = [u \in User |-> <<>>]
    /\ orders = [u \in User |-> <<>>]
    /\ price = InitialPrice
    /\ rowLock = [u \in User |-> NoThread]
    /\ nextOrderId = 1
    /\ up = [i \in Instance |-> TRUE]
    /\ pc = [t \in Thread |-> "idle"]
    /\ tx = [t \in Thread |-> NoTx]
    /\ reply = [t \in Thread |-> Answer("NONE", NoTx)]
    /\ published = <<>>
    /\ received = 0
    /\ trail = [u \in User |-> <<InitialBalance[u]>>]

-----------------------------------------------------------------------------
(* Steps of a request thread *)

\* Mutant: a transaction that ends keeps its row lock.
StillLocked(t) == rowLock

\* Locks the database gives back when the transaction of t ends.
Unlocked(t) == [u \in User |-> IF rowLock[u] = t THEN NoThread ELSE rowLock[u]]

\* The transaction of t ends without effect and t answers s.
RollbackWith(t, s) ==
    /\ pc' = [pc EXCEPT ![t] = "idle"]
    /\ rowLock' = Unlocked(t)
    /\ reply' = [reply EXCEPT ![t] = Answer(s, tx[t])]
    /\ UNCHANGED <<dbVars, price, nextOrderId, up, tx, published, received>>

\* Thread t takes the next request x; a request that fails before any lock is
\* taken is answered with s, otherwise t goes on to lock the user's row.
Take(t, x, s) ==
    /\ pc[t] = "idle"
    /\ up[Host[t]]
    /\ received < MaxRequests
    /\ received' = received + 1
    /\ tx' = [tx EXCEPT ![t] = x]
    /\ reply' = [reply EXCEPT ![t] = Answer(s, x)]
    /\ pc' = [pc EXCEPT ![t] = IF s = "NONE" THEN "lock" ELSE "idle"]
    /\ UNCHANGED <<dbVars, price, rowLock, nextOrderId, up, published>>

\* POST /users/{id}/points/charge: @NotNull @Positive reject the body before
\* the service is called.
ChargeRequest(t, u, a) ==
    Take(t, NewTx(received + 1, "CHARGE", u, NoMenu, a),
         IF a <= 0 THEN "VALIDATION_ERROR" ELSE "NONE")

\* POST /orders: @NotNull rejects a body without menu (or user) id; the menu,
\* and with it the price, is read before the lock.
OrderRequest(t, u, m) ==
    IF m \in Menu
      THEN Take(t, NewTx(received + 1, "USE", u, m, price[m]), "NONE")
      ELSE Take(t, NewTx(received + 1, "USE", u, m, 0),
                IF m = NoMenu THEN "VALIDATION_ERROR" ELSE "MENU_NOT_FOUND")

\* Mutant: findById instead of findByIdForUpdate.
FindByIdUnlocked(t) ==
    /\ pc[t] = "lock"
    /\ tx[t].user \in User
    /\ tx' = [tx EXCEPT ![t].bal = balance[tx[t].user]]
    /\ pc' = [pc EXCEPT ![t] = "apply"]
    /\ UNCHANGED <<dbVars, price, rowLock, nextOrderId, up, reply, published, received>>

\* findByIdForUpdate: SELECT ... FOR UPDATE waits for the row, then reads its
\* committed value into the entity.
FindByIdForUpdate(t) ==
    LET u == tx[t].user IN
    /\ pc[t] = "lock"
    /\ u \in User
    /\ rowLock[u] = NoThread
    /\ rowLock' = [rowLock EXCEPT ![u] = t]
    /\ tx' = [tx EXCEPT ![t].bal = balance[u]]
    /\ pc' = [pc EXCEPT ![t] = "apply"]
    /\ UNCHANGED <<dbVars, price, nextOrderId, up, reply, published, received>>

UserNotFound(t) ==
    /\ pc[t] = "lock"
    /\ tx[t].user \notin User
    /\ RollbackWith(t, "USER_NOT_FOUND")

\* InnoDB gives up waiting for a row that stays locked.
LockWaitTimeout(t) ==
    /\ pc[t] = "lock"
    /\ tx[t].user \in User
    /\ rowLock[tx[t].user] # NoThread
    /\ RollbackWith(t, "SERVER_ERROR")

\* The entity changes in memory and the transaction goes on to save history.
SetBalance(t, b) ==
    /\ tx' = [tx EXCEPT ![t].bal = b]
    /\ pc' = [pc EXCEPT ![t] = "saveHistory"]
    /\ UNCHANGED <<dbVars, price, rowLock, nextOrderId, up, reply, published, received>>

\* Mutant: balance + amount instead of Math.addExact; a long wraps around.
ChargeWrapping(t) ==
    LET x == tx[t] IN
    /\ pc[t] = "apply"
    /\ x.type = "CHARGE"
    /\ SetBalance(t, ((x.bal + x.amount + MaxLong + 1) % (2 * (MaxLong + 1))) - MaxLong - 1)

\* User.charge with Math.addExact.
Charge(t) ==
    LET x == tx[t] IN
    /\ pc[t] = "apply"
    /\ x.type = "CHARGE"
    /\ IF x.bal + x.amount > MaxLong
         THEN RollbackWith(t, "POINT_BALANCE_OVERFLOW")
         ELSE SetBalance(t, x.bal + x.amount)

\* User.use; a price that is not positive is an IllegalArgumentException.
Use(t) ==
    LET x == tx[t] IN
    /\ pc[t] = "apply"
    /\ x.type = "USE"
    /\ IF x.amount <= 0 THEN RollbackWith(t, "SERVER_ERROR")
       ELSE IF x.bal < x.amount THEN RollbackWith(t, "INSUFFICIENT_POINT")
       ELSE SetBalance(t, x.bal - x.amount)

\* pointHistoryRepository.save: an IDENTITY key makes the INSERT immediate.
SaveHistory(t) ==
    /\ pc[t] = "saveHistory"
    /\ tx' = [tx EXCEPT ![t].saved = @ \cup {"history"}]
    /\ pc' = [pc EXCEPT ![t] = IF tx[t].type = "USE" THEN "saveOrder" ELSE "commit"]
    /\ UNCHANGED <<dbVars, price, rowLock, nextOrderId, up, reply, published, received>>

\* Mutant: an exception of the order INSERT is swallowed and the transaction
\* commits.
SaveOrderSwallowed(t) ==
    /\ pc[t] = "saveOrder"
    /\ \/ tx' = [tx EXCEPT ![t].saved = @ \cup {"order"}, ![t].orderId = nextOrderId]
       \/ tx' = [tx EXCEPT ![t].orderId = nextOrderId]
    /\ nextOrderId' = nextOrderId + 1
    /\ pc' = [pc EXCEPT ![t] = "commit"]
    /\ UNCHANGED <<dbVars, price, rowLock, up, reply, published, received>>

\* Mutant: a plain @EventListener, called inside the transaction.
SaveOrderPublishing(t) ==
    /\ pc[t] = "saveOrder"
    /\ tx' = [tx EXCEPT ![t].saved = @ \cup {"order"}, ![t].orderId = nextOrderId]
    /\ published' = Append(published, OrderRowOf(tx'[t]))
    /\ nextOrderId' = nextOrderId + 1
    /\ pc' = [pc EXCEPT ![t] = "commit"]
    /\ UNCHANGED <<dbVars, price, rowLock, up, reply, received>>

\* Mutant: the id is one more than the number of committed orders.
SaveOrderCountingRows(t) ==
    /\ pc[t] = "saveOrder"
    /\ tx' = [tx EXCEPT ![t].saved = @ \cup {"order"},
                        ![t].orderId = 1 + Cardinality(UNION {{<<u, i>> : i \in DOMAIN orders[u]} : u \in User})]
    /\ nextOrderId' = nextOrderId + 1
    /\ pc' = [pc EXCEPT ![t] = "commit"]
    /\ UNCHANGED <<dbVars, price, rowLock, up, reply, published, received>>

\* orderRepository.save; the id it takes is not given back by a rollback.
SaveOrder(t) ==
    /\ pc[t] = "saveOrder"
    /\ tx' = [tx EXCEPT ![t].saved = @ \cup {"order"}, ![t].orderId = nextOrderId]
    /\ nextOrderId' = nextOrderId + 1
    /\ pc' = [pc EXCEPT ![t] = "commit"]
    /\ UNCHANGED <<dbVars, price, rowLock, up, reply, published, received>>

\* What COMMIT makes visible: the dirty entity, flushed as
\* UPDATE users SET balance = ?, and the inserted rows.
CommitWrites(x) ==
    LET u == x.user IN
    /\ balance' = [balance EXCEPT ![u] = x.bal]
    /\ history' = IF "history" \in x.saved
                    THEN [history EXCEPT ![u] = Append(@, HistoryRowOf(x))] ELSE history
    /\ orders' = IF "order" \in x.saved
                   THEN [orders EXCEPT ![u] = Append(@, OrderRowOf(x))] ELSE orders
    /\ trail' = [trail EXCEPT ![u] = Append(@, x.bal)]

Commit(t) ==
    /\ pc[t] = "commit"
    /\ CommitWrites(tx[t])
    /\ rowLock' = Unlocked(t)
    /\ tx' = [tx EXCEPT ![t].at = Len(history[tx[t].user]) + 1]
    /\ pc' = [pc EXCEPT ![t] = "afterCommit"]
    /\ UNCHANGED <<price, nextOrderId, up, reply, published, received>>

\* Mutant: the request is retried when its commit seems to have failed.
CommitRetried(t) ==
    /\ pc[t] = "commit"
    /\ CommitWrites(tx[t])
    /\ rowLock' = Unlocked(t)
    /\ tx' = [tx EXCEPT ![t].saved = {}]
    /\ pc' = [pc EXCEPT ![t] = "lock"]
    /\ UNCHANGED <<price, nextOrderId, up, reply, published, received>>

\* The connection breaks after the server committed: Spring sees a failed
\* commit, runs no AFTER_COMMIT listener and the client gets a server error.
CommitAckLost(t) ==
    /\ pc[t] = "commit"
    /\ CommitWrites(tx[t])
    /\ rowLock' = Unlocked(t)
    /\ reply' = [reply EXCEPT ![t] = Answer("SERVER_ERROR", tx[t])]
    /\ pc' = [pc EXCEPT ![t] = "idle"]
    /\ UNCHANGED <<price, nextOrderId, up, tx, published, received>>

\* Mutant: the answer carries the balance read again after the commit.
AfterCommitReread(t) ==
    /\ pc[t] = "afterCommit"
    /\ published' = IF tx[t].type = "USE" THEN Append(published, OrderRowOf(tx[t])) ELSE published
    /\ reply' = [reply EXCEPT ![t] = Answer("OK", [tx[t] EXCEPT !.bal = balance[tx[t].user]])]
    /\ pc' = [pc EXCEPT ![t] = "idle"]
    /\ UNCHANGED <<dbVars, price, rowLock, nextOrderId, up, tx, received>>

\* The AFTER_COMMIT listeners get the event, then the controller answers.
\* What a listener throws never reaches the client.
AfterCommit(t) ==
    /\ pc[t] = "afterCommit"
    /\ published' = IF tx[t].type = "USE" THEN Append(published, OrderRowOf(tx[t])) ELSE published
    /\ reply' = [reply EXCEPT ![t] = Answer("OK", tx[t])]
    /\ pc' = [pc EXCEPT ![t] = "idle"]
    /\ UNCHANGED <<dbVars, price, rowLock, nextOrderId, up, tx, received>>

\* Any statement of the transaction fails: @Transactional rolls back.
StatementFails(t) ==
    /\ pc[t] \in InTransaction \cup {"lock"}
    /\ RollbackWith(t, "SERVER_ERROR")

-----------------------------------------------------------------------------
(* Environment *)

\* The process of instance i dies: its connections close, so the database
\* rolls back its transactions, and events not yet handed over are gone.
Crash(i) ==
    /\ up[i]
    /\ up' = [up EXCEPT ![i] = FALSE]
    /\ pc' = [t \in Thread |-> IF Host[t] = i THEN "idle" ELSE pc[t]]
    /\ rowLock' = [u \in User |-> IF rowLock[u] \in Thread /\ Host[rowLock[u]] = i
                                    THEN NoThread ELSE rowLock[u]]
    /\ UNCHANGED <<dbVars, price, nextOrderId, tx, reply, published, received>>

Restart(i) ==
    /\ ~up[i]
    /\ up' = [up EXCEPT ![i] = TRUE]
    /\ UNCHANGED <<dbVars, price, rowLock, nextOrderId, pc, tx, reply, published, received>>

\* No code of the service writes menus; an operator may.
ChangePrice(m, p) ==
    /\ p # price[m]
    /\ price' = [price EXCEPT ![m] = p]
    /\ UNCHANGED <<dbVars, rowLock, nextOrderId, up, pc, tx, reply, published, received>>

\* What a thread does by itself once it has a request.
Serve(t) ==
    \/ FindByIdForUpdate(t) \/ UserNotFound(t) \/ LockWaitTimeout(t)
    \/ Charge(t) \/ Use(t) \/ SaveHistory(t) \/ SaveOrder(t)
    \/ Commit(t) \/ AfterCommit(t)

Next ==
    \/ \E t \in Thread :
         \/ \E u \in UserId, a \in Amount : ChargeRequest(t, u, a)
         \/ \E u \in UserId, m \in MenuId \cup {NoMenu} : OrderRequest(t, u, m)
         \/ Serve(t)
         \/ CommitAckLost(t)
         \/ StatementFails(t)
    \/ \E i \in Instance : Crash(i) \/ Restart(i)
    \/ \E m \in Menu, p \in Price : ChangePrice(m, p)

Spec == Init /\ [][Next]_vars

\* A running thread keeps executing its request; waiting for a row lock ends
\* with the lock or with InnoDB's timeout.
FairSpec == Spec /\ \A t \in Thread : WF_vars(Serve(t))
-----------------------------------------------------------------------------
(* Correctness *)

\* What a history row adds to the balance.
Signed(row) == IF row.type = "CHARGE" THEN row.amount ELSE -row.amount

\* Every balance a user ever had is the previous one plus the history row
\* committed with it, starting from the initial balance and ending in the
\* stored one: no charge or payment of another thread is lost or counted
\* twice (findByIdForUpdate keeps PointService.charge and OrderService.order
\* of one user apart; the commit writes the balance as an absolute value).
LedgerConsistent ==
    \A u \in User :
        /\ Len(trail[u]) = Len(history[u]) + 1
        /\ trail[u][1] = InitialBalance[u]
        /\ \A i \in 1..Len(history[u]) : trail[u][i + 1] = trail[u][i] + Signed(history[u][i])
        /\ balance[u] = trail[u][Len(history[u]) + 1]

\* An order exists exactly when the points for it were taken: every order has
\* a USE row of its request and price, and every USE row has its order
\* (OrderService.order saves both in one transaction, which may fail between
\* the two).
OrderPerUse ==
    \A u \in User :
        /\ \A i \in DOMAIN orders[u] : \E j \in DOMAIN history[u] :
              history[u][j] = [req |-> orders[u][i].req, type |-> "USE", amount |-> orders[u][i].price]
        /\ \A j \in DOMAIN history[u] : history[u][j].type = "USE" =>
              \E i \in DOMAIN orders[u] : /\ orders[u][i].req = history[u][j].req
                                          /\ orders[u][i].price = history[u][j].amount

\* The ids of a user's orders grow in commit order, and no id is used twice,
\* although ids are drawn before the commit and rolled back ids are skipped.
OrderIdsIncrease ==
    \A u, v \in User : \A i \in DOMAIN orders[u], j \in DOMAIN orders[v] :
        /\ u = v /\ i < j => orders[u][i].id < orders[v][j].id
        /\ u # v => orders[u][i].id # orders[v][j].id

\* An answer tells the truth: after success the request's own row is
\* committed and the balance in the answer is the one right after that row;
\* after a business error nothing of the request is committed.
ReplyTruthful ==
    \A t \in Thread :
        LET r == reply[t] IN
        /\ r.status = "OK" =>
             /\ r.at \in DOMAIN history[r.user]
             /\ history[r.user][r.at] = HistoryRowOf(r)
             /\ trail[r.user][r.at + 1] = r.bal
        /\ r.status \in BusinessError =>
             \A u \in User : \A i \in DOMAIN history[u] : history[u][i].req # r.req

\* The listeners only ever see orders that are committed, and each at most
\* once, whatever rolls back or crashes (TransactionPhase.AFTER_COMMIT).
EventsAreCommitted ==
    \A i \in DOMAIN published :
        /\ \E u \in User : \E k \in DOMAIN orders[u] : orders[u][k] = published[i]
        /\ \A j \in DOMAIN published : published[i] = published[j] => i = j

\* The abstract ledger, over the same database columns.
L == INSTANCE Ledger WITH balance <- balance, history <- history, orders <- orders

\* Threads, locks, failures and crashes together do what the atomic ledger
\* does: each request takes effect at once, at most once, within the balance.
LedgerRefinement == L!LedgerSpec

\* Every request a thread has taken is answered or dies with its instance,
\* and no user's row stays locked for ever: each way out of a transaction
\* (commit, rollback, lost connection, crash) gives the lock back.
Progress ==
    /\ \A t \in Thread : pc[t] # "idle" ~> pc[t] = "idle"
    /\ \A u \in User : rowLock[u] # NoThread ~> rowLock[u] = NoThread

-----------------------------------------------------------------------------
(* The inductive invariant behind LedgerConsistent *)

\* A thread in its transaction holds the row of its user, and a row is held
\* by a thread that is in a transaction of that user.
LockDiscipline ==
    /\ \A t \in Thread : pc[t] \in InTransaction =>
          /\ tx[t].user \in User
          /\ rowLock[tx[t].user] = t
    /\ \A u \in User : rowLock[u] # NoThread =>
          /\ pc[rowLock[u]] \in InTransaction
          /\ tx[rowLock[u]].user = u

\* The entity of a thread is never stale: it is the committed balance, plus
\* the thread's own change once that is made.
EntityFresh ==
    \A t \in Thread :
        LET x == tx[t] IN
        /\ pc[t] = "apply" => x.bal = balance[x.user]
        /\ pc[t] \in {"saveHistory", "saveOrder", "commit"} =>
             /\ x.bal = balance[x.user] + Signed(HistoryRowOf(x))
             /\ x.bal \in 0..MaxLong

\* What a transaction has inserted when it reaches each of its statements;
\* only a positive amount gets past the validation of a charge request.
RowsSaved ==
    \A t \in Thread :
        LET x == tx[t] IN
        /\ pc[t] # "idle" /\ x.type = "CHARGE" => x.amount > 0
        /\ pc[t] \in {"lock", "apply", "saveHistory"} => x.saved = {}
        /\ pc[t] = "saveOrder" => x.saved = {"history"} /\ x.type = "USE"
        /\ pc[t] # "idle" /\ x.type = "USE" => x.menu \in Menu
        /\ pc[t] = "commit" => x.saved = IF x.type = "USE" THEN {"history", "order"} ELSE {"history"}

\* Mutual exclusion, freshness and the ledger itself hold together.
PaymentInv == TypeOK /\ LockDiscipline /\ EntityFresh /\ RowsSaved /\ LedgerConsistent

-----------------------------------------------------------------------------
(* The inductive invariant behind the other properties *)

BeforeCommit == InTransaction \cup {"lock"}
HasOrderId(t) == pc[t] \in {"commit", "afterCommit"} /\ tx[t].type = "USE"

\* A request is applied at most once: no two rows are of one request, and a
\* request that may still commit, or that was refused, has no row yet.
RequestsOnce ==
    /\ \A u \in User : \A i \in DOMAIN history[u] :
          /\ history[u][i].req <= received
          /\ \A t \in Thread : pc[t] \in BeforeCommit => history[u][i].req # tx[t].req
          /\ \A v \in User : \A j \in DOMAIN history[v] :
                history[u][i].req = history[v][j].req => u = v /\ i = j
    /\ \A t \in Thread :
          /\ tx[t].req <= received /\ reply[t].req <= received
          /\ \A s \in Thread : pc[s] \in BeforeCommit =>
                /\ s # t /\ pc[t] \in BeforeCommit => tx[s].req # tx[t].req
                /\ reply[t].status \in BusinessError => tx[s].req # reply[t].req

\* An order id is drawn once, is not published before its turn and, because
\* it is drawn under the row lock, is greater than the ids of the user's
\* committed orders.
IdsDrawnOnce ==
    /\ \A u \in User : \A i \in DOMAIN orders[u] : orders[u][i].id < nextOrderId
    /\ \A t \in Thread : HasOrderId(t) =>
          /\ tx[t].orderId < nextOrderId
          /\ \A i \in DOMAIN published : published[i].id # tx[t].orderId
          /\ \A s \in Thread : s # t /\ HasOrderId(s) => tx[s].orderId # tx[t].orderId
          /\ pc[t] = "commit" =>
                \A u \in User : \A i \in DOMAIN orders[u] :
                   /\ orders[u][i].id # tx[t].orderId
                   /\ u = tx[t].user => orders[u][i].id < tx[t].orderId

\* Only a positive price gets past User.use; a thread that has committed
\* knows where its own rows are.
OwnRowsKnown ==
    \A t \in Thread :
        LET x == tx[t] IN
        /\ pc[t] \in {"saveHistory", "saveOrder", "commit"} => x.amount > 0
        /\ pc[t] = "afterCommit" =>
             /\ x.user \in User
             /\ x.at \in DOMAIN history[x.user]
             /\ history[x.user][x.at] = HistoryRowOf(x)
             /\ trail[x.user][x.at + 1] = x.bal
             /\ x.type = "USE" => \E k \in DOMAIN orders[x.user] : orders[x.user][k] = OrderRowOf(x)
        /\ reply[t].status = "OK" => reply[t].user \in User

\* Mutual exclusion, freshness, the ledger, and what requests, ids, answers
\* and events owe to them hold together.
RequestInv ==
    /\ PaymentInv
    /\ RequestsOnce /\ IdsDrawnOnce /\ OwnRowsKnown
    /\ OrderPerUse /\ OrderIdsIncrease /\ ReplyTruthful /\ EventsAreCommitted
=============================================================================
