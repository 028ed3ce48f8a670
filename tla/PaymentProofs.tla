---------------------------- MODULE PaymentProofs ---------------------------
(***************************************************************************)
(* For every number of threads, instances, users, menus and requests: the  *)
(* ledger of Payment is consistent, its promises to clients and listeners  *)
(* are kept, and it implements the atomic Ledger.                          *)
(***************************************************************************)
EXTENDS Payment, TLAPS

USE ThreadAssumption, DomainAssumption, ValueAssumption

\* A record with the fields of a transaction is one.
LEMMA NewTxType ==
    ASSUME NEW r \in Nat, NEW ty \in PointHistoryType, NEW u \in UserId,
           NEW m \in MenuId \cup {NoMenu}, NEW a \in Int
    PROVE  NewTx(r, ty, u, m, a) \in Tx
  BY DEF NewTx, Tx

\* Answering a transaction gives a well-formed reply.
LEMMA AnswerType ==
    ASSUME NEW x \in Tx, NEW s \in Status
    PROVE  Answer(s, x) \in Reply
  BY DEF Answer, Tx, Reply

\* The invariant holds before the first request.
LEMMA InitInv == Init => PaymentInv
  <1> SUFFICES ASSUME Init PROVE PaymentInv
    OBVIOUS
  <1> USE DEF Init
  <1>1. NoTx \in Tx
    <2>1. (CHOOSE u \in UserId : TRUE) \in UserId
      OBVIOUS
    <2>. QED  BY <2>1, NewTxType DEF NoTx, PointHistoryType
  <1>2. Answer("NONE", NoTx) \in Reply
    BY <1>1, AnswerType DEF Status
  <1>3. TypeOK
    BY <1>1, <1>2 DEF TypeOK, Step
  <1>4. LockDiscipline
    BY DEF LockDiscipline, InTransaction
  <1>5. EntityFresh
    BY DEF EntityFresh
  <1>6. RowsSaved
    BY DEF RowsSaved
  <1>7. LedgerConsistent
    BY DEF LedgerConsistent
  <1>. QED  BY <1>3, <1>4, <1>5, <1>6, <1>7 DEF PaymentInv

\* Ending a transaction without effect (RollbackWith) keeps the invariant.
LEMMA RollbackInv ==
    ASSUME PaymentInv, NEW t \in Thread, NEW s \in Status,
           RollbackWith(t, s)
    PROVE  PaymentInv'
  <1> USE DEF PaymentInv, RollbackWith, Unlocked, dbVars
  <1>1. TypeOK'
    <2>1. Answer(s, tx[t]) \in Reply
      BY AnswerType DEF TypeOK
    <2>. QED  BY <2>1 DEF TypeOK, Step
  <1>2. LockDiscipline'
    BY DEF LockDiscipline, InTransaction, TypeOK
  <1>3. EntityFresh'
    BY DEF EntityFresh, TypeOK
  <1>4. RowsSaved'
    BY DEF RowsSaved, TypeOK
  <1>5. LedgerConsistent'
    BY DEF LedgerConsistent
  <1>. QED  BY <1>1, <1>2, <1>3, <1>4, <1>5

\* Taking a request that is either answered at once or well-formed keeps it.
LEMMA TakeInv ==
    ASSUME PaymentInv, NEW t \in Thread, NEW x \in Tx, NEW s \in Status,
           Take(t, x, s), x.saved = {},
           s = "NONE" => (x.type = "CHARGE" => x.amount > 0) /\ (x.type = "USE" => x.menu \in Menu)
    PROVE  PaymentInv'
  <1> USE DEF PaymentInv, Take, dbVars
  <1>1. TypeOK'
    <2>1. Answer(s, x) \in Reply
      BY AnswerType
    <2>. QED  BY <2>1 DEF TypeOK, Step
  <1>2. LockDiscipline'
    BY DEF LockDiscipline, InTransaction, TypeOK
  <1>3. EntityFresh'
    BY DEF EntityFresh, TypeOK
  <1>4. RowsSaved'
    BY DEF RowsSaved, TypeOK
  <1>5. LedgerConsistent'
    BY DEF LedgerConsistent
  <1>. QED  BY <1>1, <1>2, <1>3, <1>4, <1>5
\* y is the transaction x after some of its own statements.
SameRequest(y, x) ==
    /\ y.req = x.req /\ y.type = x.type /\ y.user = x.user
    /\ y.menu = x.menu /\ y.amount = x.amount

\* Setting the entity's balance leaves the rest of a transaction alone.
LEMMA TxBal ==
    ASSUME NEW x \in Tx, NEW b \in Int
    PROVE  LET y == [x EXCEPT !.bal = b]
           IN  y \in Tx /\ SameRequest(y, x) /\ y.bal = b /\ y.saved = x.saved
  BY DEF Tx, SameRequest

\* So does noting where its history row was committed,
LEMMA TxAt ==
    ASSUME NEW x \in Tx, NEW n \in Nat
    PROVE  LET y == [x EXCEPT !.at = n]
           IN  y \in Tx /\ SameRequest(y, x) /\ y.bal = x.bal /\ y.saved = x.saved
  BY DEF Tx, SameRequest

\* and noting an inserted row.
LEMMA TxSaved ==
    ASSUME NEW x \in Tx, NEW s \in SUBSET {"history", "order"}
    PROVE  LET y == [x EXCEPT !.saved = s]
           IN  y \in Tx /\ SameRequest(y, x) /\ y.bal = x.bal /\ y.saved = s
  BY DEF Tx, SameRequest

\* A statement inside the transaction: t holds (or now takes) its user's row
\* and only its own entity and uncommitted rows change.
LEMMA StatementInv ==
    ASSUME PaymentInv, NEW t \in Thread, pc[t] # "idle",
           NEW y \in Tx, SameRequest(y, tx[t]), tx' = [tx EXCEPT ![t] = y],
           NEW p \in InTransaction, pc' = [pc EXCEPT ![t] = p],
           y.user \in User, rowLock[y.user] \in {t, NoThread},
           rowLock' = [rowLock EXCEPT ![y.user] = t],
           p = "apply" => y.bal = balance[y.user],
           p # "apply" => y.bal = balance[y.user] + Signed(HistoryRowOf(y)) /\ y.bal \in 0..MaxLong,
           p \in {"apply", "saveHistory"} => y.saved = {},
           p = "saveOrder" => y.saved = {"history"} /\ y.type = "USE",
           p = "commit" => y.saved = IF y.type = "USE" THEN {"history", "order"} ELSE {"history"},
           nextOrderId' \in Nat \ {0},
           UNCHANGED <<dbVars, price, up, reply, published, received>>
    PROVE  PaymentInv'
  <1> USE DEF PaymentInv, dbVars
  <1>1. /\ tx' \in [Thread -> Tx] /\ tx'[t] = y /\ pc'[t] = p
        /\ \A s \in Thread \ {t} : tx'[s] = tx[s] /\ pc'[s] = pc[s]
    BY DEF TypeOK
  <1>2. /\ rowLock'[y.user] = t
        /\ \A v \in User \ {y.user} : rowLock'[v] = rowLock[v]
    BY DEF TypeOK
  <1>3. TypeOK'
    BY <1>1 DEF TypeOK, Step
  <1>4. LockDiscipline'
    <2>1. ASSUME NEW s \in Thread, pc'[s] \in InTransaction
          PROVE  tx'[s].user \in User /\ rowLock'[tx'[s].user] = s
      <3>1. CASE s = t
        BY <3>1, <1>1, <1>2
      <3>2. CASE s # t
        BY <2>1, <3>2, <1>1, <1>2 DEF LockDiscipline
      <3>. QED  BY <3>1, <3>2
    <2>2. ASSUME NEW v \in User, rowLock'[v] # NoThread
          PROVE  pc'[rowLock'[v]] \in InTransaction /\ tx'[rowLock'[v]].user = v
      <3>1. CASE v = y.user
        BY <3>1, <1>1, <1>2
      <3>2. CASE v # y.user
        <4>1. rowLock[v] \in Thread /\ rowLock'[v] = rowLock[v] /\ tx[rowLock[v]].user = v
              /\ pc[rowLock[v]] \in InTransaction
          BY <2>2, <3>2, <1>2 DEF LockDiscipline, TypeOK
        <4>2. rowLock[v] # t
          BY <3>2, <4>1 DEF SameRequest
        <4>. QED  BY <4>1, <4>2, <1>1
      <3>. QED  BY <3>1, <3>2
    <2>. QED  BY <2>1, <2>2 DEF LockDiscipline
  <1>5. EntityFresh'
    <2> SUFFICES ASSUME NEW s \in Thread
                 PROVE  /\ pc'[s] = "apply" => tx'[s].bal = balance[tx'[s].user]
                        /\ pc'[s] \in {"saveHistory", "saveOrder", "commit"} =>
                             /\ tx'[s].bal = balance[tx'[s].user] + Signed(HistoryRowOf(tx'[s]))
                             /\ tx'[s].bal \in 0..MaxLong
      BY DEF EntityFresh, HistoryRowOf, Signed
    <2>1. CASE s = t
      BY <2>1, <1>1
    <2>2. CASE s # t
      BY <2>2, <1>1 DEF EntityFresh
    <2>. QED  BY <2>1, <2>2
  <1>6. RowsSaved'
    <2>1. /\ y.type = "CHARGE" => y.amount > 0
          /\ y.type = "USE" => y.menu \in Menu
      BY DEF RowsSaved, SameRequest
    <2>. QED  BY <1>1, <2>1 DEF RowsSaved, InTransaction
  <1>7. LedgerConsistent'
    BY DEF LedgerConsistent
  <1>. QED  BY <1>3, <1>4, <1>5, <1>6, <1>7

\* Locking the row loads the committed balance, so the entity starts fresh.
LEMMA FindByIdForUpdateInv ==
    ASSUME PaymentInv, NEW t \in Thread, FindByIdForUpdate(t)
    PROVE  PaymentInv'
  <1> DEFINE u == tx[t].user
             y == [tx[t] EXCEPT !.bal = balance[u]]
  <1>1. u \in User /\ tx[t] \in Tx /\ balance[u] \in Int
    BY DEF FindByIdForUpdate, PaymentInv, TypeOK
  <1>2. y \in Tx /\ SameRequest(y, tx[t]) /\ y.bal = balance[u] /\ y.saved = tx[t].saved
    BY <1>1, TxBal
  <1>3. tx' = [tx EXCEPT ![t] = y] /\ y.user = u
    BY <1>2 DEF FindByIdForUpdate, SameRequest
  <1>4. y.saved = {}
    BY <1>2 DEF FindByIdForUpdate, PaymentInv, RowsSaved
  <1> HIDE DEF y
  <1>. QED  BY <1>1, <1>2, <1>3, <1>4, StatementInv
            DEF FindByIdForUpdate, PaymentInv, TypeOK, InTransaction

\* Changing the entity by the amount of the request keeps it fresh.
LEMMA SetBalanceInv ==
    ASSUME PaymentInv, NEW t \in Thread, NEW b \in 0..MaxLong,
           pc[t] = "apply", SetBalance(t, b),
           b = tx[t].bal + Signed(HistoryRowOf(tx[t]))
    PROVE  PaymentInv'
  <1> DEFINE y == [tx[t] EXCEPT !.bal = b]
  <1>1. tx[t] \in Tx /\ tx[t].saved = {} /\ tx[t].bal = balance[tx[t].user]
        /\ tx[t].user \in User /\ rowLock[tx[t].user] = t
    BY DEF PaymentInv, TypeOK, RowsSaved, EntityFresh, LockDiscipline, InTransaction
  <1>2. y \in Tx /\ SameRequest(y, tx[t]) /\ y.bal = b /\ y.saved = tx[t].saved
    BY <1>1, TxBal
  <1>3. tx' = [tx EXCEPT ![t] = y] /\ y.user = tx[t].user
    BY <1>2 DEF SetBalance, SameRequest
  <1>4. y.bal = balance[y.user] + Signed(HistoryRowOf(y))
    BY <1>1, <1>2 DEF SameRequest, HistoryRowOf, Signed
  <1>5. rowLock' = [rowLock EXCEPT ![y.user] = t]
    BY <1>1, <1>3 DEF SetBalance, PaymentInv, TypeOK
  <1>6. /\ pc' = [pc EXCEPT ![t] = "saveHistory"] /\ nextOrderId' \in Nat \ {0}
        /\ UNCHANGED <<dbVars, price, up, reply, published, received>>
    BY DEF SetBalance, PaymentInv, TypeOK, dbVars
  <1> HIDE DEF y
  <1>. QED  BY <1>1, <1>2, <1>3, <1>4, <1>5, <1>6, StatementInv DEF InTransaction

\* User.charge: the sum either overflows, and is rolled back, or fits a long.
LEMMA ChargeInv ==
    ASSUME PaymentInv, NEW t \in Thread, Charge(t)
    PROVE  PaymentInv'
  <1>1. CASE tx[t].bal + tx[t].amount > MaxLong
    BY <1>1, RollbackInv DEF Charge, Status, BusinessError
  <1>2. CASE ~(tx[t].bal + tx[t].amount > MaxLong)
    <2>1. tx[t].bal \in 0..MaxLong /\ tx[t].amount \in Int /\ tx[t].amount > 0
      BY DEF PaymentInv, Charge, TypeOK, Tx, EntityFresh, RowsSaved, LockDiscipline, InTransaction
    <2>2. tx[t].bal + tx[t].amount \in 0..MaxLong
      BY <1>2, <2>1
    <2>3. tx[t].bal + tx[t].amount = tx[t].bal + Signed(HistoryRowOf(tx[t]))
      BY DEF Charge, Signed, HistoryRowOf
    <2>. QED  BY <1>2, <2>2, <2>3, SetBalanceInv DEF Charge
  <1>. QED  BY <1>1, <1>2

\* User.use: the payment is refused or covered by the balance.
LEMMA UseInv ==
    ASSUME PaymentInv, NEW t \in Thread, Use(t)
    PROVE  PaymentInv'
  <1>1. CASE tx[t].amount <= 0 \/ tx[t].bal < tx[t].amount
    BY <1>1, RollbackInv DEF Use, Status, BusinessError
  <1>2. CASE ~(tx[t].amount <= 0 \/ tx[t].bal < tx[t].amount)
    <2>1. tx[t].bal \in 0..MaxLong /\ tx[t].amount \in Int
      BY DEF PaymentInv, Use, TypeOK, Tx, EntityFresh, LockDiscipline, InTransaction
    <2>2. tx[t].bal - tx[t].amount \in 0..MaxLong
      BY <1>2, <2>1
    <2>3. tx[t].bal - tx[t].amount = tx[t].bal + Signed(HistoryRowOf(tx[t]))
      BY <2>1 DEF Use, Signed, HistoryRowOf
    <2>. QED  BY <1>2, <2>2, <2>3, SetBalanceInv DEF Use
  <1>. QED  BY <1>1, <1>2

\* Inserting the history row only touches the transaction's own state.
LEMMA SaveHistoryInv ==
    ASSUME PaymentInv, NEW t \in Thread, SaveHistory(t)
    PROVE  PaymentInv'
  <1> DEFINE y == [tx[t] EXCEPT !.saved = tx[t].saved \cup {"history"}]
             p == IF tx[t].type = "USE" THEN "saveOrder" ELSE "commit"
  <1>1. tx[t] \in Tx /\ tx[t].saved = {} /\ tx[t].bal \in 0..MaxLong
        /\ tx[t].bal = balance[tx[t].user] + Signed(HistoryRowOf(tx[t]))
        /\ tx[t].user \in User /\ rowLock[tx[t].user] = t
    BY DEF SaveHistory, PaymentInv, TypeOK, RowsSaved, EntityFresh, LockDiscipline, InTransaction
  <1>2. y \in Tx /\ SameRequest(y, tx[t]) /\ y.bal = tx[t].bal /\ y.saved = {"history"}
    <2>1. tx[t].saved \cup {"history"} = {"history"}
      BY <1>1
    <2>. QED  BY <1>1, <2>1, TxSaved
  <1>3. tx' = [tx EXCEPT ![t] = y] /\ y.user = tx[t].user /\ y.type = tx[t].type
        /\ pc' = [pc EXCEPT ![t] = p]
    BY <1>2 DEF SaveHistory, SameRequest
  <1>4. y.bal = balance[y.user] + Signed(HistoryRowOf(y))
    BY <1>1, <1>2 DEF SameRequest, HistoryRowOf, Signed
  <1>5. rowLock' = [rowLock EXCEPT ![y.user] = t]
    BY <1>1, <1>3 DEF SaveHistory, PaymentInv, TypeOK
  <1>6. /\ p \in InTransaction /\ pc[t] # "idle" /\ p # "apply" /\ p # "saveHistory"
        /\ p = "saveOrder" => tx[t].type = "USE"
        /\ p = "commit" => tx[t].type # "USE"
    BY DEF SaveHistory, InTransaction
  <1>7. /\ rowLock[y.user] \in {t, NoThread} /\ y.user \in User /\ y.bal \in 0..MaxLong
        /\ nextOrderId' \in Nat \ {0} /\ UNCHANGED <<dbVars, price, up, reply, published, received>>
    BY <1>1, <1>2, <1>3 DEF SaveHistory, PaymentInv, TypeOK
  <1> HIDE DEF y, p
  <1>. QED  BY <1>2, <1>3, <1>4, <1>5, <1>6, <1>7, StatementInv

\* So does inserting the order.
LEMMA SaveOrderInv ==
    ASSUME PaymentInv, NEW t \in Thread, SaveOrder(t)
    PROVE  PaymentInv'
  <1> DEFINE z == tx[t].saved \cup {"order"}
             y == [tx[t] EXCEPT !.saved = z, !.orderId = nextOrderId]
  <1>1. tx[t] \in Tx /\ tx[t].saved = {"history"} /\ tx[t].bal \in 0..MaxLong
        /\ tx[t].bal = balance[tx[t].user] + Signed(HistoryRowOf(tx[t])) /\ tx[t].type = "USE"
        /\ tx[t].user \in User /\ rowLock[tx[t].user] = t /\ nextOrderId \in Nat
    <2>1. pc[t] = "saveOrder" /\ tx[t] \in Tx /\ nextOrderId \in Nat
      BY DEF SaveOrder, PaymentInv, TypeOK
    <2>2. tx[t].saved = {"history"} /\ tx[t].type = "USE"
      BY <2>1 DEF PaymentInv, RowsSaved
    <2>3. /\ tx[t].user \in User /\ rowLock[tx[t].user] = t /\ tx[t].bal \in 0..MaxLong
          /\ tx[t].bal = balance[tx[t].user] + Signed(HistoryRowOf(tx[t]))
      BY <2>1 DEF PaymentInv, EntityFresh, LockDiscipline, InTransaction
    <2>. QED  BY <2>1, <2>2, <2>3
  <1>2. y \in Tx /\ SameRequest(y, tx[t]) /\ y.bal = tx[t].bal /\ y.saved = {"history", "order"}
    <2>1. z = {"history", "order"} /\ z \in SUBSET {"history", "order"}
      BY <1>1
    <2> HIDE DEF z
    <2>2. y \in Tx /\ SameRequest(y, tx[t]) /\ y.bal = tx[t].bal /\ y.saved = z
      BY <1>1, <2>1 DEF Tx, SameRequest
    <2>. QED  BY <2>1, <2>2
  <1>3. tx' = [tx EXCEPT ![t] = y] /\ y.user = tx[t].user /\ y.type = "USE"
        /\ pc' = [pc EXCEPT ![t] = "commit"]
    BY <1>1, <1>2 DEF SaveOrder, SameRequest
  <1>4. y.bal = balance[y.user] + Signed(HistoryRowOf(y))
    BY <1>1, <1>2 DEF SameRequest, HistoryRowOf, Signed
  <1>5. rowLock' = [rowLock EXCEPT ![y.user] = t]
    BY <1>1, <1>3 DEF SaveOrder, PaymentInv, TypeOK
  <1>6. /\ nextOrderId' \in Nat \ {0} /\ pc[t] # "idle"
        /\ UNCHANGED <<dbVars, price, up, reply, published, received>>
    BY <1>1 DEF SaveOrder, dbVars
  <1> HIDE DEF y
  <1>. QED  BY <1>1, <1>2, <1>3, <1>4, <1>5, <1>6, StatementInv DEF InTransaction

\* The effect of a commit, with or without its acknowledgement: the thread
\* leaves its transaction, and the new balance is the old one plus the row.
LEMMA CommitInv ==
    ASSUME PaymentInv, NEW t \in Thread, pc[t] = "commit",
           CommitWrites(tx[t]), rowLock' = Unlocked(t),
           NEW p \in {"idle", "afterCommit"}, pc' = [pc EXCEPT ![t] = p],
           NEW y \in Tx, SameRequest(y, tx[t]), y.saved = tx[t].saved,
           tx' = [tx EXCEPT ![t] = y],
           reply' \in [Thread -> Reply],
           UNCHANGED <<price, nextOrderId, up, published, received>>
    PROVE  PaymentInv'
  <1> DEFINE u == tx[t].user
             x == tx[t]
  <1> USE DEF PaymentInv
  <1>1. u \in User /\ rowLock[u] = t /\ x \in Tx /\ x.bal \in 0..MaxLong
    BY DEF LockDiscipline, InTransaction, EntityFresh, TypeOK
  <1>2. x.bal = balance[u] + Signed(HistoryRowOf(x)) /\ "history" \in x.saved
    BY DEF EntityFresh, RowsSaved
  <1>3. HistoryRowOf(x) \in HistoryRow
    BY <1>1 DEF HistoryRowOf, HistoryRow, Tx
  <1>4. "order" \in x.saved => OrderRowOf(x) \in OrderRow
    <2>1. "order" \in x.saved => x.type = "USE"
      BY DEF RowsSaved
    <2>2. x.type = "USE" => x.menu \in MenuId
      BY DEF RowsSaved
    <2>. QED  BY <1>1, <2>1, <2>2 DEF OrderRowOf, OrderRow, Tx
  <1>5. /\ balance' = [balance EXCEPT ![u] = x.bal]
        /\ history' = [history EXCEPT ![u] = Append(@, HistoryRowOf(x))]
        /\ trail' = [trail EXCEPT ![u] = Append(@, x.bal)]
    BY <1>2 DEF CommitWrites
  <1>0. /\ tx' \in [Thread -> Tx] /\ tx'[t] = y /\ pc'[t] = p
        /\ \A s \in Thread \ {t} : tx'[s] = tx[s] /\ pc'[s] = pc[s]
        /\ \A v \in User : rowLock'[v] = IF v = u THEN NoThread ELSE rowLock[v]
    <2>1. \A v \in User : rowLock[v] = t => v = u
      BY DEF LockDiscipline
    <2>. QED  BY <1>1, <2>1 DEF TypeOK, Unlocked
  <1>6. TypeOK'
    <2>1. balance' \in [User -> 0..MaxLong]
      BY <1>1, <1>5 DEF TypeOK
    <2>2. history' \in [User -> Seq(HistoryRow)]
      BY <1>1, <1>3, <1>5 DEF TypeOK
    <2>3. orders' \in [User -> Seq(OrderRow)]
      <3>1. CASE "order" \in x.saved
        <4>1. orders' = [orders EXCEPT ![u] = Append(orders[u], OrderRowOf(x))]
          BY <3>1 DEF CommitWrites
        <4>. QED  BY <1>1, <1>4, <3>1, <4>1 DEF TypeOK
      <3>2. CASE "order" \notin x.saved
        BY <3>2 DEF TypeOK, CommitWrites
      <3>. QED  BY <3>1, <3>2
    <2>4. trail' \in [User -> Seq(0..MaxLong)]
      BY <1>1, <1>5 DEF TypeOK
    <2>5. tx' \in [Thread -> Tx]
      BY <1>0
    <2>6. rowLock' \in [User -> Thread \cup {NoThread}] /\ pc' \in [Thread -> Step]
      BY DEF TypeOK, Unlocked, Step
    <2>. QED  BY <2>1, <2>2, <2>3, <2>4, <2>5, <2>6 DEF TypeOK
  <1>7. LockDiscipline'
    <2>1. ASSUME NEW s \in Thread, pc'[s] \in InTransaction
          PROVE  tx'[s].user \in User /\ rowLock'[tx'[s].user] = s
      <3>1. s # t /\ pc[s] \in InTransaction /\ tx'[s] = tx[s]
        BY <2>1, <1>0 DEF InTransaction
      <3>. QED  BY <3>1, <1>0, <1>1 DEF LockDiscipline
    <2>2. ASSUME NEW v \in User, rowLock'[v] # NoThread
          PROVE  pc'[rowLock'[v]] \in InTransaction /\ tx'[rowLock'[v]].user = v
      <3>1. v # u /\ rowLock'[v] = rowLock[v] /\ rowLock[v] \in Thread
        BY <2>2, <1>0 DEF TypeOK
      <3>2. pc[rowLock[v]] \in InTransaction /\ tx[rowLock[v]].user = v
        BY <3>1, <2>2 DEF LockDiscipline
      <3>3. rowLock[v] # t
        BY <3>1, <3>2
      <3>. QED  BY <3>1, <3>2, <3>3, <1>0
    <2>. QED  BY <2>1, <2>2 DEF LockDiscipline
  <1>8. EntityFresh'
    <2>1. \A s \in Thread \ {t} : pc[s] \in InTransaction => tx[s].user # u
      BY <1>1 DEF LockDiscipline
    <2> SUFFICES ASSUME NEW s \in Thread
                 PROVE  /\ pc'[s] = "apply" => tx'[s].bal = balance'[tx'[s].user]
                        /\ pc'[s] \in {"saveHistory", "saveOrder", "commit"} =>
                             /\ tx'[s].bal = balance'[tx'[s].user] + Signed(HistoryRowOf(tx'[s]))
                             /\ tx'[s].bal \in 0..MaxLong
      BY DEF EntityFresh, HistoryRowOf, Signed
    <2>2. CASE s = t
      BY <2>2, <1>0
    <2>3. CASE s # t /\ pc[s] \in InTransaction
      <3>1. tx[s].user \in User /\ tx[s].user # u
        BY <2>1, <2>3 DEF LockDiscipline
      <3>2. balance'[tx[s].user] = balance[tx[s].user]
        BY <3>1, <1>1, <1>5 DEF TypeOK
      <3>. QED  BY <2>3, <3>2, <1>0 DEF EntityFresh
    <2>4. CASE s # t /\ pc[s] \notin InTransaction
      BY <2>4, <1>0 DEF InTransaction
    <2>. QED  BY <2>2, <2>3, <2>4
  <1>9. RowsSaved'
    <2>1. x.type = y.type /\ x.amount = y.amount /\ x.menu = y.menu
      BY DEF SameRequest
    <2>. QED  BY <1>0, <2>1 DEF RowsSaved
  <1>10. LedgerConsistent'
    <2> SUFFICES ASSUME NEW v \in User
                 PROVE  /\ Len(trail'[v]) = Len(history'[v]) + 1
                        /\ trail'[v][1] = InitialBalance[v]
                        /\ \A i \in 1..Len(history'[v]) :
                              trail'[v][i + 1] = trail'[v][i] + Signed(history'[v][i])
                        /\ balance'[v] = trail'[v][Len(history'[v]) + 1]
      BY DEF LedgerConsistent
    <2>1. CASE v # u
      BY <1>5, <2>1 DEF LedgerConsistent, TypeOK
    <2>2. CASE v = u
      <3> DEFINE h == history[u]
                 tr == trail[u]
      <3>1. /\ h \in Seq(HistoryRow) /\ tr \in Seq(0..MaxLong) /\ Len(tr) = Len(h) + 1
            /\ tr[1] = InitialBalance[u] /\ balance[u] = tr[Len(h) + 1]
            /\ \A i \in 1..Len(h) : tr[i + 1] = tr[i] + Signed(h[i])
        BY <1>1 DEF TypeOK, LedgerConsistent
      <3>2. history'[v] = Append(h, HistoryRowOf(x)) /\ trail'[v] = Append(tr, x.bal) /\ balance'[v] = x.bal
        BY <1>1, <1>5, <2>2 DEF TypeOK
      <3> HIDE DEF h, tr
      <3>3. Len(trail'[v]) = Len(history'[v]) + 1 /\ Len(history'[v]) = Len(h) + 1
        BY <3>1, <3>2
      <3>4. trail'[v][1] = InitialBalance[v]
        BY <2>2, <3>1, <3>2
      <3>5. ASSUME NEW i \in 1..Len(history'[v])
            PROVE  trail'[v][i + 1] = trail'[v][i] + Signed(history'[v][i])
        <4>1. CASE i = Len(h) + 1
          BY <1>2, <3>1, <3>2, <4>1
        <4>2. CASE i \in 1..Len(h)
          BY <3>1, <3>2, <4>2
        <4>. QED  BY <3>1, <3>3, <4>1, <4>2
      <3>6. balance'[v] = trail'[v][Len(history'[v]) + 1]
        BY <3>1, <3>2
      <3>. QED  BY <3>3, <3>4, <3>5, <3>6
    <2>. QED  BY <2>1, <2>2
  <1>. QED  BY <1>6, <1>7, <1>8, <1>9, <1>10
\* The database drops the locks of a dead instance with its transactions.
LEMMA CrashInv ==
    ASSUME PaymentInv, NEW i \in Instance, Crash(i)
    PROVE  PaymentInv'
  <1> USE DEF PaymentInv, Crash, dbVars
  <1>1. TypeOK'
    BY DEF TypeOK, Step
  <1>2. LockDiscipline'
    BY DEF LockDiscipline, InTransaction, TypeOK
  <1>3. EntityFresh'
    BY DEF EntityFresh, TypeOK
  <1>4. RowsSaved'
    BY DEF RowsSaved, TypeOK
  <1>5. LedgerConsistent'
    BY DEF LedgerConsistent
  <1>. QED  BY <1>1, <1>2, <1>3, <1>4, <1>5

\* Every step of every thread, and of the environment, keeps the invariant.
LEMMA NextInv == PaymentInv /\ [Next]_vars => PaymentInv'
  <1> SUFFICES ASSUME PaymentInv, [Next]_vars PROVE PaymentInv'
    OBVIOUS
  <1>0. received \in Nat
    BY DEF PaymentInv, TypeOK
  <1>1. ASSUME NEW t \in Thread, NEW u \in UserId, NEW a \in Amount, ChargeRequest(t, u, a)
        PROVE  PaymentInv'
    <2> DEFINE x == NewTx(received + 1, "CHARGE", u, NoMenu, a)
    <2>1. x \in Tx
      BY <1>0, NewTxType DEF PointHistoryType
    <2>2. x.saved = {} /\ x.type = "CHARGE" /\ x.amount = a
      BY DEF NewTx
    <2> HIDE DEF x
    <2>3. CASE a <= 0
      BY <1>1, <2>1, <2>2, <2>3, TakeInv DEF ChargeRequest, x, Status, BusinessError
    <2>4. CASE ~(a <= 0)
      BY <1>1, <2>1, <2>2, <2>4, TakeInv DEF ChargeRequest, x, Status
    <2>. QED  BY <2>3, <2>4
  <1>2. ASSUME NEW t \in Thread, NEW u \in UserId, NEW m \in MenuId \cup {NoMenu}, OrderRequest(t, u, m)
        PROVE  PaymentInv'
    <2>1. CASE m \in Menu
      <3> DEFINE x == NewTx(received + 1, "USE", u, m, price[m])
      <3>1. price[m] \in Int
        BY <2>1 DEF PaymentInv, TypeOK
      <3>2. x \in Tx
        BY <1>0, <3>1, NewTxType DEF PointHistoryType
      <3>3. x.saved = {} /\ x.type = "USE" /\ x.menu = m
        BY DEF NewTx
      <3> HIDE DEF x
      <3>. QED  BY <1>2, <2>1, <3>2, <3>3, TakeInv DEF OrderRequest, x, Status
    <2>2. CASE m \notin Menu
      <3> DEFINE x == NewTx(received + 1, "USE", u, m, 0)
      <3>1. x \in Tx /\ x.saved = {}
        BY <1>0, NewTxType DEF PointHistoryType, NewTx
      <3> HIDE DEF x
      <3>. QED  BY <1>2, <2>2, <3>1, TakeInv DEF OrderRequest, x, Status, BusinessError
    <2>. QED  BY <2>1, <2>2
  <1>3. ASSUME NEW t \in Thread, UserNotFound(t) \/ LockWaitTimeout(t) \/ StatementFails(t)
        PROVE  PaymentInv'
    BY <1>3, RollbackInv DEF UserNotFound, LockWaitTimeout, StatementFails, Status, BusinessError
  <1>4. ASSUME NEW t \in Thread, Commit(t)
        PROVE  PaymentInv'
    <2> DEFINE n == Len(history[tx[t].user]) + 1
               y == [tx[t] EXCEPT !.at = n]
    <2>1. tx[t] \in Tx /\ n \in Nat
      BY <1>4 DEF PaymentInv, TypeOK, LockDiscipline, InTransaction, Commit
    <2>2. y \in Tx /\ SameRequest(y, tx[t]) /\ y.saved = tx[t].saved
      BY <2>1, TxAt
    <2>3. tx' = [tx EXCEPT ![t] = y]
      BY <1>4 DEF Commit
    <2> HIDE DEF y
    <2>4. reply' \in [Thread -> Reply]
      BY <1>4 DEF Commit, PaymentInv, TypeOK
    <2>. QED  BY <1>4, <2>2, <2>3, <2>4, CommitInv DEF Commit
  <1>5. ASSUME NEW t \in Thread, CommitAckLost(t)
        PROVE  PaymentInv'
    <2>1. tx[t] \in Tx /\ SameRequest(tx[t], tx[t]) /\ tx' = [tx EXCEPT ![t] = tx[t]]
      BY <1>5 DEF PaymentInv, TypeOK, SameRequest, CommitAckLost
    <2>2. reply' \in [Thread -> Reply]
      <3>1. Answer("SERVER_ERROR", tx[t]) \in Reply
        BY <2>1, AnswerType DEF Status
      <3>. QED  BY <1>5, <3>1 DEF CommitAckLost, PaymentInv, TypeOK
    <2>. QED  BY <1>5, <2>1, <2>2, CommitInv DEF CommitAckLost
  <1>6. ASSUME NEW t \in Thread, AfterCommit(t)
        PROVE  PaymentInv'
    <2> USE <1>6 DEF PaymentInv, AfterCommit, dbVars
    <2>1. TypeOK'
      <3>1. Answer("OK", tx[t]) \in Reply
        BY AnswerType DEF TypeOK, Status
      <3>2. tx[t].type = "USE" => OrderRowOf(tx[t]) \in OrderRow
        BY DEF OrderRowOf, OrderRow, TypeOK, Tx, RowsSaved
      <3>. QED  BY <3>1, <3>2 DEF TypeOK, Step
    <2>2. LockDiscipline'
      BY DEF LockDiscipline, InTransaction, TypeOK
    <2>3. EntityFresh'
      BY DEF EntityFresh, TypeOK
    <2>4. RowsSaved'
      BY DEF RowsSaved, TypeOK
    <2>5. LedgerConsistent'
      BY DEF LedgerConsistent
    <2>. QED  BY <2>1, <2>2, <2>3, <2>4, <2>5
  <1>7. ASSUME NEW i \in Instance, Restart(i)
        PROVE  PaymentInv'
    BY <1>7 DEF Restart, dbVars, PaymentInv, TypeOK, LockDiscipline, EntityFresh, RowsSaved, LedgerConsistent
  <1>8. ASSUME NEW m \in Menu, NEW p \in Price, ChangePrice(m, p)
        PROVE  PaymentInv'
    BY <1>8 DEF ChangePrice, dbVars, PaymentInv, TypeOK, LockDiscipline, EntityFresh, RowsSaved, LedgerConsistent
  <1>9. CASE UNCHANGED vars
    BY <1>9 DEF vars, PaymentInv, TypeOK, LockDiscipline, EntityFresh, RowsSaved, LedgerConsistent
  <1>. QED
    BY <1>1, <1>2, <1>3, <1>4, <1>5, <1>6, <1>7, <1>8, <1>9, FindByIdForUpdateInv, ChargeInv,
       UseInv, SaveHistoryInv, SaveOrderInv, CrashInv DEF Next, Serve

-----------------------------------------------------------------------------
\* The conjunction that the lock, the entity, the inserted rows and the ledger
\* satisfy together is an invariant of the request threads.
THEOREM PaymentInvariant == Spec => []PaymentInv
  BY InitInv, NextInv, PTL DEF Spec

\* Balances stay within a long and never go below zero, whatever requests
\* run side by side (User.charge, User.use); all other state is well-formed.
THEOREM TypeCorrect == Spec => []TypeOK
  <1>1. PaymentInv => TypeOK
    BY DEF PaymentInv
  <1>. QED  BY <1>1, PaymentInvariant, PTL

\* No update is lost: the stored balance is the initial one changed by
\* exactly the committed history rows, in order.
THEOREM LedgerIsConsistent == Spec => []LedgerConsistent
  <1>1. PaymentInv => LedgerConsistent
    BY DEF PaymentInv
  <1>. QED  BY <1>1, PaymentInvariant, PTL

-----------------------------------------------------------------------------
(* What charging and paying promise beyond the balance: a request is       *)
(* applied at most once, answers are true, events are of committed orders, *)
(* and the whole implements the atomic Ledger.                             *)

\* What RequestInv adds to PaymentInv.
Promises ==
    /\ RequestsOnce /\ IdsDrawnOnce /\ OwnRowsKnown
    /\ OrderPerUse /\ OrderIdsIncrease /\ ReplyTruthful /\ EventsAreCommitted

\* Committed orders have numbers as ids.
LEMMA OrderRowTypes ==
    ASSUME TypeOK, NEW u \in User, NEW i \in DOMAIN orders[u]
    PROVE  orders[u][i] \in OrderRow /\ orders[u][i].id \in Nat
  <1>1. orders[u] \in Seq(OrderRow)
    BY DEF TypeOK
  <1>2. orders[u][i] \in OrderRow
    BY <1>1
  <1>. QED  BY <1>2 DEF OrderRow

\* History rows name the request they are of by its number.
LEMMA HistoryRowTypes ==
    ASSUME TypeOK, NEW u \in User, NEW i \in DOMAIN history[u]
    PROVE  history[u][i] \in HistoryRow /\ history[u][i].req \in Nat
  <1>1. history[u] \in Seq(HistoryRow)
    BY DEF TypeOK
  <1>2. history[u][i] \in HistoryRow
    BY <1>1
  <1>. QED  BY <1>2 DEF HistoryRow

\* The row a transaction inserts for an order of a menu.
LEMMA OrderRowOfType ==
    ASSUME NEW x \in Tx, x.menu \in MenuId
    PROVE  OrderRowOf(x) \in OrderRow
  BY DEF OrderRowOf, OrderRow, Tx

\* Nothing has been asked, written or published before the first request.
LEMMA InitPromises == Init => Promises
  <1> SUFFICES ASSUME Init PROVE Promises
    OBVIOUS
  <1> USE DEF Init
  <1>1. NoTx.req = 0 /\ Answer("NONE", NoTx).req = 0 /\ Answer("NONE", NoTx).status = "NONE"
    BY DEF NoTx, NewTx, Answer
  <1>2. RequestsOnce
    BY <1>1 DEF RequestsOnce, BeforeCommit, InTransaction
  <1>3. IdsDrawnOnce
    BY DEF IdsDrawnOnce, HasOrderId
  <1>4. OwnRowsKnown /\ ReplyTruthful
    BY <1>1 DEF OwnRowsKnown, ReplyTruthful, BusinessError
  <1>5. OrderPerUse /\ OrderIdsIncrease /\ EventsAreCommitted
    BY DEF OrderPerUse, OrderIdsIncrease, EventsAreCommitted
  <1>. QED  BY <1>2, <1>3, <1>4, <1>5 DEF Promises

\* Steps that touch none of the state the promises are about.
LEMMA FramePromises ==
    ASSUME Promises,
           UNCHANGED <<dbVars, pc, tx, reply, published, received, nextOrderId>>
    PROVE  Promises'
  <1>1. UNCHANGED <<history, trail, orders, pc, tx, reply, published, received, nextOrderId>>
    BY DEF dbVars
  <1>2. RequestsOnce'
    BY <1>1 DEF Promises, RequestsOnce
  <1>3. IdsDrawnOnce'
    BY <1>1 DEF Promises, IdsDrawnOnce, HasOrderId
  <1>4. OwnRowsKnown'
    BY <1>1 DEF Promises, OwnRowsKnown, HistoryRowOf, OrderRowOf
  <1>5. OrderPerUse' /\ OrderIdsIncrease' /\ EventsAreCommitted'
    BY <1>1 DEF Promises, OrderPerUse, OrderIdsIncrease, EventsAreCommitted
  <1>6. ReplyTruthful'
    BY <1>1 DEF Promises, ReplyTruthful, HistoryRowOf, OrderRowOf
  <1>. QED  BY <1>2, <1>3, <1>4, <1>5, <1>6 DEF Promises

\* Promises about committed rows survive a step that commits nothing.
LEMMA NothingCommitted ==
    ASSUME Promises, UNCHANGED <<dbVars, published>>
    PROVE  OrderPerUse' /\ OrderIdsIncrease' /\ EventsAreCommitted'
  BY DEF Promises, dbVars, OrderPerUse, OrderIdsIncrease, EventsAreCommitted

\* A statement inside the transaction: only its own entity, uncommitted rows
\* and, for an order, its id change.
LEMMA StatementPromises ==
    ASSUME PaymentInv, Promises, NEW t \in Thread, pc[t] \in BeforeCommit,
           NEW y \in Tx, SameRequest(y, tx[t]), tx' = [tx EXCEPT ![t] = y],
           NEW p \in InTransaction, pc' = [pc EXCEPT ![t] = p],
           p # "apply" => y.amount > 0,
           \/ nextOrderId' = nextOrderId /\ (p = "commit" => y.type # "USE")
           \/ nextOrderId' = nextOrderId + 1 /\ y.orderId = nextOrderId,
           UNCHANGED <<dbVars, reply, published, received>>
    PROVE  Promises'
  <1> USE DEF Promises, dbVars
  <1>1. /\ tx'[t] = y /\ pc'[t] = p
        /\ \A s \in Thread \ {t} : tx'[s] = tx[s] /\ pc'[s] = pc[s]
    BY DEF PaymentInv, TypeOK
  <1>2. RequestsOnce'
    <2>1. \A s \in Thread : tx'[s].req = tx[s].req /\ (pc'[s] \in BeforeCommit <=> pc[s] \in BeforeCommit)
      BY <1>1 DEF SameRequest, BeforeCommit
    <2>. QED  BY <2>1 DEF RequestsOnce
  <1>3. IdsDrawnOnce'
    <2>1. \A s \in Thread \ {t} : HasOrderId(s)' => HasOrderId(s) /\ tx'[s] = tx[s] /\ pc'[s] = pc[s]
      BY <1>1 DEF HasOrderId
    <2>2. nextOrderId \in Nat /\ \A u \in User : \A i \in DOMAIN orders[u] : orders[u][i].id \in Nat
      BY OrderRowTypes DEF PaymentInv, TypeOK
    <2>3. CASE nextOrderId' = nextOrderId /\ (p = "commit" => y.type # "USE")
      <3>1. ~HasOrderId(t)'
        BY <1>1, <2>3 DEF HasOrderId, InTransaction
      <3>. QED  BY <2>1, <2>3, <3>1 DEF IdsDrawnOnce
    <2>4. CASE nextOrderId' = nextOrderId + 1 /\ y.orderId = nextOrderId
      <3>1. \A i \in DOMAIN published : published[i].id < nextOrderId
        BY DEF EventsAreCommitted, IdsDrawnOnce
      <3>2. \A s \in Thread : tx[s].orderId \in Nat
        BY DEF PaymentInv, TypeOK, Tx
      <3>. QED  BY <1>1, <2>1, <2>2, <2>4, <3>1, <3>2 DEF IdsDrawnOnce
    <2>. QED  BY <2>3, <2>4
  <1>4. OwnRowsKnown'
    BY <1>1 DEF OwnRowsKnown, InTransaction
  <1>5. ReplyTruthful'
    BY DEF ReplyTruthful
  <1>. QED  BY <1>2, <1>3, <1>4, <1>5, NothingCommitted

\* What an answer that is given while nothing is committed has to be.
LEMMA TruthOfAnswers ==
    ASSUME UNCHANGED <<history, trail>>,
           \A q \in Thread :
              /\ reply'[q].status = "OK" =>
                   /\ reply'[q].at \in DOMAIN history[reply'[q].user]
                   /\ history[reply'[q].user][reply'[q].at] = HistoryRowOf(reply'[q])
                   /\ trail[reply'[q].user][reply'[q].at + 1] = reply'[q].bal
              /\ reply'[q].status \in BusinessError =>
                   \A u \in User : \A i \in DOMAIN history[u] : history[u][i].req # reply'[q].req
    PROVE  ReplyTruthful'
  BY DEF ReplyTruthful

\* A rollback commits nothing; what was refused can no longer commit.
LEMMA RollbackPromises ==
    ASSUME PaymentInv, Promises, NEW t \in Thread, pc[t] \in BeforeCommit,
           NEW s \in Status, s # "OK", RollbackWith(t, s)
    PROVE  Promises'
  <1> USE DEF Promises, RollbackWith, dbVars
  <1>1. /\ pc'[t] = "idle" /\ reply'[t] = Answer(s, tx[t])
        /\ \A q \in Thread \ {t} : reply'[q] = reply[q] /\ pc'[q] = pc[q]
    BY DEF PaymentInv, TypeOK
  <1>2. Answer(s, tx[t]).req = tx[t].req /\ Answer(s, tx[t]).status = s
    BY DEF Answer
  <1>3. \A q \in Thread : pc'[q] \in BeforeCommit => q # t /\ pc[q] \in BeforeCommit
    BY <1>1 DEF BeforeCommit, InTransaction
  <1>4. RequestsOnce'
    <2>1. ASSUME NEW u \in User, NEW i \in DOMAIN history[u]
          PROVE  /\ history[u][i].req <= received
                 /\ \A q \in Thread : pc'[q] \in BeforeCommit => history[u][i].req # tx[q].req
                 /\ \A v \in User : \A j \in DOMAIN history[v] :
                       history[u][i].req = history[v][j].req => u = v /\ i = j
      BY <1>3 DEF RequestsOnce
    <2>2. ASSUME NEW r \in Thread
          PROVE  /\ tx[r].req <= received /\ reply'[r].req <= received
                 /\ \A q \in Thread : pc'[q] \in BeforeCommit =>
                       /\ q # r /\ pc'[r] \in BeforeCommit => tx[q].req # tx[r].req
                       /\ reply'[r].status \in BusinessError => tx[q].req # reply'[r].req
      <3>1. CASE r = t
        BY <1>1, <1>2, <1>3, <3>1 DEF RequestsOnce
      <3>2. CASE r # t
        BY <1>1, <1>3, <3>2 DEF RequestsOnce
      <3>. QED  BY <3>1, <3>2
    <2>. QED  BY <2>1, <2>2 DEF RequestsOnce
  <1>5. IdsDrawnOnce'
    <2>1. \A q \in Thread : HasOrderId(q)' => HasOrderId(q) /\ pc'[q] = pc[q]
      BY <1>1 DEF HasOrderId
    <2>. QED  BY <2>1 DEF IdsDrawnOnce
  <1>6. OwnRowsKnown'
    BY <1>1, <1>2 DEF OwnRowsKnown
  <1>7. ReplyTruthful'
    <2> SUFFICES ASSUME NEW q \in Thread
                 PROVE  /\ reply'[q].status = "OK" =>
                             /\ reply'[q].at \in DOMAIN history[reply'[q].user]
                             /\ history[reply'[q].user][reply'[q].at] = HistoryRowOf(reply'[q])
                             /\ trail[reply'[q].user][reply'[q].at + 1] = reply'[q].bal
                        /\ reply'[q].status \in BusinessError =>
                             \A u \in User : \A i \in DOMAIN history[u] : history[u][i].req # reply'[q].req
      BY TruthOfAnswers
    <2>1. CASE q = t
      BY <1>1, <1>2, <2>1 DEF RequestsOnce
    <2>2. CASE q # t
      BY <1>1, <2>2 DEF ReplyTruthful
    <2>. QED  BY <2>1, <2>2
  <1>. QED  BY <1>4, <1>5, <1>6, <1>7, NothingCommitted

\* A new request has a number of its own.
LEMMA TakePromises ==
    ASSUME PaymentInv, Promises, NEW t \in Thread, NEW x \in Tx, NEW s \in Status, s # "OK",
           x.req = received + 1, Take(t, x, s)
    PROVE  Promises'
  <1> USE DEF Promises, Take, dbVars
  <1>1. /\ pc'[t] \in {"lock", "idle"} /\ reply'[t] = Answer(s, x) /\ tx'[t] = x
        /\ pc'[t] = "lock" => s = "NONE"
        /\ \A q \in Thread \ {t} : reply'[q] = reply[q] /\ pc'[q] = pc[q] /\ tx'[q] = tx[q]
    BY DEF PaymentInv, TypeOK
  <1>2. Answer(s, x).req = received + 1 /\ Answer(s, x).status = s
    BY DEF Answer
  <1>3. /\ received \in Nat /\ received' = received + 1
        /\ \A q \in Thread : tx[q].req \in Nat /\ reply[q].req \in Nat
    <2>1. \A q \in Thread : tx[q] \in Tx /\ reply[q] \in Reply
      BY DEF PaymentInv, TypeOK
    <2>2. \A q \in Thread : tx[q].req \in Nat
      BY <2>1 DEF Tx
    <2>3. \A q \in Thread : reply[q].req \in Nat
      BY <2>1 DEF Reply
    <2>. QED  BY <2>2, <2>3 DEF PaymentInv, TypeOK
  <1>4. \A u \in User : \A i \in DOMAIN history[u] : history[u][i].req \in Nat
    BY HistoryRowTypes DEF PaymentInv
  <1>5. RequestsOnce'
    <2>1. ASSUME NEW u \in User, NEW i \in DOMAIN history[u]
          PROVE  /\ history[u][i].req <= received'
                 /\ \A q \in Thread : pc'[q] \in BeforeCommit => history[u][i].req # tx'[q].req
                 /\ \A v \in User : \A j \in DOMAIN history[v] :
                       history[u][i].req = history[v][j].req => u = v /\ i = j
      BY <1>1, <1>3, <1>4 DEF RequestsOnce
    <2>2. ASSUME NEW r \in Thread
          PROVE  /\ tx'[r].req <= received' /\ reply'[r].req <= received'
                 /\ \A q \in Thread : pc'[q] \in BeforeCommit =>
                       /\ q # r /\ pc'[r] \in BeforeCommit => tx'[q].req # tx'[r].req
                       /\ reply'[r].status \in BusinessError => tx'[q].req # reply'[r].req
      <3>1. CASE r = t
        <4>1. pc'[t] \in BeforeCommit => s \notin BusinessError
          BY <1>1 DEF BeforeCommit, InTransaction, BusinessError
        <4>. QED  BY <1>1, <1>2, <1>3, <3>1, <4>1 DEF RequestsOnce
      <3>2. CASE r # t
        BY <1>1, <1>2, <1>3, <3>2 DEF RequestsOnce
      <3>. QED  BY <3>1, <3>2
    <2>. QED  BY <2>1, <2>2 DEF RequestsOnce
  <1>6. IdsDrawnOnce'
    <2>1. \A q \in Thread : HasOrderId(q)' => HasOrderId(q) /\ pc'[q] = pc[q] /\ tx'[q] = tx[q]
      BY <1>1 DEF HasOrderId
    <2>. QED  BY <2>1 DEF IdsDrawnOnce
  <1>7. OwnRowsKnown'
    <2>1. \A q \in Thread : reply'[q].status = "OK" => reply'[q].user \in User
      BY <1>1, <1>2 DEF OwnRowsKnown
    <2>2. \A q \in Thread \ {t} : pc'[q] = pc[q] /\ tx'[q] = tx[q]
      BY <1>1
    <2>3. \A q \in Thread : pc'[q] \in {"saveHistory", "saveOrder", "commit", "afterCommit"} => q # t
      BY <1>1
    <2> HIDE DEF Take
    <2>. QED  BY <2>1, <2>2, <2>3 DEF Take, OwnRowsKnown
  <1>8. ReplyTruthful'
    <2> SUFFICES ASSUME NEW q \in Thread
                 PROVE  /\ reply'[q].status = "OK" =>
                             /\ reply'[q].at \in DOMAIN history[reply'[q].user]
                             /\ history[reply'[q].user][reply'[q].at] = HistoryRowOf(reply'[q])
                             /\ trail[reply'[q].user][reply'[q].at + 1] = reply'[q].bal
                        /\ reply'[q].status \in BusinessError =>
                             \A u \in User : \A i \in DOMAIN history[u] : history[u][i].req # reply'[q].req
      BY TruthOfAnswers
    <2>1. CASE q = t
      BY <1>1, <1>2, <1>3, <1>4, <2>1 DEF RequestsOnce
    <2>2. CASE q # t
      BY <1>1, <2>2 DEF ReplyTruthful
    <2>. QED  BY <2>1, <2>2
  <1>. QED  BY <1>5, <1>6, <1>7, <1>8, NothingCommitted

\* The threads of a dead instance neither commit nor answer.
LEMMA CrashPromises ==
    ASSUME PaymentInv, Promises, NEW i \in Instance, Crash(i)
    PROVE  Promises'
  <1> USE DEF Promises, Crash, dbVars
  <1>1. \A q \in Thread : pc'[q] = "idle" \/ pc'[q] = pc[q]
    BY DEF PaymentInv, TypeOK
  <1>2. \A q \in Thread : pc'[q] \in BeforeCommit => pc[q] \in BeforeCommit
    BY <1>1 DEF BeforeCommit, InTransaction
  <1>3. RequestsOnce'
    BY <1>2 DEF RequestsOnce
  <1>4. IdsDrawnOnce'
    <2>1. \A q \in Thread : HasOrderId(q)' => HasOrderId(q) /\ pc'[q] = pc[q]
      BY <1>1 DEF HasOrderId
    <2>. QED  BY <2>1 DEF IdsDrawnOnce
  <1>5. OwnRowsKnown'
    BY <1>1 DEF OwnRowsKnown
  <1>6. ReplyTruthful'
    BY DEF ReplyTruthful
  <1>. QED  BY <1>3, <1>4, <1>5, <1>6, NothingCommitted

\* The listeners get the thread's own committed order, and the answer tells
\* what the commit did.
LEMMA AfterCommitPromises ==
    ASSUME PaymentInv, Promises, NEW t \in Thread, AfterCommit(t)
    PROVE  Promises'
  <1> DEFINE x == tx[t]
             a == Answer("OK", x)
             row == OrderRowOf(x)
  <1> USE DEF Promises, AfterCommit, dbVars
  <1>1. /\ pc'[t] = "idle" /\ reply'[t] = a
        /\ \A q \in Thread \ {t} : reply'[q] = reply[q] /\ pc'[q] = pc[q]
    BY DEF PaymentInv, TypeOK
  <1>2. /\ a.req = x.req /\ a.status = "OK" /\ a.user = x.user /\ a.at = x.at /\ a.bal = x.bal
        /\ HistoryRowOf(a) = HistoryRowOf(x)
    BY DEF Answer, HistoryRowOf
  <1>3. \A q \in Thread : pc'[q] \in BeforeCommit => q # t /\ pc[q] \in BeforeCommit
    BY <1>1 DEF BeforeCommit, InTransaction
  <1>4. RequestsOnce'
    <2>1. ASSUME NEW r \in Thread
          PROVE  /\ tx[r].req <= received /\ reply'[r].req <= received
                 /\ \A q \in Thread : pc'[q] \in BeforeCommit =>
                       /\ q # r /\ pc'[r] \in BeforeCommit => tx[q].req # tx[r].req
                       /\ reply'[r].status \in BusinessError => tx[q].req # reply'[r].req
      <3>1. CASE r = t
        BY <1>1, <1>2, <1>3, <3>1 DEF RequestsOnce, BusinessError
      <3>2. CASE r # t
        BY <1>1, <1>3, <3>2 DEF RequestsOnce
      <3>. QED  BY <3>1, <3>2
    <2>. QED  BY <1>3, <2>1 DEF RequestsOnce
  <1>5. \/ published' = published
        \/ published' = Append(published, row) /\ HasOrderId(t)
    BY DEF HasOrderId
  <1>6. published \in Seq(OrderRow) /\ (x.type = "USE" => row \in OrderRow) /\ row.id = x.orderId
    <2>1. x \in Tx
      BY DEF PaymentInv, TypeOK
    <2>0. x.type = "USE" => x.menu \in MenuId
      BY DEF PaymentInv, RowsSaved
    <2>2. x.type = "USE" => OrderRowOf(tx[t]) \in OrderRow
      BY <2>0, <2>1, OrderRowOfType
    <2>. QED  BY <2>2 DEF PaymentInv, TypeOK, OrderRowOf
  <1>7. IdsDrawnOnce'
    <2>1. \A q \in Thread : HasOrderId(q)' => q # t /\ HasOrderId(q) /\ pc'[q] = pc[q]
      BY <1>1 DEF HasOrderId
    <2>2. CASE published' = published
      BY <2>1, <2>2 DEF IdsDrawnOnce
    <2>3. CASE published' = Append(published, row) /\ HasOrderId(t)
      <3>1. ASSUME NEW q \in Thread, q # t, HasOrderId(q), NEW i \in DOMAIN published'
            PROVE  published'[i].id # tx[q].orderId
        <4>1. CASE i = Len(published) + 1
          BY <1>6, <2>3, <3>1, <4>1 DEF IdsDrawnOnce
        <4>2. CASE i \in DOMAIN published
          BY <1>6, <2>3, <3>1, <4>2 DEF IdsDrawnOnce
        <4>. QED  BY <1>6, <2>3, <4>1, <4>2
      <3>. QED  BY <2>1, <3>1 DEF IdsDrawnOnce
    <2>. QED  BY <1>5, <2>2, <2>3
  <1>8. OwnRowsKnown'
    BY <1>1, <1>2 DEF OwnRowsKnown
  <1>9. ReplyTruthful'
    <2> SUFFICES ASSUME NEW q \in Thread
                 PROVE  /\ reply'[q].status = "OK" =>
                             /\ reply'[q].at \in DOMAIN history[reply'[q].user]
                             /\ history[reply'[q].user][reply'[q].at] = HistoryRowOf(reply'[q])
                             /\ trail[reply'[q].user][reply'[q].at + 1] = reply'[q].bal
                        /\ reply'[q].status \in BusinessError =>
                             \A u \in User : \A i \in DOMAIN history[u] : history[u][i].req # reply'[q].req
      BY TruthOfAnswers
    <2>1. CASE q = t
      BY <1>1, <1>2, <2>1 DEF OwnRowsKnown, BusinessError
    <2>2. CASE q # t
      BY <1>1, <2>2 DEF ReplyTruthful
    <2>. QED  BY <2>1, <2>2
  <1>10. EventsAreCommitted'
    <2>1. CASE published' = published
      BY <2>1 DEF EventsAreCommitted
    <2>2. CASE published' = Append(published, row) /\ HasOrderId(t)
      <3>1. \E u \in User : \E k \in DOMAIN orders[u] : orders[u][k] = row
        BY <2>2 DEF OwnRowsKnown, HasOrderId
      <3>2. \A i \in DOMAIN published : published[i] # row
        BY <1>6, <2>2 DEF IdsDrawnOnce
      <3>3. /\ DOMAIN published' = DOMAIN published \cup {Len(published) + 1}
            /\ published'[Len(published) + 1] = row
            /\ \A i \in DOMAIN published : published'[i] = published[i]
        BY <1>6, <2>2 DEF HasOrderId
      <3>4. orders' = orders
        OBVIOUS
      <3>5. ASSUME NEW i \in DOMAIN published'
            PROVE  \E u \in User : \E k \in DOMAIN orders[u] : orders[u][k] = published'[i]
        BY <3>1, <3>3 DEF EventsAreCommitted
      <3>6. ASSUME NEW i \in DOMAIN published', NEW j \in DOMAIN published', published'[i] = published'[j]
            PROVE  i = j
        BY <3>2, <3>3, <3>6 DEF EventsAreCommitted
      <3> HIDE DEF AfterCommit, Promises
      <3>. QED  BY <3>4, <3>5, <3>6 DEF EventsAreCommitted
    <2>. QED  BY <1>5, <2>1, <2>2
  <1>11. OrderPerUse' /\ OrderIdsIncrease'
    <2>1. orders' = orders /\ history' = history
      OBVIOUS
    <2>2. OrderPerUse /\ OrderIdsIncrease
      OBVIOUS
    <2> HIDE DEF AfterCommit, Promises
    <2>3. OrderPerUse'
      BY <2>1, <2>2 DEF OrderPerUse
    <2>4. OrderIdsIncrease'
      BY <2>1, <2>2 DEF OrderIdsIncrease
    <2>. QED  BY <2>3, <2>4
  <1>. QED  BY <1>4, <1>7, <1>8, <1>9, <1>10, <1>11

\* A longer table has the old rows in their places and the new one last.
LEMMA AppendRow ==
    ASSUME NEW S, NEW s \in Seq(S), NEW e \in S
    PROVE  /\ Append(s, e) \in Seq(S) /\ Len(s) \in Nat /\ Len(Append(s, e)) = Len(s) + 1
           /\ DOMAIN Append(s, e) = DOMAIN s \cup {Len(s) + 1}
           /\ DOMAIN s = 1..Len(s) /\ Len(s) + 1 \notin DOMAIN s
           /\ Append(s, e)[Len(s) + 1] = e
           /\ \A i \in DOMAIN s : Append(s, e)[i] = s[i]
  OBVIOUS

\* What a commit writes: one history row, and an order if points were used.
LEMMA CommitEffect ==
    ASSUME PaymentInv, NEW t \in Thread, pc[t] = "commit", CommitWrites(tx[t])
    PROVE  LET x == tx[t]
               u == x.user
           IN  /\ x \in Tx /\ u \in User /\ x.type \in PointHistoryType
               /\ balance' = [balance EXCEPT ![u] = x.bal]
               /\ history' = [history EXCEPT ![u] = Append(@, HistoryRowOf(x))]
               /\ trail' = [trail EXCEPT ![u] = Append(@, x.bal)]
               /\ HistoryRowOf(x) \in HistoryRow /\ x.bal \in 0..MaxLong
               /\ x.type = "CHARGE" => orders' = orders
               /\ x.type = "USE" => /\ OrderRowOf(x) \in OrderRow /\ x.menu \in Menu
                                    /\ orders' = [orders EXCEPT ![u] = Append(@, OrderRowOf(x))]
  <1> DEFINE x == tx[t]
             u == x.user
  <1>1. x \in Tx
    BY DEF PaymentInv, TypeOK
  <1>2. u \in User /\ x.bal \in 0..MaxLong
    BY DEF PaymentInv, LockDiscipline, EntityFresh, InTransaction
  <1>3. x.saved = IF x.type = "USE" THEN {"history", "order"} ELSE {"history"}
    BY DEF PaymentInv, RowsSaved
  <1>4. x.type = "USE" => x.menu \in Menu
    BY DEF PaymentInv, RowsSaved
  <1>5. x.type \in PointHistoryType /\ HistoryRowOf(x) \in HistoryRow
    BY <1>1 DEF Tx, HistoryRowOf, HistoryRow
  <1>6. x.type = "USE" => OrderRowOf(x) \in OrderRow
    BY <1>1, <1>4, OrderRowOfType
  <1>7. "history" \in x.saved /\ ("order" \in x.saved <=> x.type = "USE")
    BY <1>3
  <1>. QED  BY <1>1, <1>2, <1>4, <1>5, <1>6, <1>7 DEF CommitWrites, PointHistoryType

\* A commit, acknowledged or not, keeps every promise.
LEMMA CommitPromises ==
    ASSUME PaymentInv, Promises, NEW t \in Thread, pc[t] = "commit", CommitWrites(tx[t]),
           NEW p \in {"idle", "afterCommit"}, pc' = [pc EXCEPT ![t] = p],
           NEW y \in Tx, SameRequest(y, tx[t]), y.bal = tx[t].bal, y.orderId = tx[t].orderId,
           p = "afterCommit" => y.at = Len(history[tx[t].user]) + 1,
           tx' = [tx EXCEPT ![t] = y],
           \/ reply' = reply
           \/ reply' = [reply EXCEPT ![t] = Answer("SERVER_ERROR", tx[t])],
           UNCHANGED <<nextOrderId, published, received>>
    PROVE  Promises'
  <1> DEFINE x == tx[t]
             u == x.user
             n == Len(history[u]) + 1
             k == Len(orders[u]) + 1
  <1> USE DEF Promises
  <1>1. /\ x \in Tx /\ u \in User /\ x.type \in PointHistoryType
        /\ HistoryRowOf(x) \in HistoryRow /\ x.bal \in 0..MaxLong
        /\ x.type = "CHARGE" => orders' = orders
        /\ x.type = "USE" => OrderRowOf(x) \in OrderRow
    BY CommitEffect
  <1>2. /\ \A v \in User \ {u} : history'[v] = history[v] /\ trail'[v] = trail[v] /\ orders'[v] = orders[v]
        /\ history'[u] = Append(history[u], HistoryRowOf(x))
        /\ trail'[u] = Append(trail[u], x.bal)
        /\ x.type = "USE" => orders'[u] = Append(orders[u], OrderRowOf(x))
    <2>1. /\ history' = [history EXCEPT ![u] = Append(@, HistoryRowOf(x))]
          /\ trail' = [trail EXCEPT ![u] = Append(@, x.bal)]
          /\ orders' = orders \/ orders' = [orders EXCEPT ![u] = Append(@, OrderRowOf(x))]
          /\ x.type = "USE" => orders' = [orders EXCEPT ![u] = Append(@, OrderRowOf(x))]
      BY CommitEffect DEF PointHistoryType
    <2>. QED  BY <1>1, <2>1 DEF PaymentInv, TypeOK
  <1>3. /\ tx'[t] = y /\ pc'[t] = p
        /\ \A s \in Thread \ {t} : tx'[s] = tx[s] /\ pc'[s] = pc[s]
    BY DEF PaymentInv, TypeOK
  <1>4. /\ n \in Nat /\ DOMAIN history'[u] = DOMAIN history[u] \cup {n} /\ n \notin DOMAIN history[u]
        /\ history'[u][n] = HistoryRowOf(x)
        /\ \A i \in DOMAIN history[u] : history'[u][i] = history[u][i]
    <2>1. history[u] \in Seq(HistoryRow)
      BY <1>1 DEF PaymentInv, TypeOK
    <2>2. history'[u] = Append(history[u], HistoryRowOf(x)) /\ HistoryRowOf(x) \in HistoryRow
      BY <1>1, <1>2
    <2> HIDE DEF x, u
    <2>. QED  BY <2>1, <2>2, AppendRow
  <1>5. /\ DOMAIN trail[u] = 1..n /\ trail'[u][n + 1] = x.bal
        /\ \A i \in DOMAIN trail[u] : trail'[u][i] = trail[u][i]
    <2>1. trail[u] \in Seq(0..MaxLong)
      BY <1>1 DEF PaymentInv, TypeOK
    <2>2. Len(trail[u]) = n
      BY <1>1 DEF PaymentInv, LedgerConsistent
    <2>3. trail'[u] = Append(trail[u], x.bal) /\ x.bal \in 0..MaxLong
      BY <1>1, <1>2
    <2> HIDE DEF n, x, u
    <2>. QED  BY <2>1, <2>2, <2>3, AppendRow
  <1>6. /\ x.type = "USE" => DOMAIN orders'[u] = DOMAIN orders[u] \cup {k} /\ orders'[u][k] = OrderRowOf(x)
        /\ k \in Nat /\ DOMAIN orders[u] = 1..(k - 1)
        /\ \A i \in DOMAIN orders[u] : i \in DOMAIN orders'[u] /\ orders'[u][i] = orders[u][i]
    <2>1. orders[u] \in Seq(OrderRow)
      BY <1>1 DEF PaymentInv, TypeOK
    <2>2. CASE x.type = "USE"
      <3>1. orders'[u] = Append(orders[u], OrderRowOf(x)) /\ OrderRowOf(x) \in OrderRow
        BY <1>1, <1>2, <2>2
      <3> HIDE DEF x, u
      <3>. QED  BY <2>1, <3>1, AppendRow
    <2>3. CASE x.type = "CHARGE"
      BY <1>1, <2>1, <2>3
    <2>. QED  BY <1>1, <2>2, <2>3 DEF PointHistoryType
  <1>7. \A s \in Thread : /\ tx'[s].req = tx[s].req
                          /\ pc'[s] \in BeforeCommit => s # t /\ pc[s] \in BeforeCommit
    BY <1>3 DEF SameRequest, BeforeCommit, InTransaction
  <1>8. /\ HistoryRowOf(x).req = x.req /\ HistoryRowOf(x).type = x.type /\ HistoryRowOf(x).amount = x.amount
        /\ OrderRowOf(x).id = x.orderId /\ OrderRowOf(x).req = x.req /\ OrderRowOf(x).price = x.amount
    BY DEF HistoryRowOf, OrderRowOf
  <1>9. \A s \in Thread : /\ reply'[s].req = reply[s].req \/ (s = t /\ reply'[s].req = x.req)
                          /\ reply'[s] = reply[s] \/ reply'[s].status = "SERVER_ERROR"
    BY DEF PaymentInv, TypeOK, Answer
  <1> HIDE DEF n, k, x, u
  <1>10. RequestsOnce'
    <2>1. ASSUME NEW v \in User, NEW i \in DOMAIN history'[v]
          PROVE  /\ history'[v][i].req <= received
                 /\ \A s \in Thread : pc'[s] \in BeforeCommit => history'[v][i].req # tx'[s].req
      <3>1. CASE v = u /\ i = n
        BY <1>4, <1>7, <1>8, <3>1 DEF RequestsOnce, x, BeforeCommit, InTransaction
      <3>2. CASE i \in DOMAIN history[v] /\ history'[v][i] = history[v][i]
        BY <1>7, <3>2 DEF RequestsOnce
      <3>. QED  BY <1>2, <1>4, <3>1, <3>2
    <2>2. \A v \in User : \A i \in DOMAIN history[v] : history[v][i].req # x.req
      BY DEF RequestsOnce, x, BeforeCommit, InTransaction
    <2>3. ASSUME NEW v \in User, NEW i \in DOMAIN history'[v],
                 NEW w \in User, NEW j \in DOMAIN history'[w], history'[v][i].req = history'[w][j].req
          PROVE  v = w /\ i = j
      <3>0. ASSUME NEW z \in User, NEW l \in DOMAIN history'[z]
            PROVE  \/ z = u /\ l = n /\ history'[z][l].req = x.req
                   \/ l \in DOMAIN history[z] /\ history'[z][l] = history[z][l]
        <4>1. CASE z = u
          BY <1>4, <1>8, <4>1
        <4>2. CASE z # u
          BY <1>2, <4>2
        <4>. QED  BY <4>1, <4>2
      <3>1. \/ v = u /\ i = n /\ history'[v][i].req = x.req
            \/ i \in DOMAIN history[v] /\ history'[v][i] = history[v][i]
        BY <3>0
      <3>2. \/ w = u /\ j = n /\ history'[w][j].req = x.req
            \/ j \in DOMAIN history[w] /\ history'[w][j] = history[w][j]
        BY <3>0
      <3>. QED  BY <2>2, <2>3, <3>1, <3>2 DEF RequestsOnce
    <2>4. ASSUME NEW r \in Thread
          PROVE  /\ tx'[r].req <= received /\ reply'[r].req <= received
                 /\ \A s \in Thread : pc'[s] \in BeforeCommit =>
                       /\ s # r /\ pc'[r] \in BeforeCommit => tx'[s].req # tx'[r].req
                       /\ reply'[r].status \in BusinessError => tx'[s].req # reply'[r].req
      BY <1>7, <1>9 DEF RequestsOnce, x, BusinessError
    <2>. QED  BY <2>1, <2>3, <2>4 DEF RequestsOnce
  <1>11. ASSUME NEW v \in User, NEW i \in DOMAIN orders'[v]
         PROVE  \/ v = u /\ i = k /\ x.type = "USE" /\ orders'[v][i] = OrderRowOf(x)
                \/ i \in DOMAIN orders[v] /\ orders'[v][i] = orders[v][i]
    <2>1. CASE x.type = "USE"
      BY <1>2, <1>6, <2>1
    <2>2. CASE x.type = "CHARGE"
      BY <1>1, <2>2
    <2>. QED  BY <1>1, <2>1, <2>2 DEF PointHistoryType
  <1>12. \A s \in Thread : HasOrderId(s)' =>
            /\ HasOrderId(s) /\ tx'[s].orderId = tx[s].orderId /\ tx'[s].user = tx[s].user
            /\ pc'[s] = "commit" => s # t /\ pc[s] = "commit"
    BY <1>3 DEF HasOrderId, SameRequest
  <1>13. x.type = "USE" => HasOrderId(t)
    BY DEF HasOrderId, x
  <1>14. \A v \in User : \A i \in DOMAIN orders[v] : orders[v][i].id \in Nat
    BY OrderRowTypes DEF PaymentInv
  <1>15. IdsDrawnOnce'
    <2>1. ASSUME NEW v \in User, NEW i \in DOMAIN orders'[v]
          PROVE  orders'[v][i].id < nextOrderId
      BY <1>8, <1>11, <1>13 DEF IdsDrawnOnce, x
    <2>2. ASSUME NEW s \in Thread, HasOrderId(s)', pc'[s] = "commit",
                 NEW v \in User, NEW i \in DOMAIN orders'[v]
          PROVE  /\ orders'[v][i].id # tx'[s].orderId
                 /\ v = tx'[s].user => orders'[v][i].id < tx'[s].orderId
      <3>1. s # t /\ pc[s] = "commit" /\ HasOrderId(s)
            /\ tx'[s].orderId = tx[s].orderId /\ tx'[s].user = tx[s].user
        BY <1>12, <2>2
      <3>2. tx[s].user # u
        BY <3>1 DEF PaymentInv, LockDiscipline, InTransaction, u, x
      <3>. QED  BY <1>8, <1>11, <1>13, <3>1, <3>2 DEF IdsDrawnOnce, x
    <2>. QED  BY <1>12, <2>1, <2>2 DEF IdsDrawnOnce
  <1>16. OrderIdsIncrease'
    <2> SUFFICES ASSUME NEW v \in User, NEW w \in User, NEW i \in DOMAIN orders'[v], NEW j \in DOMAIN orders'[w]
                 PROVE  /\ v = w /\ i < j => orders'[v][i].id < orders'[w][j].id
                        /\ v # w => orders'[v][i].id # orders'[w][j].id
      BY DEF OrderIdsIncrease
    <2>1. \/ v = u /\ i = k /\ x.type = "USE" /\ orders'[v][i].id = x.orderId
          \/ i \in DOMAIN orders[v] /\ orders'[v][i] = orders[v][i]
      BY <1>8, <1>11
    <2>2. \/ w = u /\ j = k /\ x.type = "USE" /\ orders'[w][j].id = x.orderId
          \/ j \in DOMAIN orders[w] /\ orders'[w][j] = orders[w][j]
      BY <1>8, <1>11
    <2>3. x.type = "USE" => \A z \in User : \A l \in DOMAIN orders[z] :
             orders[z][l].id # x.orderId /\ (z = u => orders[z][l].id < x.orderId)
      BY <1>13 DEF IdsDrawnOnce, x, u
    <2>4. \A l \in DOMAIN orders[u] : ~(k < l)
      BY <1>6
    <2>5. ~(k < k)
      BY <1>6
    <2>. QED  BY <2>1, <2>2, <2>3, <2>4, <2>5 DEF OrderIdsIncrease
  <1>17. OrderPerUse'
    <2>1. ASSUME NEW v \in User, NEW i \in DOMAIN orders'[v]
          PROVE  \E j \in DOMAIN history'[v] :
                    history'[v][j] = [req |-> orders'[v][i].req, type |-> "USE", amount |-> orders'[v][i].price]
      <3>1. CASE v = u /\ i = k /\ x.type = "USE" /\ orders'[v][i] = OrderRowOf(x)
        <4>1. HistoryRowOf(x) = [req |-> orders'[v][i].req, type |-> "USE", amount |-> orders'[v][i].price]
          BY <3>1 DEF HistoryRowOf, OrderRowOf
        <4>. QED  BY <1>4, <3>1, <4>1
      <3>2. CASE i \in DOMAIN orders[v] /\ orders'[v][i] = orders[v][i]
        <4>1. PICK j \in DOMAIN history[v] :
                 history[v][j] = [req |-> orders[v][i].req, type |-> "USE", amount |-> orders[v][i].price]
          BY <3>2 DEF OrderPerUse
        <4>2. j \in DOMAIN history'[v] /\ history'[v][j] = history[v][j]
          BY <1>2, <1>4
        <4>. QED  BY <3>2, <4>1, <4>2
      <3>. QED  BY <1>11, <3>1, <3>2
    <2>2. ASSUME NEW v \in User, NEW j \in DOMAIN history'[v], history'[v][j].type = "USE"
          PROVE  \E i \in DOMAIN orders'[v] : /\ orders'[v][i].req = history'[v][j].req
                                              /\ orders'[v][i].price = history'[v][j].amount
      <3>1. CASE v = u /\ j = n
        BY <1>4, <1>6, <1>8, <2>2, <3>1
      <3>2. CASE j \in DOMAIN history[v] /\ history'[v][j] = history[v][j]
        <4>1. PICK i \in DOMAIN orders[v] : /\ orders[v][i].req = history[v][j].req
                                            /\ orders[v][i].price = history[v][j].amount
          BY <2>2, <3>2 DEF OrderPerUse
        <4>2. i \in DOMAIN orders'[v] /\ orders'[v][i] = orders[v][i]
          BY <1>2, <1>6
        <4>. QED  BY <3>2, <4>1, <4>2
      <3>. QED  BY <1>2, <1>4, <3>1, <3>2
    <2>. QED  BY <2>1, <2>2 DEF OrderPerUse
  <1>18. ASSUME NEW v \in User, NEW i \in DOMAIN history[v]
         PROVE  /\ i \in DOMAIN history'[v] /\ history'[v][i] = history[v][i]
                /\ trail'[v][i + 1] = trail[v][i + 1]
    <2>1. CASE v = u
      <3>1. i + 1 \in 1..n
        <4>1. history[u] \in Seq(HistoryRow)
          BY <2>1 DEF PaymentInv, TypeOK
        <4>. QED  BY <2>1, <4>1 DEF n
      <3>. QED  BY <1>4, <1>5, <2>1, <3>1
    <2>2. CASE v # u
      BY <1>2, <2>2
    <2>. QED  BY <2>1, <2>2
  <1>19. ReplyTruthful'
    <2> SUFFICES ASSUME NEW q \in Thread, reply'[q] = reply[q]
                 PROVE  /\ reply[q].status = "OK" =>
                             /\ reply[q].at \in DOMAIN history'[reply[q].user]
                             /\ history'[reply[q].user][reply[q].at] = HistoryRowOf(reply[q])
                             /\ trail'[reply[q].user][reply[q].at + 1] = reply[q].bal
                        /\ reply[q].status \in BusinessError =>
                             \A v \in User : \A i \in DOMAIN history'[v] : history'[v][i].req # reply[q].req
      BY <1>9 DEF ReplyTruthful, HistoryRowOf, BusinessError
    <2>1. reply[q].status = "OK" => reply[q].user \in User
      BY DEF OwnRowsKnown
    <2>2. ASSUME reply[q].status \in BusinessError, NEW v \in User, NEW i \in DOMAIN history'[v]
          PROVE  history'[v][i].req # reply[q].req
      <3>1. CASE v = u /\ i = n
        BY <1>4, <1>8, <2>2, <3>1 DEF RequestsOnce, x, BeforeCommit, InTransaction
      <3>2. CASE i \in DOMAIN history[v] /\ history'[v][i] = history[v][i]
        BY <2>2, <3>2 DEF ReplyTruthful
      <3>3. CASE v = u
        BY <1>4, <2>2, <3>1, <3>2, <3>3
      <3>4. CASE v # u
        BY <1>2, <2>2, <3>2, <3>4
      <3>. QED  BY <3>3, <3>4
    <2>. QED  BY <1>18, <2>1, <2>2 DEF ReplyTruthful
  <1>20. EventsAreCommitted'
    <2>1. ASSUME NEW i \in DOMAIN published
          PROVE  \E v \in User : \E l \in DOMAIN orders'[v] : orders'[v][l] = published[i]
      <3>1. PICK v \in User : \E l \in DOMAIN orders[v] : orders[v][l] = published[i]
        BY DEF EventsAreCommitted
      <3>2. PICK l \in DOMAIN orders[v] : orders[v][l] = published[i]
        BY <3>1
      <3>3. l \in DOMAIN orders'[v] /\ orders'[v][l] = orders[v][l]
        BY <1>2, <1>6
      <3>. QED  BY <3>2, <3>3
    <2>. QED  BY <2>1 DEF EventsAreCommitted
  <1>21. OwnRowsKnown'
    <2>1. ASSUME NEW s \in Thread
          PROVE  /\ pc'[s] \in {"saveHistory", "saveOrder", "commit"} => tx'[s].amount > 0
                 /\ reply'[s].status = "OK" => reply'[s].user \in User
      BY <1>3, <1>9 DEF OwnRowsKnown
    <2>2. ASSUME NEW s \in Thread, pc'[s] = "afterCommit"
          PROVE  /\ tx'[s].user \in User
                 /\ tx'[s].at \in DOMAIN history'[tx'[s].user]
                 /\ history'[tx'[s].user][tx'[s].at] = HistoryRowOf(tx'[s])
                 /\ trail'[tx'[s].user][tx'[s].at + 1] = tx'[s].bal
                 /\ tx'[s].type = "USE" => \E l \in DOMAIN orders'[tx'[s].user] :
                                             orders'[tx'[s].user][l] = OrderRowOf(tx'[s])
      <3>1. CASE s = t
        <4>1. /\ tx'[s].user = u /\ tx'[s].at = n /\ tx'[s].bal = x.bal /\ tx'[s].type = x.type
              /\ HistoryRowOf(tx'[s]) = HistoryRowOf(x) /\ OrderRowOf(tx'[s]) = OrderRowOf(x)
          BY <1>3, <2>2, <3>1 DEF SameRequest, u, n, x, HistoryRowOf, OrderRowOf
        <4>. QED  BY <1>1, <1>4, <1>5, <1>6, <4>1
      <3>2. CASE s # t
        <4>1. tx'[s] = tx[s] /\ pc[s] = "afterCommit"
          BY <1>3, <2>2, <3>2
        <4>2. /\ tx[s].user \in User /\ tx[s].at \in DOMAIN history[tx[s].user]
              /\ history[tx[s].user][tx[s].at] = HistoryRowOf(tx[s])
              /\ trail[tx[s].user][tx[s].at + 1] = tx[s].bal
          BY <4>1 DEF OwnRowsKnown
        <4>3. ASSUME tx[s].type = "USE"
              PROVE  \E l \in DOMAIN orders'[tx[s].user] : orders'[tx[s].user][l] = OrderRowOf(tx[s])
          <5>1. PICK l \in DOMAIN orders[tx[s].user] : orders[tx[s].user][l] = OrderRowOf(tx[s])
            BY <4>1, <4>3 DEF OwnRowsKnown
          <5>2. l \in DOMAIN orders'[tx[s].user] /\ orders'[tx[s].user][l] = orders[tx[s].user][l]
            BY <1>2, <1>6, <4>2
          <5>. QED  BY <5>1, <5>2
        <4>. QED  BY <1>18, <4>1, <4>2, <4>3
      <3>. QED  BY <3>1, <3>2
    <2>. QED  BY <2>1, <2>2 DEF OwnRowsKnown, HistoryRowOf, OrderRowOf
  <1>. QED  BY <1>10, <1>15, <1>16, <1>17, <1>19, <1>20, <1>21

\* Every step of every thread, and of the environment, keeps the promises.
LEMMA NextPromises ==
    ASSUME PaymentInv, Promises, [Next]_vars
    PROVE  Promises'
  <1>0. received \in Nat /\ \A t \in Thread : tx[t] \in Tx
    BY DEF PaymentInv, TypeOK
  <1>1. ASSUME NEW t \in Thread, NEW u \in UserId, NEW a \in Amount, ChargeRequest(t, u, a)
        PROVE  Promises'
    <2> DEFINE x == NewTx(received + 1, "CHARGE", u, NoMenu, a)
               s == IF a <= 0 THEN "VALIDATION_ERROR" ELSE "NONE"
    <2>1. x \in Tx
      BY <1>0, NewTxType DEF PointHistoryType
    <2>2. x.req = received + 1 /\ s \in Status /\ s # "OK"
      BY DEF NewTx, Status, BusinessError
    <2>3. Take(t, x, s)
      BY <1>1 DEF ChargeRequest
    <2> HIDE DEF x, s
    <2>. QED  BY <2>1, <2>2, <2>3, TakePromises
  <1>2. ASSUME NEW t \in Thread, NEW u \in UserId, NEW m \in MenuId \cup {NoMenu}, OrderRequest(t, u, m)
        PROVE  Promises'
    <2> DEFINE x == NewTx(received + 1, "USE", u, m, IF m \in Menu THEN price[m] ELSE 0)
               s == IF m \in Menu THEN "NONE" ELSE IF m = NoMenu THEN "VALIDATION_ERROR" ELSE "MENU_NOT_FOUND"
    <2>0. (IF m \in Menu THEN price[m] ELSE 0) \in Int
      <3>1. CASE m \in Menu
        <4>1. price[m] \in Price
          BY <3>1 DEF PaymentInv, TypeOK
        <4>. QED  BY <3>1, <4>1
      <3>2. CASE m \notin Menu
        BY <3>2
      <3>. QED  BY <3>1, <3>2
    <2>1. x \in Tx
      BY <1>0, <2>0, NewTxType DEF PointHistoryType
    <2>2. x.req = received + 1 /\ s \in Status /\ s # "OK"
      BY DEF NewTx, Status, BusinessError
    <2>3. Take(t, x, s)
      BY <1>2 DEF OrderRequest
    <2> HIDE DEF x, s
    <2>. QED  BY <2>1, <2>2, <2>3, TakePromises
  <1>3. ASSUME NEW t \in Thread, UserNotFound(t) \/ LockWaitTimeout(t) \/ StatementFails(t)
        PROVE  Promises'
    <2>1. pc[t] \in BeforeCommit
      BY <1>3 DEF UserNotFound, LockWaitTimeout, StatementFails, BeforeCommit
    <2>. QED  BY <1>3, <2>1, RollbackPromises
              DEF UserNotFound, LockWaitTimeout, StatementFails, Status, BusinessError
  <1>4. ASSUME NEW t \in Thread, FindByIdForUpdate(t)
        PROVE  Promises'
    <2> DEFINE y == [tx[t] EXCEPT !.bal = balance[tx[t].user]]
    <2>1. balance[tx[t].user] \in Int
      BY <1>4 DEF FindByIdForUpdate, PaymentInv, TypeOK
    <2>2. y \in Tx /\ SameRequest(y, tx[t]) /\ tx' = [tx EXCEPT ![t] = y]
      BY <1>0, <1>4, <2>1, TxBal DEF FindByIdForUpdate
    <2>3. pc[t] \in BeforeCommit /\ "apply" \in InTransaction /\ pc' = [pc EXCEPT ![t] = "apply"]
          /\ nextOrderId' = nextOrderId /\ UNCHANGED <<dbVars, reply, published, received>>
      BY <1>4 DEF FindByIdForUpdate, BeforeCommit, InTransaction
    <2> HIDE DEF y
    <2>. QED  BY <2>2, <2>3, StatementPromises
  <1>5. ASSUME NEW t \in Thread, NEW b \in Int, pc[t] = "apply", tx[t].amount > 0, SetBalance(t, b)
        PROVE  Promises'
    <2> DEFINE y == [tx[t] EXCEPT !.bal = b]
    <2>2. y \in Tx /\ SameRequest(y, tx[t]) /\ tx' = [tx EXCEPT ![t] = y]
      BY <1>0, <1>5, TxBal DEF SetBalance
    <2>3. pc[t] \in BeforeCommit /\ "saveHistory" \in InTransaction /\ pc' = [pc EXCEPT ![t] = "saveHistory"]
          /\ nextOrderId' = nextOrderId /\ UNCHANGED <<dbVars, reply, published, received>>
      BY <1>5 DEF SetBalance, BeforeCommit, InTransaction
    <2>4. y.amount > 0
      BY <1>5, <2>2 DEF SameRequest
    <2> HIDE DEF y
    <2>. QED  BY <2>2, <2>3, <2>4, StatementPromises
  <1>6. ASSUME NEW t \in Thread, Charge(t) \/ Use(t)
        PROVE  Promises'
    <2> DEFINE x == tx[t]
    <2>1. x.bal \in Int /\ x.amount \in Int
      BY <1>0 DEF Tx
    <2>2. pc[t] = "apply" /\ pc[t] \in BeforeCommit /\ (x.type = "CHARGE" => x.amount > 0)
      BY <1>6 DEF Charge, Use, BeforeCommit, InTransaction, PaymentInv, RowsSaved
    <2>3. CASE \E s \in Status \ {"OK"} : RollbackWith(t, s)
      BY <2>2, <2>3, RollbackPromises
    <2>4. CASE x.amount > 0 /\ \E b \in Int : SetBalance(t, b)
      BY <1>5, <2>2, <2>4
    <2>5. Charge(t) => \/ RollbackWith(t, "POINT_BALANCE_OVERFLOW")
                       \/ x.amount > 0 /\ SetBalance(t, x.bal + x.amount)
      BY <2>2 DEF Charge
    <2>6. Use(t) => \/ RollbackWith(t, "SERVER_ERROR") \/ RollbackWith(t, "INSUFFICIENT_POINT")
                    \/ x.amount > 0 /\ SetBalance(t, x.bal - x.amount)
      BY <2>1 DEF Use
    <2>7. {"POINT_BALANCE_OVERFLOW", "SERVER_ERROR", "INSUFFICIENT_POINT"} \subseteq Status \ {"OK"}
      BY DEF Status, BusinessError
    <2>. QED  BY <1>6, <2>1, <2>3, <2>4, <2>5, <2>6, <2>7
  <1>7. ASSUME NEW t \in Thread, SaveHistory(t)
        PROVE  Promises'
    <2> DEFINE y == [tx[t] EXCEPT !.saved = tx[t].saved \cup {"history"}]
               p == IF tx[t].type = "USE" THEN "saveOrder" ELSE "commit"
    <2>1. tx[t].saved \cup {"history"} \in SUBSET {"history", "order"}
      BY <1>0 DEF Tx
    <2>2. y \in Tx /\ SameRequest(y, tx[t]) /\ tx' = [tx EXCEPT ![t] = y]
      BY <1>0, <1>7, <2>1, TxSaved DEF SaveHistory
    <2>3. pc[t] \in BeforeCommit /\ p \in InTransaction /\ pc' = [pc EXCEPT ![t] = p]
          /\ nextOrderId' = nextOrderId /\ UNCHANGED <<dbVars, reply, published, received>>
      BY <1>7 DEF SaveHistory, BeforeCommit, InTransaction
    <2>4. y.amount > 0 /\ (p = "commit" => y.type # "USE")
      BY <1>7, <2>2 DEF SameRequest, SaveHistory, Promises, OwnRowsKnown
    <2> HIDE DEF y, p
    <2>. QED  BY <2>2, <2>3, <2>4, StatementPromises
  <1>8. ASSUME NEW t \in Thread, SaveOrder(t)
        PROVE  Promises'
    <2> DEFINE z == tx[t].saved \cup {"order"}
               y == [tx[t] EXCEPT !.saved = z, !.orderId = nextOrderId]
    <2>1. z \in SUBSET {"history", "order"} /\ nextOrderId \in Nat
      BY <1>0 DEF Tx, PaymentInv, TypeOK
    <2> HIDE DEF z
    <2>2. y \in Tx /\ SameRequest(y, tx[t]) /\ y.orderId = nextOrderId
      BY <1>0, <2>1 DEF Tx, SameRequest
    <2>3. tx' = [tx EXCEPT ![t] = y]
      BY <1>8 DEF SaveOrder, z
    <2>4. pc[t] \in BeforeCommit /\ "commit" \in InTransaction /\ pc' = [pc EXCEPT ![t] = "commit"]
          /\ nextOrderId' = nextOrderId + 1 /\ UNCHANGED <<dbVars, reply, published, received>>
      BY <1>8 DEF SaveOrder, BeforeCommit, InTransaction
    <2>5. y.amount > 0
      BY <1>8, <2>2 DEF SameRequest, SaveOrder, Promises, OwnRowsKnown
    <2> HIDE DEF y
    <2>. QED  BY <2>2, <2>3, <2>4, <2>5, StatementPromises
  <1>9. ASSUME NEW t \in Thread, Commit(t)
        PROVE  Promises'
    <2> DEFINE n == Len(history[tx[t].user]) + 1
               y == [tx[t] EXCEPT !.at = n]
    <2>1. tx[t] \in Tx /\ n \in Nat
      BY <1>9 DEF PaymentInv, TypeOK, LockDiscipline, InTransaction, Commit
    <2>2. y \in Tx /\ SameRequest(y, tx[t]) /\ y.bal = tx[t].bal
      BY <2>1, TxAt
    <2>3. y.at = n /\ y.orderId = tx[t].orderId
      BY <2>1 DEF Tx
    <2>4. tx' = [tx EXCEPT ![t] = y]
      BY <1>9 DEF Commit
    <2> HIDE DEF y
    <2>. QED  BY <1>9, <2>2, <2>3, <2>4, CommitPromises DEF Commit
  <1>10. ASSUME NEW t \in Thread, CommitAckLost(t)
         PROVE  Promises'
    <2>1. tx[t] \in Tx /\ SameRequest(tx[t], tx[t]) /\ tx' = [tx EXCEPT ![t] = tx[t]]
      BY <1>10 DEF PaymentInv, TypeOK, SameRequest, CommitAckLost
    <2>. QED  BY <1>10, <2>1, CommitPromises DEF CommitAckLost
  <1>11. ASSUME \/ \E i \in Instance : Restart(i)
                \/ \E m \in Menu, p \in Price : ChangePrice(m, p)
                \/ UNCHANGED vars
         PROVE  Promises'
    BY <1>11, FramePromises DEF Restart, ChangePrice, vars, dbVars
  <1>. QED  BY <1>1, <1>2, <1>3, <1>4, <1>6, <1>7, <1>8, <1>9, <1>10, <1>11,
               AfterCommitPromises, CrashPromises DEF Next, Serve

-----------------------------------------------------------------------------
\* Locks, entities, rows, requests, order ids, answers and events satisfy the
\* inductive invariant in every state.
THEOREM RequestInvariant == Spec => []RequestInv
  <1>1. Init => RequestInv
    BY InitInv, InitPromises DEF RequestInv, Promises
  <1>2. RequestInv /\ [Next]_vars => RequestInv'
    <2> SUFFICES ASSUME RequestInv, [Next]_vars PROVE RequestInv'
      OBVIOUS
    <2>1. PaymentInv /\ Promises
      BY DEF RequestInv, Promises
    <2>2. PaymentInv'
      BY <2>1, NextInv
    <2>3. Promises'
      BY <2>1, NextPromises
    <2>. QED  BY <2>2, <2>3 DEF RequestInv, Promises
  <1>. QED  BY <1>1, <1>2, PTL DEF Spec

\* No order without its payment and no payment without its order
\* (OrderService.order), whatever fails in between.
THEOREM OrdersArePaid == Spec => []OrderPerUse
  <1>1. RequestInv => OrderPerUse
    BY DEF RequestInv
  <1>. QED  BY <1>1, RequestInvariant, PTL

\* Order ids are unique, and grow for each user in commit order.
THEOREM OrderIdsAreIncreasing == Spec => []OrderIdsIncrease
  <1>1. RequestInv => OrderIdsIncrease
    BY DEF RequestInv
  <1>. QED  BY <1>1, RequestInvariant, PTL

\* Success answers carry the balance right after the request's own row, and a
\* request that was refused never leaves a row.
THEOREM AnswersAreTrue == Spec => []ReplyTruthful
  <1>1. RequestInv => ReplyTruthful
    BY DEF RequestInv
  <1>. QED  BY <1>1, RequestInvariant, PTL

\* The AFTER_COMMIT listeners see committed orders only, each at most once.
THEOREM EventsFollowCommits == Spec => []EventsAreCommitted
  <1>1. RequestInv => EventsAreCommitted
    BY DEF RequestInv
  <1>. QED  BY <1>1, RequestInvariant, PTL

-----------------------------------------------------------------------------
(* Refinement of the atomic ledger *)

\* A commit, acknowledged or not, is one atomic charge or payment.
LEMMA CommitIsAtomic ==
    ASSUME RequestInv, NEW t \in Thread, pc[t] = "commit", CommitWrites(tx[t])
    PROVE  L!LedgerNext
  <1> DEFINE x == tx[t]
             u == x.user
  <1>1. /\ x \in Tx /\ u \in User /\ x.type \in PointHistoryType
        /\ balance' = [balance EXCEPT ![u] = x.bal]
        /\ history' = [history EXCEPT ![u] = Append(@, HistoryRowOf(x))]
        /\ HistoryRowOf(x) \in HistoryRow /\ x.bal \in 0..MaxLong
        /\ x.type = "CHARGE" => orders' = orders
        /\ x.type = "USE" => /\ OrderRowOf(x) \in OrderRow /\ x.menu \in Menu
                             /\ orders' = [orders EXCEPT ![u] = Append(@, OrderRowOf(x))]
    BY CommitEffect DEF RequestInv
  <1>2. /\ history \in [User -> Seq(HistoryRow)] /\ orders \in [User -> Seq(OrderRow)]
        /\ balance \in [User -> 0..MaxLong] /\ x.amount \in Int
    BY <1>1 DEF RequestInv, PaymentInv, TypeOK, Tx
  <1>3. x.amount > 0 /\ x.bal = balance[u] + Signed(HistoryRowOf(x))
    BY DEF RequestInv, PaymentInv, OwnRowsKnown, EntityFresh
  <1>4. L!Unapplied(x.req)
    BY DEF L!Unapplied, RequestInv, RequestsOnce, BeforeCommit, InTransaction
  <1>5. /\ history'[u] = Append(history[u], HistoryRowOf(x))
        /\ Len(history'[u]) = Len(history[u]) + 1
        /\ history'[u][Len(history'[u])] = HistoryRowOf(x)
    <2>1. history[u] \in Seq(HistoryRow) /\ history'[u] = Append(history[u], HistoryRowOf(x))
      BY <1>1, <1>2
    <2>. QED  BY <1>1, <2>1, AppendRow
  <1>6. CASE x.type = "CHARGE"
    <2>1. HistoryRowOf(x) = [req |-> x.req, type |-> "CHARGE", amount |-> x.amount]
          /\ Signed(HistoryRowOf(x)) = x.amount
      BY <1>6 DEF HistoryRowOf, Signed
    <2>2. x.bal = balance[u] + x.amount /\ balance[u] + x.amount <= MaxLong
      BY <1>1, <1>2, <1>3, <2>1
    <2>3. L!ChargePoints(u, x.amount, x.req)
      BY <1>1, <1>2, <1>3, <1>4, <1>6, <2>1, <2>2 DEF L!ChargePoints
    <2>4. HistoryRowOf(x).amount = x.amount /\ HistoryRowOf(x).req = x.req
      BY DEF HistoryRowOf
    <2>. QED  BY <1>1, <1>5, <2>3, <2>4 DEF L!LedgerNext
  <1>7. CASE x.type = "USE"
    <2> DEFINE row == OrderRowOf(x)
    <2>1. /\ HistoryRowOf(x) = [req |-> x.req, type |-> "USE", amount |-> x.amount]
          /\ Signed(HistoryRowOf(x)) = -x.amount
          /\ row = [id |-> x.orderId, req |-> x.req, menu |-> x.menu, price |-> x.amount]
      BY <1>7 DEF HistoryRowOf, Signed, OrderRowOf
    <2>2. x.bal = balance[u] - x.amount /\ x.amount <= balance[u]
      <3> DEFINE b == balance[u]
                 p == x.amount
      <3>1. b \in Int /\ p \in Int /\ x.bal \in 0..MaxLong /\ x.bal = b + (-p)
        BY <1>1, <1>2, <1>3, <2>1
      <3> HIDE DEF b, p
      <3>2. x.bal = b - p /\ p <= b
        BY <3>1
      <3>. QED  BY <3>2 DEF b, p
    <2>3. L!FreshId(x.orderId) /\ \A i \in DOMAIN orders[u] : orders[u][i].id < x.orderId
      BY <1>1, <1>7 DEF L!FreshId, RequestInv, IdsDrawnOnce, HasOrderId
    <2>4. L!PayOrder(u, x.menu, x.amount, x.req, x.orderId)
      BY <1>1, <1>2, <1>3, <1>4, <1>7, <2>1, <2>2, <2>3 DEF L!PayOrder
    <2>5. /\ Len(orders'[u]) = Len(orders[u]) + 1
          /\ orders'[u][Len(orders'[u])] = row
      <3>1. orders[u] \in Seq(OrderRow) /\ orders'[u] = Append(orders[u], row) /\ row \in OrderRow
        BY <1>1, <1>2, <1>7
      <3>. QED  BY <3>1, AppendRow
    <2>6. row.menu = x.menu /\ row.price = x.amount /\ row.req = x.req /\ row.id = x.orderId
      BY DEF OrderRowOf
    <2>. QED  BY <1>1, <1>7, <2>4, <2>5, <2>6 DEF L!LedgerNext
  <1>. QED  BY <1>1, <1>6, <1>7 DEF PointHistoryType

\* Threads, row locks, instances and failures together implement a ledger in
\* which every charge and every payment is one indivisible step.
THEOREM ImplementsLedger == Spec => LedgerRefinement
  <1>1. Init => L!LedgerInit
    BY DEF Init, L!LedgerInit
  <1>2. RequestInv /\ [Next]_vars => [L!LedgerNext]_(L!ledgerVars)
    <2> SUFFICES ASSUME RequestInv, [Next]_vars PROVE [L!LedgerNext]_(L!ledgerVars)
      OBVIOUS
    <2>1. ASSUME NEW t \in Thread, Commit(t) \/ CommitAckLost(t)
          PROVE  L!LedgerNext
      BY <2>1, CommitIsAtomic DEF Commit, CommitAckLost
    <2>2. ASSUME NEW t \in Thread,
                 \/ \E u \in UserId, a \in Amount : ChargeRequest(t, u, a)
                 \/ \E u \in UserId, m \in MenuId \cup {NoMenu} : OrderRequest(t, u, m)
                 \/ FindByIdForUpdate(t) \/ UserNotFound(t) \/ LockWaitTimeout(t)
                 \/ Charge(t) \/ Use(t) \/ SaveHistory(t) \/ SaveOrder(t)
                 \/ AfterCommit(t) \/ StatementFails(t)
          PROVE  UNCHANGED dbVars
      <3>1. ASSUME NEW x, NEW s, Take(t, x, s) PROVE UNCHANGED dbVars
        BY <3>1 DEF Take
      <3>2. ASSUME NEW s, RollbackWith(t, s) PROVE UNCHANGED dbVars
        BY <3>2 DEF RollbackWith
      <3>3. ASSUME NEW b, SetBalance(t, b) PROVE UNCHANGED dbVars
        BY <3>3 DEF SetBalance
      <3>4. ASSUME NEW u, NEW a, ChargeRequest(t, u, a) \/ OrderRequest(t, u, a) PROVE UNCHANGED dbVars
        BY <3>1, <3>4 DEF ChargeRequest, OrderRequest
      <3>5. ASSUME UserNotFound(t) \/ LockWaitTimeout(t) \/ StatementFails(t) \/ Charge(t) \/ Use(t)
            PROVE  UNCHANGED dbVars
        BY <3>2, <3>3, <3>5 DEF UserNotFound, LockWaitTimeout, StatementFails, Charge, Use
      <3>6. ASSUME FindByIdForUpdate(t) \/ SaveHistory(t) \/ SaveOrder(t) \/ AfterCommit(t)
            PROVE  UNCHANGED dbVars
        BY <3>6 DEF FindByIdForUpdate, SaveHistory, SaveOrder, AfterCommit
      <3>. QED  BY <2>2, <3>4, <3>5, <3>6
    <2>3. ASSUME \/ \E i \in Instance : Crash(i) \/ Restart(i)
                 \/ \E m \in Menu, p \in Price : ChangePrice(m, p)
                 \/ UNCHANGED vars
          PROVE  UNCHANGED dbVars
      BY <2>3 DEF Crash, Restart, ChangePrice, vars, dbVars
    <2>. QED  BY <2>1, <2>2, <2>3 DEF Next, Serve, dbVars, L!ledgerVars
  <1>. QED  BY <1>1, <1>2, RequestInvariant, PTL DEF Spec, LedgerRefinement, L!LedgerSpec
=============================================================================
