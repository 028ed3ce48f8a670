------------------------------- MODULE Ledger -------------------------------
(***************************************************************************)
(* What the payment half of the service promises, with no threads, row     *)
(* locks, instances or failures: a charge and an order each happen in one  *)
(* indivisible step, or not at all.                                        *)
(*                                                                         *)
(*   balance[u]  the point balance of user u                               *)
(*   history[u]  the point history rows of u, oldest first                 *)
(*   orders[u]   the orders of u, oldest first                             *)
(*                                                                         *)
(* Rows carry the number of the request that wrote them, so that "at most  *)
(* once" can be stated.                                                    *)
(***************************************************************************)
EXTENDS Integers, Sequences

CONSTANTS User,            \* users that exist
          Menu,            \* menus that exist
          MaxLong,         \* largest value of a Java long
          InitialBalance   \* balance of every user before the first request

VARIABLES balance, history, orders

ledgerVars == <<balance, history, orders>>


LedgerInit ==
    /\ balance = InitialBalance
    /\ history = [u \in User |-> <<>>]
    /\ orders = [u \in User |-> <<>>]

Unapplied(r) == \A u \in User : \A i \in DOMAIN history[u] : history[u][i].req # r

FreshId(id) == \A u \in User : \A i \in DOMAIN orders[u] : orders[u][i].id # id

\* u's balance grows by a, as long as a long can hold it.
ChargePoints(u, a, r) ==
    /\ a > 0
    /\ balance[u] + a <= MaxLong
    /\ Unapplied(r)
    /\ balance' = [balance EXCEPT ![u] = @ + a]
    /\ history' = [history EXCEPT ![u] = Append(@, [req |-> r, type |-> "CHARGE", amount |-> a])]
    /\ UNCHANGED orders

\* u pays p for menu m: balance, history and order change together, and the
\* order gets an id no other order has, greater than u's earlier ones.
PayOrder(u, m, p, r, id) ==
    /\ 0 < p
    /\ p <= balance[u]
    /\ Unapplied(r)
    /\ FreshId(id)
    /\ \A i \in DOMAIN orders[u] : orders[u][i].id < id
    /\ balance' = [balance EXCEPT ![u] = @ - p]
    /\ history' = [history EXCEPT ![u] = Append(@, [req |-> r, type |-> "USE", amount |-> p])]
    /\ orders' = [orders EXCEPT ![u] = Append(@, [id |-> id, req |-> r, menu |-> m, price |-> p])]

\* The arguments are read off the rows the step appends.
LedgerNext ==
    \E u \in User :
        \/ /\ Len(history'[u]) = Len(history[u]) + 1
           /\ LET row == history'[u][Len(history'[u])]
              IN  ChargePoints(u, row.amount, row.req)
        \/ /\ Len(orders'[u]) = Len(orders[u]) + 1
           /\ LET row == orders'[u][Len(orders'[u])]
              IN  /\ row.menu \in Menu
                  /\ PayOrder(u, row.menu, row.price, row.req, row.id)

LedgerSpec == LedgerInit /\ [][LedgerNext]_ledgerVars
=============================================================================
