-------------------------------- MODULE Topic -------------------------------
(***************************************************************************)
(* What the data platform is promised about orders: an order is announced  *)
(* after its commit and at most once, a report "delivered" comes after the *)
(* announcement, any other report promises nothing, and only what was      *)
(* announced is processed.  How events travel does not show.               *)
(***************************************************************************)
EXTENDS Integers

CONSTANT Order

VARIABLES
    placed,     \* committed orders
    announced,  \* announced[k]: records of order k in the topic
    report,     \* report[k]: what the application logged about k
    processed   \* orders the consumer is done with

topicVars == <<placed, announced, report, processed>>

TopicInit ==
    /\ placed = {} /\ processed = {}
    /\ announced = [k \in Order |-> 0]
    /\ report = [k \in Order |-> "none"]

Place(k) ==
    /\ k \notin placed
    /\ placed' = placed \cup {k}
    /\ UNCHANGED <<announced, report, processed>>

Announce(k) ==
    /\ k \in placed /\ announced[k] = 0
    /\ announced' = [announced EXCEPT ![k] = 1]
    /\ UNCHANGED <<placed, report, processed>>

\* A report is final.  "unknown" may come before or after an announcement.
Delivered(k) ==
    /\ report[k] = "none" /\ announced[k] = 1
    /\ report' = [report EXCEPT ![k] = "delivered"]
    /\ UNCHANGED <<placed, announced, processed>>

\* Several orders at once: an instance dies with all its tasks.
Unknown(K) ==
    /\ K # {} /\ \A k \in K : k \in placed /\ report[k] = "none"
    /\ report' = [k \in Order |-> IF k \in K THEN "unknown" ELSE report[k]]
    /\ UNCHANGED <<placed, announced, processed>>

Finish(k) ==
    /\ announced[k] = 1 /\ k \notin processed
    /\ processed' = processed \cup {k}
    /\ UNCHANGED <<placed, announced, report>>

TopicNext ==
    \/ \E k \in Order : Place(k) \/ Announce(k) \/ Delivered(k) \/ Finish(k)
    \/ \E K \in SUBSET Order : Unknown(K)

TopicSpec == TopicInit /\ [][TopicNext]_topicVars
=============================================================================
