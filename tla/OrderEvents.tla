----------------------------- MODULE OrderEvents ----------------------------
(***************************************************************************)
(* From the commit of an order to the data platform: the @Async            *)
(* AFTER_COMMIT listener, the Kafka producer with its ten second wait, the *)
(* partition logs and the consumer group with manual acknowledgement.      *)
(*                                                                         *)
(* Orders are numbered.  Kafka, Spring's executor and the listener         *)
(* container are modelled from how the code configures and calls them.     *)
(***************************************************************************)
EXTENDS Integers, Sequences, FiniteSets, Functions

CONSTANTS
    Instance,      \* application instances, each with a producer
    User,          \* message keys
    Partition,     \* partitions of the topic
    PartitionOf,   \* PartitionOf[u]: partition the key u hashes to
    Workers,       \* threads of an instance's async executor
    MaxAttempts,   \* deliveries of a record that keeps failing: FixedBackOff(1000, 2)
    MaxOrders,     \* bound: number of orders
    MaxRebalances  \* bound: number of consumer crashes and rebalances

ASSUME OrderEventsAssumption == /\ PartitionOf \in [User -> Partition]
                                /\ Workers \in Nat \ {0}
                                /\ MaxAttempts \in Nat \ {0}
                                /\ MaxOrders \in Nat

VARIABLES
    orders,      \* orders[k]: user, instance and stage of order k
    commits,     \* order numbers in commit order
    queue,       \* queue[i]: tasks waiting for a worker of instance i
    buffer,      \* buffer[i][p]: records i's producer has yet to get to p
    log,         \* log[p]: the records of partition p
    position,    \* position[p]: records of p the consumer is done with
    acked,       \* acked[p]: records of p acknowledged since the last poll
    committed,   \* committed[p]: the group's committed offset in p
    attempts,    \* attempts[p]: failed deliveries of the record at position
    handled,     \* orders the message handler has processed
    skipped,     \* orders given up after MaxAttempts
    rebalances,  \* number of consumer crashes and rebalances so far
    up           \* up[i]: instance i is running

producerVars == <<orders, commits, queue, buffer>>
consumerVars == <<position, acked, committed, attempts, handled, skipped, rebalances>>
vars == <<orders, commits, queue, buffer, log, position, acked, committed,
          attempts, handled, skipped, rebalances, up>>

-----------------------------------------------------------------------------
\* open, rolledBack: the transaction; committed: the AFTER_COMMIT listener is
\* about to be called; unannounced: it never will be; queued, running: the @Async task; sent, failed: what
\* the task reported; gone: the instance died first.
Stage == {"open", "rolledBack", "committed", "unannounced", "queued", "running", "waiting",
          "sent", "failed", "gone"}
Ids == DOMAIN orders
PartitionFor(k) == PartitionOf[orders[k].user]
Running(i) == {k \in Ids : orders[k].instance = i /\ orders[k].stage \in {"running", "waiting"}}
SetStage(k, st) == orders' = [orders EXCEPT ![k].stage = st]
InLog == {k \in Ids : k \in Range(log[PartitionFor(k)])}

Order == [user : User, instance : Instance, stage : Stage]

TypeOK ==
    /\ orders \in Seq(Order) /\ Len(orders) <= MaxOrders
    /\ commits \in Seq(Ids)
    /\ queue \in [Instance -> Seq(Ids)]
    /\ buffer \in [Instance -> [Partition -> Seq(Ids)]]
    /\ log \in [Partition -> Seq(Ids)]
    /\ position \in [Partition -> Nat] /\ acked \in [Partition -> Nat] /\ committed \in [Partition -> Nat]
    /\ \A p \in Partition : /\ committed[p] <= acked[p]
                            /\ acked[p] <= position[p]
                            /\ position[p] <= Len(log[p])
    /\ attempts \in [Partition -> 0..(MaxAttempts - 1)]
    /\ handled \subseteq Ids /\ skipped \subseteq Ids
    /\ rebalances \in Nat
    /\ up \in [Instance -> BOOLEAN]

Init ==
    /\ orders = <<>> /\ commits = <<>>
    /\ queue = [i \in Instance |-> <<>>]
    /\ buffer = [i \in Instance |-> [p \in Partition |-> <<>>]]
    /\ log = [p \in Partition |-> <<>>]
    /\ position = [p \in Partition |-> 0]
    /\ acked = [p \in Partition |-> 0]
    /\ committed = [p \in Partition |-> 0]
    /\ attempts = [p \in Partition |-> 0]
    /\ handled = {} /\ skipped = {} /\ rebalances = 0
    /\ up = [i \in Instance |-> TRUE]

-----------------------------------------------------------------------------
(* Producer side *)

\* OrderService.order publishes the event inside its transaction.
PublishEvent(i, u) ==
    /\ up[i]
    /\ Len(orders) < MaxOrders
    /\ orders' = Append(orders, [user |-> u, instance |-> i, stage |-> "open"])
    /\ UNCHANGED <<commits, queue, buffer, log, consumerVars, up>>

CommitOrder(k) ==
    /\ orders[k].stage = "open"
    /\ SetStage(k, "committed")
    /\ commits' = Append(commits, k)
    /\ UNCHANGED <<queue, buffer, log, consumerVars, up>>

\* The connection breaks after the server committed: Spring calls no
\* AFTER_COMMIT listener (Payment, CommitAckLost).
CommitAckLost(k) ==
    /\ orders[k].stage = "open"
    /\ SetStage(k, "unannounced")
    /\ commits' = Append(commits, k)
    /\ UNCHANGED <<queue, buffer, log, consumerVars, up>>

RollbackOrder(k) ==
    /\ orders[k].stage = "open"
    /\ SetStage(k, "rolledBack")
    /\ UNCHANGED <<commits, queue, buffer, log, consumerVars, up>>

\* AFTER_COMMIT: the proxy of @Async hands sendAfterCommit to the executor.
\* Two requests of one user may be here at once: the row lock is released.
SubmitAfterCommit(k) ==
    LET i == orders[k].instance IN
    /\ orders[k].stage = "committed"
    /\ queue' = [queue EXCEPT ![i] = Append(@, k)]
    /\ SetStage(k, "queued")
    /\ UNCHANGED <<commits, buffer, log, consumerVars, up>>

\* A free worker takes the oldest task.
RunTask(i) ==
    /\ queue[i] # <<>>
    /\ Cardinality(Running(i)) < Workers
    /\ queue' = [queue EXCEPT ![i] = Tail(@)]
    /\ SetStage(Head(queue[i]), "running")
    /\ UNCHANGED <<commits, buffer, log, consumerVars, up>>

\* kafkaTemplate.send: the record joins the producer's batch for its
\* partition; key is the user id.
Send(k) ==
    /\ orders[k].stage = "running"
    /\ buffer' = [buffer EXCEPT ![orders[k].instance][PartitionFor(k)] = Append(@, k)]
    /\ SetStage(k, "waiting")
    /\ UNCHANGED <<commits, queue, log, consumerVars, up>>

\* The broker appends the oldest record of a batch, once (idempotent producer).
BrokerAppends(i, p) ==
    /\ buffer[i][p] # <<>>
    /\ log' = [log EXCEPT ![p] = Append(@, Head(buffer[i][p]))]
    /\ buffer' = [buffer EXCEPT ![i][p] = Tail(@)]
    /\ UNCHANGED <<orders, commits, queue, consumerVars, up>>

\* The producer gives up on a record; its future fails.
RecordExpires(i, p) ==
    /\ buffer[i][p] # <<>>
    /\ buffer' = [buffer EXCEPT ![i][p] = Tail(@)]
    /\ LET k == Head(buffer[i][p])
       IN  IF orders[k].stage = "waiting" THEN SetStage(k, "failed") ELSE UNCHANGED orders
    /\ UNCHANGED <<commits, queue, log, consumerVars, up>>

\* get(): the broker has acknowledged the record.
SendAcknowledged(k) ==
    /\ orders[k].stage = "waiting"
    /\ k \in InLog
    /\ SetStage(k, "sent")
    /\ UNCHANGED <<commits, queue, buffer, log, consumerVars, up>>

\* Mutant: a timed out send is tried again.
SendRetriedOnTimeout(k) ==
    /\ orders[k].stage = "waiting"
    /\ SetStage(k, "running")
    /\ UNCHANGED <<commits, queue, buffer, log, consumerVars, up>>

\* Mutant: get() without a timeout.
SendNeverTimesOut(k) == FALSE /\ UNCHANGED vars

\* get() gives up after ten seconds (or is interrupted): the task logs a
\* failure, the record stays with the producer and may still arrive.
SendTimesOut(k) ==
    /\ orders[k].stage = "waiting"
    /\ SetStage(k, "failed")
    /\ UNCHANGED <<commits, queue, buffer, log, consumerVars, up>>

-----------------------------------------------------------------------------
(* Consumer side *)

RecordAt(p) == log[p][position[p] + 1]

\* Mutant: acknowledge() before handle().
ConsumeAckFirst(p) ==
    /\ position[p] < Len(log[p])
    /\ acked[p] < position[p] + 1
    /\ acked' = [acked EXCEPT ![p] = position[p] + 1]
    /\ position' = [position EXCEPT ![p] = @ + 1]
    /\ attempts' = [attempts EXCEPT ![p] = 0]
    /\ handled' \in {handled, handled \cup {RecordAt(p)}}
    /\ UNCHANGED <<producerVars, log, committed, skipped, rebalances, up>>

\* consume: the handler succeeds, then the record is acknowledged.
Consume(p) ==
    /\ position[p] < Len(log[p])
    /\ handled' = handled \cup {RecordAt(p)}
    /\ position' = [position EXCEPT ![p] = @ + 1]
    /\ acked' = [acked EXCEPT ![p] = position[p] + 1]
    /\ attempts' = [attempts EXCEPT ![p] = 0]
    /\ UNCHANGED <<producerVars, log, committed, skipped, rebalances, up>>

\* Mutant: an unlimited back-off, a failing record is tried for ever.
HandlerFailsForEver(p) ==
    /\ position[p] < Len(log[p])
    /\ attempts' = [attempts EXCEPT ![p] = (@ + 1) % MaxAttempts]
    /\ UNCHANGED <<producerVars, log, position, acked, committed, handled, skipped, rebalances, up>>

\* The handler throws: DefaultErrorHandler seeks back for another attempt and
\* after the last one logs the record and goes on; whether that alone moves
\* the offset to commit is left open.
HandlerFails(p) ==
    /\ position[p] < Len(log[p])
    /\ IF attempts[p] + 1 < MaxAttempts
         THEN /\ attempts' = [attempts EXCEPT ![p] = @ + 1]
              /\ UNCHANGED <<position, acked, skipped>>
         ELSE /\ attempts' = [attempts EXCEPT ![p] = 0]
              /\ position' = [position EXCEPT ![p] = @ + 1]
              /\ acked' \in {acked, [acked EXCEPT ![p] = position[p] + 1]}
              /\ skipped' = skipped \cup {RecordAt(p)}
    /\ UNCHANGED <<producerVars, log, committed, handled, rebalances, up>>

\* MANUAL mode: acknowledgements are committed when the poll's records are done.
CommitOffset(p) ==
    /\ committed[p] < acked[p]
    /\ committed' = [committed EXCEPT ![p] = acked[p]]
    /\ UNCHANGED <<producerVars, log, position, acked, attempts, handled, skipped, rebalances, up>>

\* Partition p moves to another consumer, which starts at the committed offset.
Rebalance(p) ==
    /\ rebalances < MaxRebalances
    /\ rebalances' = rebalances + 1
    /\ position' = [position EXCEPT ![p] = committed[p]]
    /\ acked' = [acked EXCEPT ![p] = committed[p]]
    /\ attempts' = [attempts EXCEPT ![p] = 0]
    /\ UNCHANGED <<producerVars, log, committed, handled, skipped, up>>

-----------------------------------------------------------------------------
\* The process dies: transactions roll back, tasks and unsent records vanish.
Crash(i) ==
    /\ up[i]
    /\ up' = [up EXCEPT ![i] = FALSE]
    /\ orders' = [k \in Ids |->
                    IF orders[k].instance # i THEN orders[k]
                    ELSE [orders[k] EXCEPT !.stage =
                            CASE @ = "open" -> "rolledBack"
                              [] @ \in {"committed", "queued", "running", "waiting"} -> "gone"
                              [] OTHER -> @]]
    /\ queue' = [queue EXCEPT ![i] = <<>>]
    /\ buffer' = [buffer EXCEPT ![i] = [p \in Partition |-> <<>>]]
    /\ UNCHANGED <<commits, log, consumerVars>>

\* A new process starts with an empty executor and producer.
Restart(i) ==
    /\ ~up[i]
    /\ up' = [up EXCEPT ![i] = TRUE]
    /\ UNCHANGED <<producerVars, log, consumerVars>>

Produce(k) == SubmitAfterCommit(k) \/ Send(k) \/ SendAcknowledged(k) \/ SendTimesOut(k)
Transmit(i, p) == BrokerAppends(i, p) \/ RecordExpires(i, p)
Process(p) == Consume(p) \/ HandlerFails(p)

Next ==
    \/ \E i \in Instance : \/ \E u \in User : PublishEvent(i, u)
                           \/ RunTask(i) \/ Crash(i) \/ Restart(i)
                           \/ \E p \in Partition : Transmit(i, p)
    \/ \E k \in Ids : CommitOrder(k) \/ CommitAckLost(k) \/ RollbackOrder(k) \/ Produce(k)
    \/ \E p \in Partition : Process(p) \/ CommitOffset(p) \/ Rebalance(p)

Spec == Init /\ [][Next]_vars

\* Threads of a running instance keep running, a send ends by acknowledgement
\* or timeout, and some consumer of the group keeps polling every partition.
FairSpec ==
    /\ Spec
    /\ \A k \in 1..MaxOrders : WF_vars(k \in Ids /\ Produce(k))
    /\ \A i \in Instance : WF_vars(RunTask(i))
    /\ \A p \in Partition : WF_vars(Process(p)) /\ WF_vars(CommitOffset(p))

-----------------------------------------------------------------------------
(* Correctness *)

\* The group's offset never passes a record that was neither handled nor
\* tried MaxAttempts times, so a crash repeats records but drops none
\* (consume acknowledges after handle).
NothingPassedOver ==
    \A p \in Partition : \A n \in 1..position[p] : log[p][n] \in handled \cup skipped

\* Where a record may be in every stage of its order.  Only orders that
\* reached their commit are announced;
CommittedOnce ==
    /\ IsInjective(commits)
    /\ Range(commits) = {k \in Ids : orders[k].stage \notin {"open", "rolledBack"}}

\* a task waits in the queue of its own instance, once;
QueuedOnce ==
    \A i \in Instance :
        /\ IsInjective(queue[i])
        /\ \A k \in Range(queue[i]) : orders[k].instance = i /\ orders[k].stage = "queued"

\* a record is with the producer of its instance, once, and not in the log,
BufferedOnce ==
    \A i \in Instance, p \in Partition :
        /\ IsInjective(buffer[i][p])
        /\ \A k \in Range(buffer[i][p]) :
              /\ orders[k].instance = i /\ PartitionFor(k) = p
              /\ orders[k].stage \in {"waiting", "failed"} /\ k \notin InLog

\* or in the log of its partition, once.
LoggedOnce ==
    \A p \in Partition :
        /\ IsInjective(log[p])
        /\ \A k \in Range(log[p]) :
              PartitionFor(k) = p /\ orders[k].stage \in {"waiting", "sent", "failed", "gone"}

OnePlaceEach == CommittedOnce /\ QueuedOnce /\ BufferedOnce /\ LoggedOnce

\* A task that ends without a warning did deliver: the record is in the topic
\* (KafkaDataPlatformClient.send waits for the broker's acknowledgement).
SentMeansLogged == \A k \in Ids : orders[k].stage = "sent" => k \in InLog

\* The inductive invariant behind what the data platform is promised: offsets
\* in order, every record in one place, nothing passed over and no false
\* "sent", with tasks, broker, consumers and crashes at any point.
EventsInv == TypeOK /\ OnePlaceEach /\ SentMeansLogged /\ NothingPassedOver

\* What the topic holds of order k, and what the application logged about it.
Records(k) == UNION {{p} \X {n \in DOMAIN log[p] : log[p][n] = k} : p \in Partition}
Announced == [k \in 1..MaxOrders |-> Cardinality(Records(k))]

ReportOf(stage) ==
    CASE stage = "sent" -> "delivered"
      [] stage \in {"failed", "gone"} -> "unknown"
      [] OTHER -> "none"
Report == [k \in 1..MaxOrders |-> IF k \in Ids THEN ReportOf(orders[k].stage) ELSE "none"]

\* All of listener, producer, broker and consumer group keep the promise of
\* Topic: announced after commit and at most once, a timeout never repeats or
\* withdraws an announcement, "sent" is true, only announced orders are
\* processed (sendAfterCommit logs a failure and does not send again).
T == INSTANCE Topic WITH
       Order <- 1..MaxOrders,
       placed <- Range(commits),
       announced <- Announced,
       report <- Report,
       processed <- handled \cup skipped
TopicRefinement == T!TopicSpec

\* A record in the topic is handled or given up in the end, across rebalances.
EventuallyProcessed ==
    \A k \in 1..MaxOrders : (k \in Ids /\ k \in InLog) ~> (k \in handled \cup skipped)

\* A committed order's task does not hang: it ends as sent, failed or gone.
TaskEnds ==
    \A k \in 1..MaxOrders : (k \in Ids /\ orders[k].stage = "committed")
                              ~> (k \in Ids /\ orders[k].stage \in {"sent", "failed", "gone"})

\* README.md: the key userId preserves the order of a user's events.  The
\* records of a user would be in its partition in the order of the commits.
UserOrderPreserved ==
    \A k, l \in Ids :
        /\ k \in InLog /\ l \in InLog /\ orders[k].user = orders[l].user
        /\ \E a, b \in DOMAIN commits : a < b /\ commits[a] = k /\ commits[b] = l
        => \E a, b \in DOMAIN log[PartitionFor(k)] :
             a < b /\ log[PartitionFor(k)][a] = k /\ log[PartitionFor(k)][b] = l
=============================================================================
