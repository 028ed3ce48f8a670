-------------------------- MODULE OrderEventsProofs -------------------------
(***************************************************************************)
(* The way of an order's event to the data platform, for every number of   *)
(* instances, users, partitions, workers and orders: the inductive         *)
(* invariant EventsInv, and that the whole pipeline implements Topic.      *)
(***************************************************************************)
EXTENDS OrderEvents, FiniteSetTheorems, TLAPS

USE OrderEventsAssumption

InLogStage == {"waiting", "sent", "failed", "gone"}

\* Orders are kept; no order changes its user or its instance.
OrdersStay ==
    /\ orders' \in Seq(Order) /\ Len(orders') <= MaxOrders /\ Ids \subseteq Ids'
    /\ \A k \in Ids : orders'[k].user = orders[k].user /\ orders'[k].instance = orders[k].instance

-----------------------------------------------------------------------------
(* Sequences without repetition *)

LEMMA SeqFacts ==
    ASSUME NEW S, NEW s \in Seq(S)
    PROVE  Range(s) \subseteq S
  BY DEF Range

\* A record or task joins a sequence at its end.
LEMMA AppendFacts ==
    ASSUME NEW S, NEW s \in Seq(S), NEW e \in S
    PROVE  /\ Append(s, e) \in Seq(S)
           /\ Range(Append(s, e)) = Range(s) \cup {e}
           /\ IsInjective(s) /\ e \notin Range(s) => IsInjective(Append(s, e))
  <1> DEFINE t == Append(s, e)
  <1>1. /\ t \in Seq(S) /\ Len(s) \in Nat
        /\ DOMAIN s = 1..Len(s) /\ DOMAIN t = 1..(Len(s) + 1)
        /\ t[Len(s) + 1] = e /\ \A n \in DOMAIN s : t[n] = s[n]
    OBVIOUS
  <1> HIDE DEF t
  <1>2. DOMAIN t = DOMAIN s \cup {Len(s) + 1}
    BY <1>1
  <1>3. Range(t) = Range(s) \cup {e}
    BY <1>1, <1>2 DEF Range
  <1>4. IsInjective(s) /\ e \notin Range(s) => IsInjective(t)
    BY <1>1, <1>2 DEF Range, IsInjective
  <1>. QED  BY <1>1, <1>3, <1>4 DEF t

\* The oldest one leaves it.
LEMMA TailFacts ==
    ASSUME NEW S, NEW s \in Seq(S), s # <<>>
    PROVE  /\ Tail(s) \in Seq(S) /\ Head(s) \in S
           /\ Range(s) = Range(Tail(s)) \cup {Head(s)}
           /\ IsInjective(s) => IsInjective(Tail(s)) /\ Head(s) \notin Range(Tail(s))
  <1> DEFINE t == Tail(s)
             h == Head(s)
  <1>1. /\ t \in Seq(S) /\ h \in S /\ h = s[1] /\ Len(s) \in Nat /\ Len(s) > 0
        /\ DOMAIN s = 1..Len(s) /\ DOMAIN t = 1..(Len(s) - 1)
        /\ \A n \in DOMAIN t : t[n] = s[n + 1]
    OBVIOUS
  <1> HIDE DEF t, h
  <1>2. /\ 1 \in DOMAIN s
        /\ \A n \in DOMAIN t : n \in Int /\ n + 1 \in DOMAIN s /\ n + 1 # 1
        /\ \A n \in DOMAIN s : n # 1 => n - 1 \in DOMAIN t /\ t[n - 1] = s[n]
    BY <1>1
  <1>3. Range(s) = Range(t) \cup {h}
    <2>1. ASSUME NEW x \in Range(s) PROVE x \in Range(t) \cup {h}
      <3>1. PICK n \in DOMAIN s : s[n] = x
        BY DEF Range
      <3>. QED  BY <1>1, <1>2, <3>1 DEF Range
    <2>2. ASSUME NEW x \in Range(t) PROVE x \in Range(s)
      <3>1. PICK n \in DOMAIN t : t[n] = x
        BY DEF Range
      <3>2. n + 1 \in DOMAIN s /\ s[n + 1] = x
        BY <1>1, <1>2, <3>1
      <3>. QED  BY <3>2 DEF Range
    <2>3. h \in Range(s)
      BY <1>1, <1>2 DEF Range
    <2>. QED  BY <2>1, <2>2, <2>3
  <1>4. ASSUME IsInjective(s) PROVE IsInjective(t) /\ h \notin Range(t)
    <2>1. ASSUME NEW a \in DOMAIN t, NEW b \in DOMAIN t, t[a] = t[b] PROVE a = b
      <3>1. a + 1 \in DOMAIN s /\ b + 1 \in DOMAIN s /\ s[a + 1] = s[b + 1] /\ a \in Int /\ b \in Int
        BY <1>1, <1>2, <2>1
      <3>2. a + 1 = b + 1
        BY <1>4, <3>1 DEF IsInjective
      <3>. QED  BY <3>1, <3>2
    <2>2. ASSUME NEW a \in DOMAIN t PROVE t[a] # h
      <3>1. a + 1 \in DOMAIN s /\ 1 \in DOMAIN s /\ a + 1 # 1 /\ t[a] = s[a + 1] /\ h = s[1]
        BY <1>1, <1>2
      <3>. QED  BY <1>4, <3>1 DEF IsInjective
    <2>. QED  BY <2>1, <2>2 DEF IsInjective, Range
  <1>. QED  BY <1>1, <1>3, <1>4 DEF t, h

\* One order gets a new stage.
LEMMA SetStageFacts ==
    ASSUME TypeOK, NEW k \in Ids, NEW st \in Stage, SetStage(k, st)
    PROVE  /\ OrdersStay /\ Ids' = Ids
           /\ \A j \in Ids : orders'[j].stage = IF j = k THEN st ELSE orders[j].stage
  <1> DEFINE r == [orders[k] EXCEPT !.stage = st]
  <1>0. orders \in Seq(Order) /\ Len(orders) <= MaxOrders
    BY DEF TypeOK
  <1>1. orders[k] \in Order
    BY <1>0 DEF Ids
  <1>2. r \in Order /\ r.user = orders[k].user /\ r.instance = orders[k].instance /\ r.stage = st
    BY <1>1 DEF Order
  <1>3. orders' = [orders EXCEPT ![k] = r]
    BY DEF SetStage
  <1> HIDE DEF r
  <1>4. orders' \in Seq(Order) /\ Len(orders') = Len(orders) /\ DOMAIN orders' = DOMAIN orders
    BY <1>0, <1>2, <1>3 DEF Ids
  <1>5. orders'[k] = r /\ \A j \in DOMAIN orders : j # k => orders'[j] = orders[j]
    BY <1>0, <1>3 DEF Ids
  <1>. QED  BY <1>0, <1>2, <1>4, <1>5 DEF OrdersStay, Ids

-----------------------------------------------------------------------------
(* What a step leaves alone *)

\* The partition of an order does not change, so neither does what is in the
\* log while no record is appended.
LEMMA LogStays ==
    ASSUME OrdersStay, TypeOK, NEW k \in Ids
    PROVE  /\ PartitionFor(k)' = PartitionFor(k) /\ PartitionFor(k) \in Partition
           /\ orders[k].instance \in Instance /\ k \in Ids'
           /\ UNCHANGED log => (k \in InLog' <=> k \in InLog)
  <1>0. orders \in Seq(Order)
    BY DEF TypeOK
  <1>1. orders[k] \in Order /\ orders'[k].user = orders[k].user /\ k \in Ids'
    BY <1>0 DEF OrdersStay, Ids
  <1>2. PartitionFor(k)' = PartitionFor(k) /\ PartitionFor(k) \in Partition /\ orders[k].instance \in Instance
    BY <1>1 DEF PartitionFor, Order
  <1>3. ASSUME UNCHANGED log PROVE k \in InLog' <=> k \in InLog
    BY <1>1, <1>2, <1>3 DEF InLog
  <1>. QED  BY <1>1, <1>2, <1>3

\* What the sequences hold are orders.
LEMMA SeqTypes ==
    ASSUME TypeOK
    PROVE  /\ commits \in Seq(Ids) /\ Range(commits) \subseteq Ids
           /\ \A i \in Instance : queue[i] \in Seq(Ids) /\ Range(queue[i]) \subseteq Ids
           /\ \A i \in Instance, p \in Partition :
                 buffer[i][p] \in Seq(Ids) /\ Range(buffer[i][p]) \subseteq Ids
           /\ \A p \in Partition : log[p] \in Seq(Ids) /\ Range(log[p]) \subseteq Ids
  BY SeqFacts DEF TypeOK

LEMMA CommittedStays ==
    ASSUME OrdersStay, TypeOK, CommittedOnce, UNCHANGED commits,
           \A k \in Ids : orders'[k].stage \in {"open", "rolledBack"} <=> orders[k].stage \in {"open", "rolledBack"},
           \A k \in Ids' \ Ids : orders'[k].stage = "open"
    PROVE  CommittedOnce'
  BY DEF CommittedOnce, OrdersStay

LEMMA QueuedStays ==
    ASSUME OrdersStay, TypeOK, QueuedOnce, UNCHANGED queue,
           \A k \in Ids : orders[k].stage = "queued" => orders'[k].stage = "queued"
    PROVE  QueuedOnce'
  BY SeqTypes DEF QueuedOnce, OrdersStay

LEMMA BufferedStays ==
    ASSUME OrdersStay, TypeOK, BufferedOnce, UNCHANGED <<buffer, log>>,
           \A k \in Ids : orders[k].stage \in {"waiting", "failed"} /\ k \notin InLog
                            => orders'[k].stage \in {"waiting", "failed"}
    PROVE  BufferedOnce'
  <1>1. ASSUME NEW i \in Instance, NEW p \in Partition, NEW k \in Range(buffer[i][p])
        PROVE  /\ orders'[k].instance = i /\ PartitionFor(k)' = p
               /\ orders'[k].stage \in {"waiting", "failed"} /\ k \notin InLog'
    BY LogStays, SeqTypes DEF BufferedOnce, OrdersStay
  <1>. QED  BY <1>1 DEF BufferedOnce

LEMMA LoggedStays ==
    ASSUME OrdersStay, TypeOK, LoggedOnce, UNCHANGED log,
           \A k \in Ids : orders[k].stage \in InLogStage => orders'[k].stage \in InLogStage
    PROVE  LoggedOnce'
  BY LogStays, SeqTypes DEF LoggedOnce, InLogStage

LEMMA SentStays ==
    ASSUME OrdersStay, TypeOK, SentMeansLogged, UNCHANGED log,
           \A k \in Ids : orders'[k].stage = "sent" => orders[k].stage = "sent" \/ k \in InLog,
           \A k \in Ids' \ Ids : orders'[k].stage # "sent"
    PROVE  SentMeansLogged'
  BY LogStays DEF SentMeansLogged

\* A growing set of orders keeps the types of the other variables.
LEMMA TypesStay ==
    ASSUME TypeOK, OrdersStay
    PROVE  /\ \A s : s \in Seq(Ids) => s \in Seq(Ids')
           /\ UNCHANGED commits => commits' \in Seq(Ids')
           /\ UNCHANGED queue => queue' \in [Instance -> Seq(Ids')]
           /\ UNCHANGED buffer => buffer' \in [Instance -> [Partition -> Seq(Ids')]]
           /\ UNCHANGED log => log' \in [Partition -> Seq(Ids')]
           /\ UNCHANGED handled => handled' \subseteq Ids'
           /\ UNCHANGED skipped => skipped' \subseteq Ids'
  <1>0. Ids \subseteq Ids' /\ Seq(Ids) \subseteq Seq(Ids')
    <2>1. Ids \subseteq Ids'
      BY DEF OrdersStay
    <2>. QED  BY <2>1
  <1>. QED  BY <1>0 DEF TypeOK

\* A step of the producer side: the consumer group notices nothing of it.
LEMMA ProducerStep ==
    ASSUME EventsInv, OrdersStay, UNCHANGED <<log, consumerVars>>,
           commits' \in Seq(Ids'), queue' \in [Instance -> Seq(Ids')],
           buffer' \in [Instance -> [Partition -> Seq(Ids')]], up' \in [Instance -> BOOLEAN]
    PROVE  TypeOK' /\ NothingPassedOver'
  <1>1. TypeOK /\ NothingPassedOver
    BY DEF EventsInv
  <1>2. TypeOK'
    <2>1. log' \in [Partition -> Seq(Ids')] /\ handled' \subseteq Ids' /\ skipped' \subseteq Ids'
      BY <1>1, TypesStay DEF consumerVars
    <2>. QED  BY <1>1, <2>1 DEF TypeOK, OrdersStay, consumerVars
  <1>3. NothingPassedOver'
    BY <1>1 DEF NothingPassedOver, consumerVars
  <1>. QED  BY <1>2, <1>3

-----------------------------------------------------------------------------
(* The actions of the producer side *)

LEMMA PublishInv ==
    ASSUME EventsInv, NEW i \in Instance, NEW u \in User, PublishEvent(i, u)
    PROVE  EventsInv'
  <1> DEFINE r == [user |-> u, instance |-> i, stage |-> "open"]
  <1>0. TypeOK /\ orders \in Seq(Order) /\ MaxOrders \in Nat
    BY DEF EventsInv, TypeOK
  <1>1. r \in Order /\ r.stage = "open"
    BY DEF Order, Stage
  <1>2. orders' = Append(orders, r) /\ Len(orders) < MaxOrders
        /\ UNCHANGED <<commits, queue, buffer, log, consumerVars, up>>
    BY DEF PublishEvent
  <1> HIDE DEF r
  <1>3. /\ OrdersStay
        /\ \A k \in Ids : orders'[k] = orders[k]
        /\ \A k \in Ids' \ Ids : orders'[k].stage = "open"
    BY <1>0, <1>1, <1>2 DEF OrdersStay, Ids
  <1>4. TypeOK' /\ NothingPassedOver'
    BY <1>0, <1>2, <1>3, TypesStay, ProducerStep DEF TypeOK
  <1>5. CommittedOnce' /\ QueuedOnce'
    BY <1>0, <1>2, <1>3, CommittedStays, QueuedStays DEF EventsInv, OnePlaceEach
  <1>6. BufferedOnce' /\ LoggedOnce'
    BY <1>0, <1>2, <1>3, BufferedStays, LoggedStays DEF EventsInv, OnePlaceEach
  <1>7. SentMeansLogged'
    BY <1>0, <1>2, <1>3, SentStays DEF EventsInv
  <1>. QED  BY <1>4, <1>5, <1>6, <1>7 DEF EventsInv, OnePlaceEach

\* A stage that tells nothing new about queue, producer or topic.
LEMMA StageStep ==
    ASSUME EventsInv, NEW k \in Ids, NEW st \in Stage, SetStage(k, st),
           UNCHANGED <<commits, queue, buffer, log, consumerVars, up>>,
           orders[k].stage # "queued",
           st \in {"open", "rolledBack"} <=> orders[k].stage \in {"open", "rolledBack"},
           orders[k].stage \in {"waiting", "failed"} /\ k \notin InLog => st \in {"waiting", "failed"},
           orders[k].stage \in InLogStage => st \in InLogStage,
           st = "sent" => k \in InLog
    PROVE  EventsInv'
  <1>0. TypeOK
    BY DEF EventsInv
  <1>1. /\ OrdersStay /\ Ids' = Ids
        /\ \A j \in Ids : orders'[j].stage = IF j = k THEN st ELSE orders[j].stage
    BY <1>0, SetStageFacts
  <1>2. TypeOK' /\ NothingPassedOver'
    BY <1>0, <1>1, TypesStay, ProducerStep DEF TypeOK
  <1>3. CommittedOnce' /\ QueuedOnce'
    BY <1>0, <1>1, CommittedStays, QueuedStays DEF EventsInv, OnePlaceEach
  <1>4. BufferedOnce' /\ LoggedOnce'
    BY <1>0, <1>1, BufferedStays, LoggedStays DEF EventsInv, OnePlaceEach
  <1>5. SentMeansLogged'
    BY <1>0, <1>1, SentStays DEF EventsInv
  <1>. QED  BY <1>2, <1>3, <1>4, <1>5 DEF EventsInv, OnePlaceEach

LEMMA RollbackSentTimeoutInv ==
    ASSUME EventsInv, NEW k \in Ids, RollbackOrder(k) \/ SendAcknowledged(k) \/ SendTimesOut(k)
    PROVE  EventsInv'
  <1>1. CASE RollbackOrder(k)
    BY <1>1, StageStep DEF RollbackOrder, Stage, InLogStage
  <1>2. CASE SendAcknowledged(k)
    BY <1>2, StageStep DEF SendAcknowledged, Stage, InLogStage
  <1>3. CASE SendTimesOut(k)
    BY <1>3, StageStep DEF SendTimesOut, Stage, InLogStage
  <1>. QED  BY <1>1, <1>2, <1>3

LEMMA CommitInv ==
    ASSUME EventsInv, NEW k \in Ids, CommitOrder(k) \/ CommitAckLost(k)
    PROVE  EventsInv'
  <1>0. TypeOK /\ commits \in Seq(Ids) /\ CommittedOnce
    BY DEF EventsInv, TypeOK, OnePlaceEach
  <1>a. PICK st \in {"committed", "unannounced"} : SetStage(k, st)
    BY DEF CommitOrder, CommitAckLost
  <1>1. /\ orders[k].stage = "open" /\ commits' = Append(commits, k)
        /\ UNCHANGED <<queue, buffer, log, consumerVars, up>>
    BY DEF CommitOrder, CommitAckLost
  <1>2. /\ OrdersStay /\ Ids' = Ids
        /\ \A j \in Ids : orders'[j].stage = IF j = k THEN st ELSE orders[j].stage
    BY <1>0, <1>a, SetStageFacts DEF Stage
  <1>3. k \notin Range(commits)
    BY <1>0, <1>1 DEF CommittedOnce
  <1>4. commits' \in Seq(Ids) /\ Range(commits') = Range(commits) \cup {k} /\ IsInjective(commits')
    BY <1>0, <1>1, <1>3, AppendFacts DEF CommittedOnce
  <1>5. TypeOK' /\ NothingPassedOver'
    BY <1>0, <1>1, <1>2, <1>4, TypesStay, ProducerStep DEF TypeOK
  <1>6. CommittedOnce'
    BY <1>0, <1>2, <1>4 DEF CommittedOnce
  <1>7. QueuedOnce' /\ BufferedOnce' /\ LoggedOnce'
    BY <1>0, <1>1, <1>2, QueuedStays, BufferedStays, LoggedStays
       DEF EventsInv, OnePlaceEach, InLogStage
  <1>8. SentMeansLogged'
    BY <1>0, <1>1, <1>2, SentStays DEF EventsInv
  <1>. QED  BY <1>5, <1>6, <1>7, <1>8 DEF EventsInv, OnePlaceEach

\* The task joins the queue of the order's instance.
LEMMA SubmitInv ==
    ASSUME EventsInv, NEW k \in Ids, SubmitAfterCommit(k)
    PROVE  EventsInv'
  <1> DEFINE i == orders[k].instance
             q == Append(queue[i], k)
  <1>0. TypeOK /\ queue \in [Instance -> Seq(Ids)] /\ QueuedOnce
    BY DEF EventsInv, TypeOK, OnePlaceEach
  <1>1. /\ orders[k].stage = "committed" /\ SetStage(k, "queued") /\ queue' = [queue EXCEPT ![i] = q]
        /\ UNCHANGED <<commits, buffer, log, consumerVars, up>>
    BY DEF SubmitAfterCommit
  <1>2. /\ OrdersStay /\ Ids' = Ids
        /\ \A j \in Ids : orders'[j].stage = IF j = k THEN "queued" ELSE orders[j].stage
    BY <1>0, <1>1, SetStageFacts DEF Stage
  <1>3. i \in Instance /\ orders'[k].instance = i
    BY <1>0, <1>2, LogStays DEF OrdersStay
  <1>4. \A j \in Instance : k \notin Range(queue[j])
    BY <1>0, <1>1 DEF QueuedOnce
  <1>5. q \in Seq(Ids) /\ Range(q) = Range(queue[i]) \cup {k} /\ IsInjective(q)
    BY <1>0, <1>3, <1>4, AppendFacts DEF QueuedOnce
  <1> HIDE DEF i, q
  <1>6. /\ queue' \in [Instance -> Seq(Ids)] /\ queue'[i] = q
        /\ \A j \in Instance : j # i => queue'[j] = queue[j]
    BY <1>0, <1>1, <1>3, <1>5
  <1>7. TypeOK' /\ NothingPassedOver'
    BY <1>0, <1>1, <1>2, <1>6, TypesStay, ProducerStep DEF TypeOK
  <1>8. QueuedOnce'
    <2>1. ASSUME NEW j \in Instance, NEW l \in Range(queue[j])
          PROVE  orders'[l].instance = j /\ orders'[l].stage = "queued"
      BY <1>0, <1>2, SeqTypes DEF QueuedOnce, OrdersStay
    <2>2. orders'[k].instance = i /\ orders'[k].stage = "queued"
      BY <1>2, <1>3
    <2>3. ASSUME NEW j \in Instance
          PROVE  /\ IsInjective(queue'[j])
                 /\ \A l \in Range(queue'[j]) : orders'[l].instance = j /\ orders'[l].stage = "queued"
      <3>1. CASE j = i
        BY <1>3, <1>5, <1>6, <2>1, <2>2, <3>1
      <3>2. CASE j # i
        BY <1>0, <1>6, <2>1, <3>2 DEF QueuedOnce
      <3>. QED  BY <3>1, <3>2
    <2>. QED  BY <2>3 DEF QueuedOnce
  <1>9. CommittedOnce' /\ BufferedOnce' /\ LoggedOnce'
    BY <1>0, <1>1, <1>2, CommittedStays, BufferedStays, LoggedStays
       DEF EventsInv, OnePlaceEach, InLogStage
  <1>10. SentMeansLogged'
    BY <1>0, <1>1, <1>2, SentStays DEF EventsInv
  <1>. QED  BY <1>7, <1>8, <1>9, <1>10 DEF EventsInv, OnePlaceEach

\* A worker takes the oldest task of its instance.
LEMMA RunTaskInv ==
    ASSUME EventsInv, NEW i \in Instance, RunTask(i)
    PROVE  EventsInv'
  <1> DEFINE k == Head(queue[i])
             q == Tail(queue[i])
  <1>0. TypeOK /\ queue \in [Instance -> Seq(Ids)] /\ QueuedOnce
    BY DEF EventsInv, TypeOK, OnePlaceEach
  <1>1. /\ queue[i] # <<>> /\ SetStage(k, "running") /\ queue' = [queue EXCEPT ![i] = q]
        /\ UNCHANGED <<commits, buffer, log, consumerVars, up>>
    BY DEF RunTask
  <1>2. /\ q \in Seq(Ids) /\ k \in Ids /\ Range(queue[i]) = Range(q) \cup {k}
        /\ IsInjective(q) /\ k \notin Range(q)
    BY <1>0, <1>1, TailFacts DEF QueuedOnce
  <1>3. orders[k].stage = "queued" /\ orders[k].instance = i
    BY <1>0, <1>2 DEF QueuedOnce
  <1> HIDE DEF k, q
  <1>4. /\ OrdersStay /\ Ids' = Ids
        /\ \A j \in Ids : orders'[j].stage = IF j = k THEN "running" ELSE orders[j].stage
    BY <1>0, <1>1, <1>2, SetStageFacts DEF Stage
  <1>5. /\ queue' \in [Instance -> Seq(Ids)] /\ queue'[i] = q
        /\ \A j \in Instance : j # i => queue'[j] = queue[j]
    BY <1>0, <1>1, <1>2
  <1>6. TypeOK' /\ NothingPassedOver'
    BY <1>0, <1>1, <1>4, <1>5, TypesStay, ProducerStep DEF TypeOK
  <1>7. QueuedOnce'
    <2>1. ASSUME NEW j \in Instance, NEW l \in Range(queue[j]), l # k
          PROVE  orders'[l].instance = j /\ orders'[l].stage = "queued"
      BY <1>0, <1>4, <2>1, SeqTypes DEF QueuedOnce, OrdersStay
    <2>2. \A j \in Instance : j # i => k \notin Range(queue[j])
      BY <1>0, <1>3 DEF QueuedOnce
    <2>3. ASSUME NEW j \in Instance
          PROVE  /\ IsInjective(queue'[j])
                 /\ \A l \in Range(queue'[j]) : orders'[l].instance = j /\ orders'[l].stage = "queued"
      <3>1. CASE j = i
        BY <1>2, <1>5, <2>1, <3>1
      <3>2. CASE j # i
        BY <1>0, <1>5, <2>1, <2>2, <3>2 DEF QueuedOnce
      <3>. QED  BY <3>1, <3>2
    <2>. QED  BY <2>3 DEF QueuedOnce
  <1>8. CommittedOnce' /\ BufferedOnce' /\ LoggedOnce'
    BY <1>0, <1>1, <1>3, <1>4, CommittedStays, BufferedStays, LoggedStays
       DEF EventsInv, OnePlaceEach, InLogStage
  <1>9. SentMeansLogged'
    BY <1>0, <1>1, <1>3, <1>4, SentStays DEF EventsInv
  <1>. QED  BY <1>6, <1>7, <1>8, <1>9 DEF EventsInv, OnePlaceEach

\* The record joins the producer's batch for its partition.
LEMMA SendInv ==
    ASSUME EventsInv, NEW k \in Ids, Send(k)
    PROVE  EventsInv'
  <1> DEFINE i == orders[k].instance
             p == PartitionFor(k)
             b == buffer[i][p]
             c == Append(b, k)
  <1>0. TypeOK /\ buffer \in [Instance -> [Partition -> Seq(Ids)]] /\ BufferedOnce /\ LoggedOnce
    BY DEF EventsInv, TypeOK, OnePlaceEach
  <1>1. /\ orders[k].stage = "running" /\ SetStage(k, "waiting") /\ buffer' = [buffer EXCEPT ![i][p] = c]
        /\ UNCHANGED <<commits, queue, log, consumerVars, up>>
    <2>1. buffer' = [buffer EXCEPT ![i][p] = Append(@, k)]
      BY DEF Send
    <2>. QED  BY <2>1 DEF Send
  <1>2. /\ OrdersStay /\ Ids' = Ids
        /\ \A j \in Ids : orders'[j].stage = IF j = k THEN "waiting" ELSE orders[j].stage
    BY <1>0, <1>1, SetStageFacts DEF Stage
  <1>3. i \in Instance /\ p \in Partition /\ orders'[k].instance = i /\ PartitionFor(k)' = p
    BY <1>0, <1>2, LogStays DEF OrdersStay
  <1>4. k \notin InLog /\ \A j \in Instance, r \in Partition : k \notin Range(buffer[j][r])
    BY <1>0, <1>1, <1>3 DEF InLog, LoggedOnce, BufferedOnce
  <1>5. b \in Seq(Ids) /\ IsInjective(b)
    BY <1>0, <1>3 DEF BufferedOnce
  <1>6. c \in Seq(Ids) /\ Range(c) = Range(b) \cup {k} /\ IsInjective(c)
    <2>1. k \notin Range(b)
      BY <1>3, <1>4
    <2> HIDE DEF b
    <2>. QED  BY <1>5, <2>1, AppendFacts
  <1> HIDE DEF c
  <1>7. /\ buffer' \in [Instance -> [Partition -> Seq(Ids)]] /\ buffer'[i][p] = c
        /\ \A j \in Instance, r \in Partition : j # i \/ r # p => buffer'[j][r] = buffer[j][r]
    <2> HIDE DEF i, p
    <2>. QED  BY <1>0, <1>1, <1>3, <1>6
  <1>8. TypeOK' /\ NothingPassedOver'
    BY <1>0, <1>1, <1>2, <1>7, TypesStay, ProducerStep DEF TypeOK
  <1>9. BufferedOnce'
    <2>1. ASSUME NEW j \in Instance, NEW r \in Partition, NEW l \in Range(buffer[j][r])
          PROVE  /\ orders'[l].instance = j /\ PartitionFor(l)' = r
                 /\ orders'[l].stage \in {"waiting", "failed"} /\ l \notin InLog'
      <3>1. l \in Ids
        BY <1>0, SeqTypes
      <3>2. /\ orders[l].instance = j /\ PartitionFor(l) = r
            /\ orders[l].stage \in {"waiting", "failed"} /\ l \notin InLog
        BY <1>0 DEF BufferedOnce
      <3>. QED  BY <1>0, <1>1, <1>2, <3>1, <3>2, LogStays DEF OrdersStay
    <2>2. orders'[k].stage = "waiting" /\ k \notin InLog'
      BY <1>0, <1>1, <1>2, <1>4, LogStays
    <2> HIDE DEF i, p
    <2>3. ASSUME NEW j \in Instance, NEW r \in Partition
          PROVE  /\ IsInjective(buffer'[j][r])
                 /\ \A l \in Range(buffer'[j][r]) :
                       /\ orders'[l].instance = j /\ PartitionFor(l)' = r
                       /\ orders'[l].stage \in {"waiting", "failed"} /\ l \notin InLog'
      <3>1. CASE j = i /\ r = p
        BY <1>3, <1>6, <1>7, <2>1, <2>2, <3>1
      <3>2. CASE j # i \/ r # p
        BY <1>0, <1>7, <2>1, <3>2 DEF BufferedOnce
      <3>. QED  BY <3>1, <3>2
    <2>. QED  BY <2>3 DEF BufferedOnce
  <1>10. CommittedOnce' /\ QueuedOnce' /\ LoggedOnce'
    BY <1>0, <1>1, <1>2, CommittedStays, QueuedStays, LoggedStays
       DEF EventsInv, OnePlaceEach, InLogStage
  <1>11. SentMeansLogged'
    BY <1>0, <1>1, <1>2, SentStays DEF EventsInv
  <1>. QED  BY <1>8, <1>9, <1>10, <1>11 DEF EventsInv, OnePlaceEach

\* The oldest record of a batch leaves it: the others are where they were.
LEMMA BatchShrinks ==
    ASSUME EventsInv, NEW i \in Instance, NEW p \in Partition, buffer[i][p] # <<>>,
           buffer' = [buffer EXCEPT ![i][p] = Tail(@)]
    PROVE  /\ Head(buffer[i][p]) \in Ids /\ Head(buffer[i][p]) \in Range(buffer[i][p])
           /\ buffer' \in [Instance -> [Partition -> Seq(Ids)]]
           /\ \A j \in Instance, r \in Partition :
                 /\ IsInjective(buffer'[j][r])
                 /\ Range(buffer'[j][r]) \subseteq Range(buffer[j][r]) \ {Head(buffer[i][p])}
  <1> DEFINE b == buffer[i][p]
             k == Head(b)
             c == Tail(b)
  <1>0. TypeOK /\ buffer \in [Instance -> [Partition -> Seq(Ids)]] /\ BufferedOnce
    BY DEF EventsInv, TypeOK, OnePlaceEach
  <1>1. b \in Seq(Ids) /\ IsInjective(b)
    BY <1>0 DEF BufferedOnce
  <1>2. /\ c \in Seq(Ids) /\ k \in Ids /\ Range(b) = Range(c) \cup {k}
        /\ IsInjective(c) /\ k \notin Range(c)
    <2> HIDE DEF b
    <2>1. b # <<>>
      BY DEF b
    <2>. QED  BY <1>1, <2>1, TailFacts
  <1>3. orders[k].instance = i /\ PartitionFor(k) = p
    BY <1>0, <1>2 DEF BufferedOnce
  <1> HIDE DEF c, k
  <1>4. /\ buffer' \in [Instance -> [Partition -> Seq(Ids)]] /\ buffer'[i][p] = c
        /\ \A j \in Instance, r \in Partition : j # i \/ r # p => buffer'[j][r] = buffer[j][r]
    BY <1>0, <1>2 DEF c
  <1>5. ASSUME NEW j \in Instance, NEW r \in Partition
        PROVE  /\ IsInjective(buffer'[j][r])
               /\ Range(buffer'[j][r]) \subseteq Range(buffer[j][r]) \ {k}
    <2>1. CASE j = i /\ r = p
      BY <1>2, <1>4, <2>1
    <2>2. CASE j # i \/ r # p
      BY <1>0, <1>3, <1>4, <2>2 DEF BufferedOnce
    <2>. QED  BY <2>1, <2>2
  <1>. QED  BY <1>2, <1>4, <1>5 DEF k

\* The broker appends the record to its partition.
LEMMA BrokerInv ==
    ASSUME EventsInv, NEW i \in Instance, NEW p \in Partition, BrokerAppends(i, p)
    PROVE  EventsInv'
  <1> DEFINE k == Head(buffer[i][p])
             t == Append(log[p], k)
  <1>0. /\ TypeOK /\ log \in [Partition -> Seq(Ids)]
        /\ CommittedOnce /\ QueuedOnce /\ BufferedOnce /\ LoggedOnce
        /\ SentMeansLogged /\ NothingPassedOver
    BY DEF EventsInv, TypeOK, OnePlaceEach
  <1>1. /\ log' = [log EXCEPT ![p] = t]
        /\ UNCHANGED <<orders, commits, queue, consumerVars, up>>
    BY DEF BrokerAppends
  <1>2. /\ k \in Ids /\ k \in Range(buffer[i][p])
        /\ buffer' \in [Instance -> [Partition -> Seq(Ids)]]
        /\ \A j \in Instance, r \in Partition :
              IsInjective(buffer'[j][r]) /\ Range(buffer'[j][r]) \subseteq Range(buffer[j][r]) \ {k}
    BY BatchShrinks DEF BrokerAppends
  <1> HIDE DEF k
  <1>3. PartitionFor(k) = p /\ orders[k].stage \in {"waiting", "failed"} /\ k \notin InLog
    BY <1>0, <1>2 DEF BufferedOnce
  <1>4. log[p] \in Seq(Ids) /\ k \notin Range(log[p])
    BY <1>0, <1>2, <1>3 DEF InLog
  <1>5. t \in Seq(Ids) /\ Range(t) = Range(log[p]) \cup {k} /\ IsInjective(t)
    BY <1>0, <1>2, <1>4, AppendFacts DEF LoggedOnce
  <1>6. Len(t) = Len(log[p]) + 1 /\ Len(log[p]) \in Nat /\ \A n \in 1..Len(log[p]) : t[n] = log[p][n]
    BY <1>2, <1>4
  <1> HIDE DEF t
  <1>7. /\ log' \in [Partition -> Seq(Ids)] /\ log'[p] = t
        /\ \A r \in Partition : r # p => log'[r] = log[r]
    BY <1>0, <1>1, <1>5
  <1>8. Ids' = Ids /\ \A j : PartitionFor(j)' = PartitionFor(j)
    BY <1>1 DEF Ids, PartitionFor
  <1>9. InLog' = InLog \cup {k}
    <2>1. ASSUME NEW j \in Ids PROVE j \in InLog' <=> j \in InLog \/ j = k
      <3>0. PartitionFor(j) \in Partition
        <4>1. orders[j] \in Order
          BY <1>0 DEF TypeOK, Ids
        <4>. QED  BY <4>1 DEF Order, PartitionFor
      <3>1. CASE PartitionFor(j) = p
        BY <1>5, <1>7, <1>8, <3>1 DEF InLog
      <3>2. CASE PartitionFor(j) # p
        BY <1>3, <1>7, <1>8, <3>0, <3>2 DEF InLog
      <3>. QED  BY <3>1, <3>2
    <2>. QED  BY <1>2, <1>8, <2>1 DEF InLog
  <1>10. TypeOK'
    <2>1. \A r \in Partition : position[r] <= Len(log'[r])
      <3>1. ASSUME NEW r \in Partition PROVE position[r] <= Len(log'[r])
        <4>1. position[r] \in Nat /\ position[r] <= Len(log[r])
          BY <1>0 DEF TypeOK
        <4>2. CASE r = p
          BY <1>6, <1>7, <4>1, <4>2
        <4>3. CASE r # p
          BY <1>7, <4>1, <4>3
        <4>. QED  BY <4>2, <4>3
      <3>. QED  BY <3>1
    <2>. QED  BY <1>0, <1>1, <1>2, <1>7, <1>8, <2>1 DEF TypeOK, consumerVars
  <1>11. CommittedOnce' /\ QueuedOnce'
    BY <1>0, <1>1, <1>8 DEF CommittedOnce, QueuedOnce
  <1>12. BufferedOnce'
    BY <1>0, <1>1, <1>2, <1>8, <1>9 DEF BufferedOnce
  <1>13. LoggedOnce'
    <2>1. ASSUME NEW r \in Partition
          PROVE  /\ IsInjective(log'[r])
                 /\ \A l \in Range(log'[r]) :
                       PartitionFor(l) = r /\ orders[l].stage \in InLogStage
      <3>1. CASE r = p
        BY <1>0, <1>3, <1>5, <1>7, <3>1 DEF LoggedOnce, InLogStage
      <3>2. CASE r # p
        BY <1>0, <1>7, <3>2 DEF LoggedOnce, InLogStage
      <3>. QED  BY <3>1, <3>2
    <2>. QED  BY <1>1, <1>8, <2>1 DEF LoggedOnce, InLogStage
  <1>14. SentMeansLogged'
    BY <1>0, <1>1, <1>8, <1>9 DEF SentMeansLogged
  <1>15. NothingPassedOver'
    <2>1. ASSUME NEW r \in Partition, NEW n \in 1..position[r] PROVE log'[r][n] = log[r][n]
      <3>1. position[r] \in Nat /\ position[r] <= Len(log[r])
        BY <1>0 DEF TypeOK
      <3>2. CASE r = p
        BY <1>6, <1>7, <3>1, <3>2
      <3>3. CASE r # p
        BY <1>7, <3>3
      <3>. QED  BY <3>2, <3>3
    <2>. QED  BY <1>0, <1>1, <2>1 DEF NothingPassedOver, consumerVars
  <1>. QED  BY <1>10, <1>11, <1>12, <1>13, <1>14, <1>15 DEF EventsInv, OnePlaceEach

\* The producer gives a record up; a task that waits for it fails.
LEMMA ExpireInv ==
    ASSUME EventsInv, NEW i \in Instance, NEW p \in Partition, RecordExpires(i, p)
    PROVE  EventsInv'
  <1> DEFINE k == Head(buffer[i][p])
  <1>0. /\ TypeOK /\ CommittedOnce /\ QueuedOnce /\ BufferedOnce /\ LoggedOnce
        /\ SentMeansLogged /\ NothingPassedOver
    BY DEF EventsInv, OnePlaceEach
  <1>1. /\ k \in Ids /\ k \in Range(buffer[i][p])
        /\ buffer' \in [Instance -> [Partition -> Seq(Ids)]]
        /\ \A j \in Instance, r \in Partition :
              IsInjective(buffer'[j][r]) /\ Range(buffer'[j][r]) \subseteq Range(buffer[j][r]) \ {k}
    BY BatchShrinks DEF RecordExpires
  <1>2. /\ UNCHANGED <<commits, queue, log, consumerVars, up>>
        /\ IF orders[k].stage = "waiting" THEN SetStage(k, "failed") ELSE UNCHANGED orders
    BY DEF RecordExpires
  <1> HIDE DEF k
  <1>3. orders[k].stage \in {"waiting", "failed"}
    BY <1>0, <1>1 DEF BufferedOnce
  <1>4. /\ OrdersStay /\ Ids' = Ids
        /\ \A j \in Ids : orders'[j].stage = IF j = k THEN "failed" ELSE orders[j].stage
    <2>1. CASE orders[k].stage = "waiting"
      BY <1>0, <1>1, <1>2, <2>1, SetStageFacts DEF Stage
    <2>2. CASE orders[k].stage # "waiting"
      BY <1>0, <1>2, <1>3, <2>2 DEF OrdersStay, TypeOK, Ids
    <2>. QED  BY <2>1, <2>2
  <1>5. TypeOK' /\ NothingPassedOver'
    BY <1>0, <1>1, <1>2, <1>4, TypesStay, ProducerStep DEF TypeOK
  <1>6. BufferedOnce'
    <2>1. ASSUME NEW j \in Instance, NEW r \in Partition, NEW l \in Range(buffer[j][r])
          PROVE  /\ orders'[l].instance = j /\ PartitionFor(l)' = r
                 /\ orders'[l].stage \in {"waiting", "failed"} /\ l \notin InLog'
      <3>1. l \in Ids
        BY <1>0, SeqTypes
      <3>2. /\ orders[l].instance = j /\ PartitionFor(l) = r
            /\ orders[l].stage \in {"waiting", "failed"} /\ l \notin InLog
        BY <1>0 DEF BufferedOnce
      <3>. QED  BY <1>0, <1>2, <1>4, <3>1, <3>2, LogStays DEF OrdersStay
    <2>. QED  BY <1>1, <2>1 DEF BufferedOnce
  <1>7. CommittedOnce' /\ QueuedOnce' /\ LoggedOnce'
    BY <1>0, <1>2, <1>3, <1>4, CommittedStays, QueuedStays, LoggedStays DEF InLogStage
  <1>8. SentMeansLogged'
    BY <1>0, <1>2, <1>4, SentStays
  <1>. QED  BY <1>5, <1>6, <1>7, <1>8 DEF EventsInv, OnePlaceEach

-----------------------------------------------------------------------------
(* The consumer side, crashes and restarts *)

\* Nothing the consumer group does moves a record.
LEMMA ConsumerStep ==
    ASSUME EventsInv, UNCHANGED <<producerVars, log, up>>, TypeOK', NothingPassedOver'
    PROVE  EventsInv'
  <1>1. Ids' = Ids /\ InLog' = InLog /\ \A k : PartitionFor(k)' = PartitionFor(k)
    BY DEF producerVars, Ids, InLog, PartitionFor
  <1>. QED  BY <1>1 DEF EventsInv, OnePlaceEach, CommittedOnce, QueuedOnce, BufferedOnce, LoggedOnce,
                        SentMeansLogged, producerVars

\* The record at the consumer's position.
LEMMA RecordFacts ==
    ASSUME EventsInv, NEW p \in Partition, position[p] < Len(log[p])
    PROVE  /\ RecordAt(p) \in Ids /\ RecordAt(p) \in Range(log[p]) /\ position[p] \in Nat
           /\ position[p] + 1 \in Nat /\ position[p] + 1 <= Len(log[p])
           /\ \A n \in 1..(position[p] + 1) : n \in 1..position[p] \/ log[p][n] = RecordAt(p)
  <1>1. position[p] \in Nat /\ log[p] \in Seq(Ids)
    BY DEF EventsInv, TypeOK
  <1>2. position[p] + 1 \in DOMAIN log[p]
    BY <1>1
  <1>. QED  BY <1>1, <1>2 DEF RecordAt, Range

LEMMA ConsumeInv ==
    ASSUME EventsInv, NEW p \in Partition, Process(p)
    PROVE  EventsInv'
  <1>0. TypeOK /\ NothingPassedOver
    BY DEF EventsInv
  <1>1. position[p] < Len(log[p]) /\ UNCHANGED <<producerVars, log, committed, rebalances, up>>
    BY DEF Process, Consume, HandlerFails
  <1>2. /\ RecordAt(p) \in Ids /\ position[p] \in Nat
        /\ position[p] + 1 \in Nat /\ position[p] + 1 <= Len(log[p])
        /\ \A n \in 1..(position[p] + 1) : n \in 1..position[p] \/ log[p][n] = RecordAt(p)
    BY <1>1, RecordFacts
  <1>3. /\ position' = position /\ handled' = handled /\ skipped' = skipped /\ acked' = acked
        \/ /\ position' = [position EXCEPT ![p] = position[p] + 1]
           /\ acked' \in {acked, [acked EXCEPT ![p] = position[p] + 1]}
           /\ handled' \cup skipped' = handled \cup skipped \cup {RecordAt(p)}
           /\ handled' \subseteq handled \cup {RecordAt(p)} /\ skipped' \subseteq skipped \cup {RecordAt(p)}
    BY DEF Process, Consume, HandlerFails
  <1>4. attempts' \in [Partition -> 0..(MaxAttempts - 1)]
    <2>1. attempts[p] \in 0..(MaxAttempts - 1) /\ MaxAttempts \in Nat \ {0}
      BY <1>0 DEF TypeOK
    <2>2. \/ attempts' = [attempts EXCEPT ![p] = 0]
          \/ attempts[p] + 1 < MaxAttempts /\ attempts' = [attempts EXCEPT ![p] = attempts[p] + 1]
      BY DEF Process, Consume, HandlerFails
    <2>3. 0 \in 0..(MaxAttempts - 1)
      BY <2>1
    <2>4. attempts[p] + 1 < MaxAttempts => attempts[p] + 1 \in 0..(MaxAttempts - 1)
      BY <2>1
    <2>. QED  BY <1>0, <2>2, <2>3, <2>4 DEF TypeOK
  <1>5. CASE position' = position /\ handled' = handled /\ skipped' = skipped /\ acked' = acked
    <2>1. TypeOK'
      BY <1>0, <1>1, <1>4, <1>5 DEF TypeOK, producerVars, Ids
    <2>2. NothingPassedOver'
      BY <1>0, <1>1, <1>5 DEF NothingPassedOver
    <2>. QED  BY <1>1, <2>1, <2>2, ConsumerStep
  <1>6. CASE /\ position' = [position EXCEPT ![p] = position[p] + 1]
             /\ acked' \in {acked, [acked EXCEPT ![p] = position[p] + 1]}
             /\ handled' \cup skipped' = handled \cup skipped \cup {RecordAt(p)}
             /\ handled' \subseteq handled \cup {RecordAt(p)} /\ skipped' \subseteq skipped \cup {RecordAt(p)}
    <2>1. /\ position' \in [Partition -> Nat] /\ position'[p] = position[p] + 1
          /\ \A r \in Partition : r # p => position'[r] = position[r]
      BY <1>0, <1>2, <1>6 DEF TypeOK
    <2>2. /\ acked' \in [Partition -> Nat] /\ acked'[p] \in {acked[p], position[p] + 1}
          /\ \A r \in Partition : r # p => acked'[r] = acked[r]
      <3>1. acked \in [Partition -> Nat]
        BY <1>0 DEF TypeOK
      <3>2. CASE acked' = acked
        BY <3>1, <3>2
      <3>3. CASE acked' = [acked EXCEPT ![p] = position[p] + 1]
        BY <1>2, <3>1, <3>3
      <3>. QED  BY <1>6, <3>2, <3>3
    <2>3. ASSUME NEW r \in Partition
          PROVE  committed[r] <= acked'[r] /\ acked'[r] <= position'[r] /\ position'[r] <= Len(log[r])
      <3>1. /\ committed[r] \in Nat /\ acked[r] \in Nat /\ position[r] \in Nat
            /\ committed[r] <= acked[r] /\ acked[r] <= position[r] /\ position[r] <= Len(log[r])
        BY <1>0 DEF TypeOK
      <3>2. CASE r = p
        BY <1>2, <2>1, <2>2, <3>1, <3>2
      <3>3. CASE r # p
        BY <2>1, <2>2, <3>1, <3>3
      <3>. QED  BY <3>2, <3>3
    <2>4. TypeOK'
      <3>1. handled' \subseteq Ids /\ skipped' \subseteq Ids /\ Ids' = Ids
        BY <1>0, <1>1, <1>2, <1>6 DEF TypeOK, producerVars, Ids
      <3>. QED  BY <1>0, <1>1, <1>4, <2>1, <2>2, <2>3, <3>1 DEF TypeOK, producerVars
    <2>5. NothingPassedOver'
      <3>1. ASSUME NEW r \in Partition, NEW n \in 1..position'[r] PROVE log[r][n] \in handled' \cup skipped'
        <4>1. CASE r # p
          BY <1>0, <1>6, <2>1, <3>1, <4>1 DEF NothingPassedOver
        <4>2. CASE r = p
          BY <1>0, <1>2, <1>6, <2>1, <3>1, <4>2 DEF NothingPassedOver
        <4>. QED  BY <4>1, <4>2
      <3>. QED  BY <1>1, <3>1 DEF NothingPassedOver
    <2>. QED  BY <1>1, <2>4, <2>5, ConsumerStep
  <1>. QED  BY <1>3, <1>5, <1>6

\* Offsets: the committed one only follows acknowledgements, and a consumer
\* that takes a partition over starts there.
LEMMA OffsetInv ==
    ASSUME EventsInv, NEW p \in Partition, CommitOffset(p) \/ Rebalance(p)
    PROVE  EventsInv'
  <1>0. TypeOK /\ NothingPassedOver
    BY DEF EventsInv
  <1>1. \A r \in Partition :
           /\ committed[r] \in Nat /\ acked[r] \in Nat /\ position[r] \in Nat
           /\ committed[r] <= acked[r] /\ acked[r] <= position[r] /\ position[r] <= Len(log[r])
           /\ Len(log[r]) \in Nat
    BY <1>0 DEF TypeOK
  <1>2. CASE CommitOffset(p)
    <2>1. /\ committed' = [committed EXCEPT ![p] = acked[p]]
          /\ UNCHANGED <<producerVars, log, position, acked, attempts, handled, skipped, rebalances, up>>
      BY <1>2 DEF CommitOffset
    <2>2. /\ committed' \in [Partition -> Nat]
          /\ \A r \in Partition : committed'[r] <= acked[r]
      BY <1>0, <1>1, <2>1 DEF TypeOK
    <2>3. TypeOK'
      BY <1>0, <2>1, <2>2 DEF TypeOK, producerVars, Ids
    <2>4. NothingPassedOver'
      BY <1>0, <2>1 DEF NothingPassedOver
    <2>. QED  BY <2>1, <2>3, <2>4, ConsumerStep
  <1>3. CASE Rebalance(p)
    <2>1. /\ position' = [position EXCEPT ![p] = committed[p]] /\ acked' = [acked EXCEPT ![p] = committed[p]]
          /\ attempts' = [attempts EXCEPT ![p] = 0] /\ rebalances' = rebalances + 1
          /\ UNCHANGED <<producerVars, log, committed, handled, skipped, up>>
      BY <1>3 DEF Rebalance
    <2>2. /\ position' \in [Partition -> Nat] /\ acked' \in [Partition -> Nat]
          /\ position'[p] = committed[p] /\ acked'[p] = committed[p]
          /\ \A r \in Partition : r # p => position'[r] = position[r] /\ acked'[r] = acked[r]
      BY <1>0, <1>1, <2>1 DEF TypeOK
    <2>3. /\ \A r \in Partition : /\ committed[r] <= acked'[r] /\ acked'[r] <= position'[r]
                                 /\ position'[r] <= Len(log[r]) /\ position'[r] <= position[r]
      <3>1. ASSUME NEW r \in Partition
            PROVE  /\ committed[r] <= acked'[r] /\ acked'[r] <= position'[r]
                   /\ position'[r] <= Len(log[r]) /\ position'[r] <= position[r]
        <4>1. CASE r = p
          BY <1>1, <2>2, <4>1
        <4>2. CASE r # p
          BY <1>1, <2>2, <4>2
        <4>. QED  BY <4>1, <4>2
      <3>. QED  BY <3>1
    <2>4. TypeOK'
      <3>1. attempts' \in [Partition -> 0..(MaxAttempts - 1)]
        <4>1. 0 \in 0..(MaxAttempts - 1)
          OBVIOUS
        <4>. QED  BY <1>0, <2>1, <4>1 DEF TypeOK
      <3>. QED  BY <1>0, <2>1, <2>2, <2>3, <3>1 DEF TypeOK, producerVars, Ids
    <2>5. NothingPassedOver'
      <3>1. ASSUME NEW r \in Partition, NEW n \in 1..position'[r] PROVE n \in 1..position[r]
        BY <1>1, <2>2, <2>3
      <3>. QED  BY <1>0, <2>1, <3>1 DEF NothingPassedOver
    <2>. QED  BY <2>1, <2>4, <2>5, ConsumerStep
  <1>. QED  BY <1>2, <1>3

\* What a crash does to each order of the instance.
LEMMA CrashFacts ==
    ASSUME TypeOK, NEW i \in Instance, Crash(i)
    PROVE  /\ OrdersStay /\ Ids' = Ids
           /\ \A k \in Ids : orders[k].instance # i => orders'[k].stage = orders[k].stage
           /\ \A k \in Ids : orders[k].instance = i =>
                 orders'[k].stage =
                    CASE orders[k].stage = "open" -> "rolledBack"
                      [] orders[k].stage \in {"committed", "queued", "running", "waiting"} -> "gone"
                      [] OTHER -> orders[k].stage
  <1> DEFINE new(k) == CASE orders[k].stage = "open" -> "rolledBack"
                         [] orders[k].stage \in {"committed", "queued", "running", "waiting"} -> "gone"
                         [] OTHER -> orders[k].stage
             e(k) == IF orders[k].instance # i THEN orders[k] ELSE [orders[k] EXCEPT !.stage = new(k)]
  <1>0. orders \in Seq(Order) /\ Len(orders) <= MaxOrders
    BY DEF TypeOK
  <1>1. orders' = [k \in Ids |-> e(k)]
    BY DEF Crash
  <1>2. ASSUME NEW k \in Ids
        PROVE  /\ e(k) \in Order /\ e(k).user = orders[k].user /\ e(k).instance = orders[k].instance
               /\ e(k).stage = IF orders[k].instance # i THEN orders[k].stage ELSE new(k)
    <2>1. orders[k] \in Order
      BY <1>0 DEF Ids
    <2>2. new(k) \in Stage
      BY <2>1 DEF Order, Stage
    <2> HIDE DEF new
    <2>. QED  BY <2>1, <2>2 DEF Order
  <1> HIDE DEF e
  <1>3. orders' \in Seq(Order) /\ Len(orders') = Len(orders) /\ DOMAIN orders' = Ids
    <2>1. Ids = 1..Len(orders) /\ Len(orders) \in Nat
      BY <1>0 DEF Ids
    <2>2. orders' \in [1..Len(orders) -> Order]
      BY <1>1, <1>2, <2>1
    <2>. QED  BY <2>1, <2>2
  <1>4. \A k \in Ids : orders'[k] = e(k)
    BY <1>1
  <1>5. Ids' = Ids
    BY <1>3 DEF Ids
  <1>. QED  BY <1>0, <1>2, <1>3, <1>4, <1>5 DEF OrdersStay

\* Transactions roll back, tasks and batches vanish; the topic stays.
LEMMA CrashInv ==
    ASSUME EventsInv, NEW i \in Instance, Crash(i)
    PROVE  EventsInv'
  <1>0. /\ TypeOK /\ CommittedOnce /\ QueuedOnce /\ BufferedOnce /\ LoggedOnce
        /\ SentMeansLogged /\ NothingPassedOver
    BY DEF EventsInv, OnePlaceEach
  <1>1. /\ OrdersStay /\ Ids' = Ids
        /\ \A k \in Ids : orders[k].instance # i => orders'[k].stage = orders[k].stage
        /\ \A k \in Ids : orders[k].instance = i =>
              orders'[k].stage =
                 CASE orders[k].stage = "open" -> "rolledBack"
                   [] orders[k].stage \in {"committed", "queued", "running", "waiting"} -> "gone"
                   [] OTHER -> orders[k].stage
    BY <1>0, CrashFacts
  <1>2. /\ up' = [up EXCEPT ![i] = FALSE] /\ queue' = [queue EXCEPT ![i] = <<>>]
        /\ buffer' = [buffer EXCEPT ![i] = [p \in Partition |-> <<>>]]
        /\ UNCHANGED <<commits, log, consumerVars>>
    BY DEF Crash
  <1>3. /\ queue' \in [Instance -> Seq(Ids)] /\ queue'[i] = <<>>
        /\ \A j \in Instance : j # i => queue'[j] = queue[j]
    BY <1>0, <1>2 DEF TypeOK
  <1>4. /\ buffer' \in [Instance -> [Partition -> Seq(Ids)]]
        /\ \A p \in Partition : buffer'[i][p] = <<>>
        /\ \A j \in Instance, p \in Partition : j # i => buffer'[j][p] = buffer[j][p]
    BY <1>0, <1>2 DEF TypeOK
  <1>5. Range(<<>>) = {} /\ IsInjective(<<>>)
    BY DEF Range, IsInjective
  <1>6. TypeOK' /\ NothingPassedOver'
    <2>1. up' \in [Instance -> BOOLEAN]
      BY <1>0, <1>2 DEF TypeOK
    <2>. QED  BY <1>0, <1>1, <1>2, <1>3, <1>4, <2>1, TypesStay, ProducerStep
  <1>7. CommittedOnce'
    BY <1>0, <1>1, <1>2, CommittedStays
  <1>8. QueuedOnce'
    <2>1. \A j \in Instance : j # i => \A k \in Range(queue[j]) :
             orders'[k].instance = j /\ orders'[k].stage = "queued"
      BY <1>0, <1>1, SeqTypes DEF QueuedOnce, OrdersStay
    <2>. QED  BY <1>0, <1>3, <1>5, <2>1 DEF QueuedOnce
  <1>9. BufferedOnce'
    <2>1. ASSUME NEW j \in Instance, j # i, NEW p \in Partition, NEW k \in Range(buffer[j][p])
          PROVE  /\ orders'[k].instance = j /\ PartitionFor(k)' = p
                 /\ orders'[k].stage \in {"waiting", "failed"} /\ k \notin InLog'
      <3>1. k \in Ids
        BY <1>0, SeqTypes
      <3>2. /\ orders[k].instance = j /\ PartitionFor(k) = p
            /\ orders[k].stage \in {"waiting", "failed"} /\ k \notin InLog
        BY <1>0 DEF BufferedOnce
      <3>. QED  BY <1>0, <1>1, <1>2, <2>1, <3>1, <3>2, LogStays DEF OrdersStay
    <2>2. ASSUME NEW j \in Instance, NEW p \in Partition
          PROVE  /\ IsInjective(buffer'[j][p])
                 /\ \A k \in Range(buffer'[j][p]) :
                       /\ orders'[k].instance = j /\ PartitionFor(k)' = p
                       /\ orders'[k].stage \in {"waiting", "failed"} /\ k \notin InLog'
      <3>1. CASE j = i
        BY <1>4, <1>5, <3>1
      <3>2. CASE j # i
        BY <1>0, <1>4, <2>1, <3>2 DEF BufferedOnce
      <3>. QED  BY <3>1, <3>2
    <2>. QED  BY <2>2 DEF BufferedOnce
  <1>10. LoggedOnce'
    BY <1>0, <1>1, <1>2, LoggedStays DEF InLogStage
  <1>11. SentMeansLogged'
    BY <1>0, <1>1, <1>2, SentStays
  <1>. QED  BY <1>6, <1>7, <1>8, <1>9, <1>10, <1>11 DEF EventsInv, OnePlaceEach

\* A restart changes nothing but up.
LEMMA RestartInv ==
    ASSUME EventsInv, UNCHANGED <<producerVars, log, consumerVars>>, up' \in [Instance -> BOOLEAN]
    PROVE  EventsInv'
  <1>1. Ids' = Ids /\ InLog' = InLog /\ \A k : PartitionFor(k)' = PartitionFor(k)
    BY DEF producerVars, Ids, InLog, PartitionFor
  <1>2. TypeOK' /\ NothingPassedOver'
    BY <1>1 DEF EventsInv, TypeOK, NothingPassedOver, producerVars, consumerVars
  <1>. QED  BY <1>1, <1>2 DEF EventsInv, OnePlaceEach, CommittedOnce, QueuedOnce, BufferedOnce, LoggedOnce,
                              SentMeansLogged, producerVars

LEMMA InitEvents == Init => EventsInv
  <1> SUFFICES ASSUME Init PROVE EventsInv
    OBVIOUS
  <1> USE DEF Init
  <1>1. Ids = {} /\ InLog = {} /\ Range(<<>>) = {} /\ IsInjective(<<>>)
    BY DEF Ids, InLog, Range, IsInjective
  <1>2. TypeOK
    BY <1>1 DEF TypeOK
  <1>. QED  BY <1>1, <1>2 DEF EventsInv, OnePlaceEach, CommittedOnce, QueuedOnce, BufferedOnce, LoggedOnce,
                              SentMeansLogged, NothingPassedOver

LEMMA NextEvents ==
    ASSUME EventsInv, [Next]_vars
    PROVE  EventsInv'
  <1>1. ASSUME NEW i \in Instance,
               \/ \E u \in User : PublishEvent(i, u)
               \/ RunTask(i) \/ Crash(i) \/ Restart(i)
               \/ \E p \in Partition : Transmit(i, p)
        PROVE  EventsInv'
    <2>1. CASE Restart(i)
      <3>1. up' \in [Instance -> BOOLEAN]
        BY <2>1 DEF Restart, EventsInv, TypeOK
      <3>. QED  BY <2>1, <3>1, RestartInv DEF Restart
    <2>. QED  BY <1>1, <2>1, PublishInv, RunTaskInv, CrashInv, BrokerInv, ExpireInv DEF Transmit
  <1>2. ASSUME NEW k \in Ids, CommitOrder(k) \/ CommitAckLost(k) \/ RollbackOrder(k) \/ Produce(k)
        PROVE  EventsInv'
    BY <1>2, CommitInv, RollbackSentTimeoutInv, SubmitInv, SendInv DEF Produce
  <1>3. ASSUME NEW p \in Partition, Process(p) \/ CommitOffset(p) \/ Rebalance(p)
        PROVE  EventsInv'
    BY <1>3, ConsumeInv, OffsetInv
  <1>4. CASE UNCHANGED vars
    BY <1>4, RestartInv DEF vars, producerVars, consumerVars, EventsInv, TypeOK
  <1>. QED  BY <1>1, <1>2, <1>3, <1>4 DEF Next

\* Every task and record is where its order's stage says, once, and no record
\* is passed over unhandled, with any number of instances, partitions, crashes
\* and rebalances (OrderEventListener, KafkaDataPlatformClient, the consumer).
THEOREM EventsInvariant == Spec => []EventsInv
  BY InitEvents, NextEvents, PTL DEF Spec

-----------------------------------------------------------------------------
(* The pipeline implements Topic *)

\* The topic holds at most one record of an order.
LEMMA AnnouncedOnce ==
    EventsInv => \A k \in 1..MaxOrders : Announced[k] = IF k \in InLog THEN 1 ELSE 0
  <1> SUFFICES ASSUME EventsInv, NEW k \in 1..MaxOrders
               PROVE  Announced[k] = IF k \in InLog THEN 1 ELSE 0
    OBVIOUS
  <1>0. TypeOK /\ LoggedOnce
    BY DEF EventsInv, OnePlaceEach
  <1>1. ASSUME NEW p \in Partition, NEW n \in DOMAIN log[p], log[p][n] = k
        PROVE  k \in InLog /\ p = PartitionFor(k)
    <2>1. k \in Range(log[p])
      BY <1>1 DEF Range
    <2>. QED  BY <1>0, <2>1, SeqTypes DEF LoggedOnce, InLog
  <1>2. CASE k \notin InLog
    <2>1. Records(k) = {}
      BY <1>1, <1>2 DEF Records
    <2>. QED  BY <1>2, <2>1, FS_EmptySet DEF Announced
  <1>3. CASE k \in InLog
    <2> DEFINE p == PartitionFor(k)
    <2>1. p \in Partition
      <3>1. orders[k] \in Order
        BY <1>0, <1>3 DEF InLog, Ids, TypeOK
      <3>. QED  BY <3>1 DEF Order, PartitionFor
    <2>2. PICK n \in DOMAIN log[p] : log[p][n] = k
      BY <1>3 DEF InLog, Range
    <2>3. \A m \in DOMAIN log[p] : log[p][m] = k => m = n
      BY <1>0, <2>1, <2>2 DEF LoggedOnce, IsInjective
    <2> HIDE DEF p
    <2>4. Records(k) = {<<p, n>>}
      <3>1. \A r \in Partition : {r} \X {m \in DOMAIN log[r] : log[r][m] = k}
                                 = IF r = p THEN {<<p, n>>} ELSE {}
        BY <1>1, <2>1, <2>2, <2>3 DEF p
      <3>. QED  BY <2>1, <3>1 DEF Records
    <2>. QED  BY <1>3, <2>4, FS_Singleton DEF Announced
  <1>. QED  BY <1>2, <1>3

LEMMA AnnouncedOnceNext ==
    EventsInv' => (\A k \in 1..MaxOrders : Announced[k] = IF k \in InLog THEN 1 ELSE 0)'
  BY AnnouncedOnce, PTL

\* The orders are numbered from 1 on.
LEMMA OrdersAreNumbered ==
    ASSUME TypeOK
    PROVE  Ids \subseteq 1..MaxOrders
  BY DEF TypeOK, Ids

\* Steps that report nothing.
LEMMA ReportStays ==
    ASSUME OrdersStay,
           \A k \in Ids : ReportOf(orders'[k].stage) = ReportOf(orders[k].stage),
           \A k \in Ids' \ Ids : orders'[k].stage = "open"
    PROVE  Report' = Report
  BY DEF Report, ReportOf, OrdersStay

\* Steps that report a failure, of one order or of all of an instance.
LEMMA ReportUnknown ==
    ASSUME EventsInv, OrdersStay, Ids' = Ids, UNCHANGED <<commits, log, handled, skipped>>,
           NEW K \in SUBSET Ids,
           \A k \in K : orders[k].stage \in {"committed", "queued", "running", "waiting"}
                        /\ orders'[k].stage \in {"failed", "gone"},
           \A k \in Ids \ K : ReportOf(orders'[k].stage) = ReportOf(orders[k].stage)
    PROVE  [T!TopicNext]_(T!topicVars)
  <1>0. TypeOK /\ CommittedOnce /\ Ids \subseteq 1..MaxOrders
    BY OrdersAreNumbered DEF EventsInv, OnePlaceEach
  <1>1. Announced' = Announced /\ Range(commits)' = Range(commits)
        /\ (handled \cup skipped)' = handled \cup skipped
    BY DEF Announced, Records
  <1>2. \A k \in K : Report[k] = "none" /\ ReportOf(orders'[k].stage) = "unknown"
    BY <1>0 DEF Report, ReportOf
  <1>3. Report' = [k \in 1..MaxOrders |-> IF k \in K THEN "unknown" ELSE Report[k]]
    BY <1>0, <1>2 DEF Report
  <1>4. K \subseteq Range(commits)
    BY <1>0 DEF CommittedOnce
  <1>5. CASE K = {}
    <2>1. Report' = Report
      BY <1>3, <1>5 DEF Report
    <2>. QED  BY <1>1, <2>1 DEF T!topicVars
  <1>6. CASE K # {}
    <2>1. T!Unknown(K)
      BY <1>1, <1>2, <1>3, <1>4, <1>6 DEF T!Unknown
    <2>. QED  BY <1>0, <2>1 DEF T!TopicNext
  <1>. QED  BY <1>5, <1>6

\* A commit is the placing of an order; the steps up to the producer's batch
\* are none of Topic's business.
LEMMA ListenerTopic ==
    ASSUME EventsInv, NEW k \in Ids,
           CommitOrder(k) \/ CommitAckLost(k) \/ RollbackOrder(k) \/ SubmitAfterCommit(k) \/ Send(k)
    PROVE  [T!TopicNext]_(T!topicVars)
  <1>0. TypeOK /\ CommittedOnce /\ Ids \subseteq 1..MaxOrders
    BY OrdersAreNumbered DEF EventsInv, OnePlaceEach
  <1>1. PICK st \in {"committed", "unannounced", "rolledBack", "queued", "waiting"} : SetStage(k, st)
    BY DEF CommitOrder, CommitAckLost, RollbackOrder, SubmitAfterCommit, Send
  <1>2. /\ OrdersStay /\ Ids' = Ids
        /\ \A j \in Ids : orders'[j].stage = IF j = k THEN st ELSE orders[j].stage
    BY <1>0, <1>1, SetStageFacts DEF Stage
  <1>3. orders[k].stage \in {"open", "committed", "running"}
    BY DEF CommitOrder, CommitAckLost, RollbackOrder, SubmitAfterCommit, Send
  <1>4. Report' = Report
    BY <1>1, <1>2, <1>3, ReportStays DEF ReportOf
  <1>5. UNCHANGED log /\ UNCHANGED consumerVars
    BY DEF CommitOrder, CommitAckLost, RollbackOrder, SubmitAfterCommit, Send
  <1>6. Announced' = Announced /\ (handled \cup skipped)' = handled \cup skipped
    BY <1>5 DEF Announced, Records, consumerVars
  <1>7. CASE CommitOrder(k) \/ CommitAckLost(k)
    <2>1. commits' = Append(commits, k) /\ k \notin Range(commits) /\ commits \in Seq(Ids)
      BY <1>0, <1>7 DEF CommitOrder, CommitAckLost, CommittedOnce, TypeOK
    <2>2. Range(commits') = Range(commits) \cup {k}
      BY <2>1, AppendFacts
    <2>3. T!Place(k)
      BY <1>4, <1>6, <2>1, <2>2 DEF T!Place
    <2>. QED  BY <1>0, <2>3 DEF T!TopicNext
  <1>8. CASE RollbackOrder(k) \/ SubmitAfterCommit(k) \/ Send(k)
    <2>1. UNCHANGED commits
      BY <1>8 DEF RollbackOrder, SubmitAfterCommit, Send
    <2>. QED  BY <1>4, <1>6, <2>1 DEF T!topicVars
  <1>. QED  BY <1>7, <1>8

\* An acknowledged send is a true report, a timeout promises nothing.
LEMMA SendTopic ==
    ASSUME EventsInv, NEW k \in Ids, SendAcknowledged(k) \/ SendTimesOut(k)
    PROVE  [T!TopicNext]_(T!topicVars)
  <1>0. TypeOK /\ Ids \subseteq 1..MaxOrders
    BY OrdersAreNumbered DEF EventsInv
  <1>1. orders[k].stage = "waiting" /\ UNCHANGED <<commits, log, consumerVars>>
    BY DEF SendAcknowledged, SendTimesOut
  <1>2. CASE SendAcknowledged(k)
    <2>1. /\ OrdersStay /\ Ids' = Ids /\ k \in InLog
          /\ \A j \in Ids : orders'[j].stage = IF j = k THEN "sent" ELSE orders[j].stage
      BY <1>0, <1>2, SetStageFacts DEF SendAcknowledged, Stage
    <2>2. Report[k] = "none" /\ Report' = [Report EXCEPT ![k] = "delivered"]
      BY <1>0, <1>1, <2>1 DEF Report, ReportOf
    <2>3. Announced[k] = 1 /\ Announced' = Announced
      BY <1>0, <1>1, <2>1, AnnouncedOnce DEF Announced, Records
    <2>4. T!Delivered(k)
      BY <1>1, <2>2, <2>3 DEF T!Delivered, consumerVars
    <2>. QED  BY <1>0, <2>4 DEF T!TopicNext
  <1>3. CASE SendTimesOut(k)
    <2>1. /\ OrdersStay /\ Ids' = Ids
          /\ \A j \in Ids : orders'[j].stage = IF j = k THEN "failed" ELSE orders[j].stage
      BY <1>0, <1>3, SetStageFacts DEF SendTimesOut, Stage
    <2>2. {k} \in SUBSET Ids
      OBVIOUS
    <2>. QED  BY <1>1, <2>1, <2>2, ReportUnknown DEF consumerVars
  <1>. QED  BY <1>2, <1>3

\* The record in the log is the announcement.
LEMMA BrokerTopic ==
    ASSUME EventsInv, EventsInv', NEW i \in Instance, NEW p \in Partition, BrokerAppends(i, p)
    PROVE  [T!TopicNext]_(T!topicVars)
  <1> DEFINE k == Head(buffer[i][p])
  <1>0. /\ TypeOK /\ BufferedOnce /\ CommittedOnce /\ log \in [Partition -> Seq(Ids)]
        /\ Ids \subseteq 1..MaxOrders
    BY OrdersAreNumbered DEF EventsInv, OnePlaceEach, TypeOK
  <1>1. k \in Ids /\ k \in Range(buffer[i][p])
    BY BatchShrinks DEF BrokerAppends
  <1>2. /\ log' = [log EXCEPT ![p] = Append(log[p], k)]
        /\ UNCHANGED <<orders, commits, consumerVars>>
    BY DEF BrokerAppends
  <1> HIDE DEF k
  <1>3. PartitionFor(k) = p /\ orders[k].stage \in {"waiting", "failed"} /\ k \notin InLog
    BY <1>0, <1>1 DEF BufferedOnce
  <1>4. k \in Range(commits)
    BY <1>0, <1>1, <1>3 DEF CommittedOnce
  <1>5. Report' = Report /\ Ids' = Ids /\ \A j : PartitionFor(j)' = PartitionFor(j)
    BY <1>2 DEF Report, Ids, PartitionFor
  <1>6. \A j \in Ids : j \in InLog' <=> j \in InLog \/ j = k
    <2>1. Range(Append(log[p], k)) = Range(log[p]) \cup {k}
      BY <1>0, <1>1, AppendFacts
    <2>2. \A j \in Ids : PartitionFor(j) \in Partition
      <3>1. \A j \in Ids : orders[j] \in Order
        BY <1>0 DEF TypeOK, Ids
      <3>. QED  BY <3>1 DEF Order, PartitionFor
    <2>3. \A r \in Partition : Range(log'[r]) = IF r = p THEN Range(log[p]) \cup {k} ELSE Range(log[r])
      BY <1>0, <1>2, <2>1
    <2>. QED  BY <1>3, <1>5, <2>2, <2>3 DEF InLog
  <1>7. ASSUME NEW j \in 1..MaxOrders PROVE Announced'[j] = IF j = k THEN 1 ELSE Announced[j]
    <2>1. Announced[j] = IF j \in InLog THEN 1 ELSE 0
      BY AnnouncedOnce
    <2>2. Announced'[j] = IF j \in InLog' THEN 1 ELSE 0
      BY AnnouncedOnceNext
    <2>3. j \notin Ids => j \notin InLog /\ j \notin InLog' /\ j # k
      BY <1>1, <1>5 DEF InLog
    <2>. QED  BY <1>6, <2>1, <2>2, <2>3
  <1>8. Announced[k] = 0
    BY <1>0, <1>1, <1>3, AnnouncedOnce
  <1>9. Announced' = [Announced EXCEPT ![k] = 1]
    <2>1. Announced' = [j \in 1..MaxOrders |-> Announced'[j]]
      BY DEF Announced
    <2>. QED  BY <1>0, <1>1, <1>7, <2>1 DEF Announced
  <1>10. T!Announce(k)
    BY <1>2, <1>4, <1>5, <1>8, <1>9 DEF T!Announce, consumerVars
  <1>. QED  BY <1>0, <1>1, <1>10 DEF T!TopicNext

\* Only what is in the log is processed, whether handled or given up.
LEMMA ProcessTopic ==
    ASSUME EventsInv, NEW p \in Partition, Process(p)
    PROVE  [T!TopicNext]_(T!topicVars)
  <1> DEFINE k == RecordAt(p)
  <1>0. TypeOK /\ LoggedOnce /\ Ids \subseteq 1..MaxOrders
    BY OrdersAreNumbered DEF EventsInv, OnePlaceEach
  <1>1. position[p] < Len(log[p]) /\ UNCHANGED <<orders, commits, log>>
    BY DEF Process, Consume, HandlerFails, producerVars
  <1>2. k \in Ids /\ k \in InLog
    BY <1>0, <1>1, RecordFacts DEF LoggedOnce, InLog
  <1>3. \/ (handled \cup skipped)' = handled \cup skipped
        \/ (handled \cup skipped)' = handled \cup skipped \cup {k}
    BY DEF Process, Consume, HandlerFails
  <1>4. Report' = Report /\ Announced' = Announced
    BY <1>1 DEF Report, Announced, Records, Ids
  <1> HIDE DEF k
  <1>5. CASE (handled \cup skipped)' = handled \cup skipped
    BY <1>1, <1>4, <1>5 DEF T!topicVars
  <1>6. CASE (handled \cup skipped)' = handled \cup skipped \cup {k} /\ k \notin handled \cup skipped
    <2>1. Announced[k] = 1
      BY <1>0, <1>2, AnnouncedOnce
    <2>2. T!Finish(k)
      BY <1>1, <1>4, <1>6, <2>1 DEF T!Finish
    <2>. QED  BY <1>0, <1>2, <2>2 DEF T!TopicNext
  <1>. QED  BY <1>3, <1>5, <1>6

\* What an instance does, and its end.
LEMMA InstanceTopic ==
    ASSUME EventsInv, NEW i \in Instance,
           \/ \E u \in User : PublishEvent(i, u)
           \/ RunTask(i) \/ Crash(i)
           \/ \E p \in Partition : RecordExpires(i, p)
    PROVE  [T!TopicNext]_(T!topicVars)
  <1>0. TypeOK /\ QueuedOnce /\ BufferedOnce
    BY DEF EventsInv, OnePlaceEach
  <1>1. UNCHANGED <<commits, log, handled, skipped>>
    BY DEF PublishEvent, RunTask, Crash, RecordExpires, consumerVars
  <1>2. ASSUME Report' = Report PROVE [T!TopicNext]_(T!topicVars)
    <2>1. Announced' = Announced
      BY <1>1 DEF Announced, Records
    <2>. QED  BY <1>1, <1>2, <2>1 DEF T!topicVars
  <1>3. ASSUME NEW u \in User, PublishEvent(i, u) PROVE Report' = Report
    <2> DEFINE r == [user |-> u, instance |-> i, stage |-> "open"]
    <2>1. orders \in Seq(Order) /\ r \in Order /\ r.stage = "open"
      BY <1>0 DEF TypeOK, Order, Stage
    <2>2. orders' = Append(orders, r) /\ Len(orders) < MaxOrders
      BY <1>3 DEF PublishEvent
    <2> HIDE DEF r
    <2>3. /\ OrdersStay
          /\ \A k \in Ids : orders'[k] = orders[k]
          /\ \A k \in Ids' \ Ids : orders'[k].stage = "open"
      BY <2>1, <2>2 DEF OrdersStay, Ids
    <2>. QED  BY <2>3, ReportStays
  <1>4. CASE RunTask(i)
    <2> DEFINE k == Head(queue[i])
    <2>1. queue[i] # <<>> /\ queue[i] \in Seq(Ids) /\ SetStage(k, "running")
      BY <1>0, <1>4 DEF RunTask, TypeOK
    <2>2. k \in Ids /\ k \in Range(queue[i])
      BY <2>1, TailFacts
    <2> HIDE DEF k
    <2>3. orders[k].stage = "queued"
      BY <1>0, <2>2 DEF QueuedOnce
    <2>4. /\ OrdersStay /\ Ids' = Ids
          /\ \A j \in Ids : orders'[j].stage = IF j = k THEN "running" ELSE orders[j].stage
      BY <1>0, <2>1, <2>2, SetStageFacts DEF Stage
    <2>5. Report' = Report
      BY <2>3, <2>4, ReportStays DEF ReportOf
    <2>. QED  BY <1>2, <2>5
  <1>5. CASE Crash(i)
    <2> DEFINE K == {k \in Ids : /\ orders[k].instance = i
                                /\ orders[k].stage \in {"committed", "queued", "running", "waiting"}}
    <2>1. /\ OrdersStay /\ Ids' = Ids
          /\ \A k \in Ids : orders[k].instance # i => orders'[k].stage = orders[k].stage
          /\ \A k \in Ids : orders[k].instance = i =>
                orders'[k].stage =
                   CASE orders[k].stage = "open" -> "rolledBack"
                     [] orders[k].stage \in {"committed", "queued", "running", "waiting"} -> "gone"
                     [] OTHER -> orders[k].stage
      BY <1>0, <1>5, CrashFacts
    <2>2. \A k \in K : orders[k].stage \in {"committed", "queued", "running", "waiting"}
                       /\ orders'[k].stage \in {"failed", "gone"}
      BY <2>1
    <2>3. \A k \in Ids \ K : ReportOf(orders'[k].stage) = ReportOf(orders[k].stage)
      BY <2>1 DEF ReportOf
    <2>4. K \in SUBSET Ids
      OBVIOUS
    <2> HIDE DEF K
    <2>. QED  BY <1>1, <2>1, <2>2, <2>3, <2>4, ReportUnknown
  <1>6. ASSUME NEW p \in Partition, RecordExpires(i, p) PROVE [T!TopicNext]_(T!topicVars)
    <2> DEFINE k == Head(buffer[i][p])
    <2>1. k \in Ids /\ k \in Range(buffer[i][p])
      BY <1>6, BatchShrinks DEF RecordExpires
    <2>2. IF orders[k].stage = "waiting" THEN SetStage(k, "failed") ELSE UNCHANGED orders
      BY <1>6 DEF RecordExpires
    <2> HIDE DEF k
    <2>3. CASE orders[k].stage = "waiting"
      <3>1. /\ OrdersStay /\ Ids' = Ids
            /\ \A j \in Ids : orders'[j].stage = IF j = k THEN "failed" ELSE orders[j].stage
        BY <1>0, <2>1, <2>2, <2>3, SetStageFacts DEF Stage
      <3>2. {k} \in SUBSET Ids
        BY <2>1
      <3>. QED  BY <1>1, <2>3, <3>1, <3>2, ReportUnknown
    <2>4. CASE orders[k].stage # "waiting"
      <3>1. Report' = Report
        BY <2>2, <2>4 DEF Report, Ids
      <3>. QED  BY <1>2, <3>1
    <2>. QED  BY <2>3, <2>4
  <1>. QED  BY <1>2, <1>3, <1>4, <1>5, <1>6

\* Listener, executor, producer, broker and consumer group together implement
\* Topic: announced after commit and at most once, true reports, only
\* announced orders processed (KafkaDataPlatformClient.send, sendAfterCommit,
\* the consumer's acknowledgement after handle).
THEOREM ImplementsTopic == Spec => TopicRefinement
  <1>1. Init => T!TopicInit
    <2> SUFFICES ASSUME Init PROVE T!TopicInit
      OBVIOUS
    <2>1. EventsInv /\ Ids = {} /\ InLog = {} /\ Range(commits) = {} /\ handled \cup skipped = {}
      BY InitEvents DEF Init, Ids, InLog, Range
    <2>2. \A k \in 1..MaxOrders : Announced[k] = 0
      BY <2>1, AnnouncedOnce
    <2>3. Announced = [k \in 1..MaxOrders |-> 0] /\ Report = [k \in 1..MaxOrders |-> "none"]
      BY <2>1, <2>2 DEF Announced, Report
    <2>. QED  BY <2>1, <2>3 DEF T!TopicInit
  <1>2. EventsInv /\ EventsInv' /\ [Next]_vars => [T!TopicNext]_(T!topicVars)
    <2> SUFFICES ASSUME EventsInv, EventsInv', [Next]_vars PROVE [T!TopicNext]_(T!topicVars)
      OBVIOUS
    <2>1. ASSUME UNCHANGED <<orders, commits, log, handled, skipped>>
          PROVE  [T!TopicNext]_(T!topicVars)
      BY <2>1 DEF T!topicVars, Announced, Records, Report, Ids
    <2>2. ASSUME NEW i \in Instance,
                 \/ \E u \in User : PublishEvent(i, u)
                 \/ RunTask(i) \/ Crash(i) \/ Restart(i)
                 \/ \E p \in Partition : Transmit(i, p)
          PROVE  [T!TopicNext]_(T!topicVars)
      <3>1. CASE Restart(i)
        BY <2>1, <3>1 DEF Restart, producerVars, consumerVars
      <3>2. CASE \E p \in Partition : BrokerAppends(i, p)
        BY <3>2, BrokerTopic
      <3>. QED  BY <2>2, <3>1, <3>2, InstanceTopic DEF Transmit
    <2>3. ASSUME NEW k \in Ids, CommitOrder(k) \/ CommitAckLost(k) \/ RollbackOrder(k) \/ Produce(k)
          PROVE  [T!TopicNext]_(T!topicVars)
      BY <2>3, ListenerTopic, SendTopic DEF Produce
    <2>4. ASSUME NEW p \in Partition, Process(p) \/ CommitOffset(p) \/ Rebalance(p)
          PROVE  [T!TopicNext]_(T!topicVars)
      <3>1. CASE CommitOffset(p) \/ Rebalance(p)
        BY <2>1, <3>1 DEF CommitOffset, Rebalance, producerVars
      <3>. QED  BY <2>4, <3>1, ProcessTopic
    <2>5. CASE UNCHANGED vars
      BY <2>1, <2>5 DEF vars
    <2>. QED  BY <2>2, <2>3, <2>4, <2>5 DEF Next
  <1>. QED  BY <1>1, <1>2, EventsInvariant, PTL DEF Spec, TopicRefinement, T!TopicSpec
=============================================================================
