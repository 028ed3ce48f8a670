---------------------------- MODULE OraclesProofs ---------------------------
(***************************************************************************)
(* Proofs about harness-oracles.py: the multi-instance oracles and their   *)
(* stacks, and the cycle search of the architecture oracle.                *)
(***************************************************************************)
EXTENDS Oracles, FiniteSetTheorems, SequenceTheorems, WellFoundedInduction, TLAPS

-----------------------------------------------------------------------------
(* The multi-instance oracle *)

\* The smoke test reaches its own stack because every port has one owner.
LEMMA OwnStack ==
    ASSUME StackTypeOK, PortsAreOwned, StagesKept
    PROVE  SmokeReachesOwnStack
  <1>1. ASSUME NEW o \in Oracle, at[o] \in Smoke, NEW s \in Oracle
        PROVE  s \in Served(o) <=> s = o
    <2>1. held[o] = Wanted(o) /\ chosen[o] \in held[o]
      BY <1>1 DEF StagesKept, Wanted
    <2>2. CASE s = o
      BY <2>1, <2>2 DEF Served
    <2>3. CASE s # o
      BY <2>1, <2>3 DEF Served, PortsAreOwned
    <2>. QED  BY <2>2, <2>3
  <1>. QED  BY <1>1 DEF SmokeReachesOwnStack, Served

StackCore == StackTypeOK /\ PortsAreOwned /\ StagesKept /\ NothingLeftBehind

LEMMA InitStack ==
    ASSUME NEW first \in {"start", "done"}, StackInit(first)
    PROVE  StackCore
  BY StackAssumption DEF StackInit, StackCore, StackTypeOK, PortsAreOwned, StagesKept,
     NothingLeftBehind, Smoke, NoExit, Wanted, FreshDb

\* The ports stay owned when an oracle publishes free ports of its own, or
\* gives some back.
LEMMA PortsKept ==
    ASSUME StackTypeOK, PortsAreOwned, NEW o \in Oracle, UNCHANGED chosen,
           NEW h \in SUBSET Wanted(o), held' = [held EXCEPT ![o] = h],
           h \subseteq held[o] \/ h \cap Bound = {}
    PROVE  PortsAreOwned' /\ held' \in [Oracle -> SUBSET (Port \cup {KafkaPort})]
  <1>1. ASSUME NEW s \in Oracle \ {o}
        PROVE  h \cap held[s] = {}
    BY <1>1 DEF PortsAreOwned, Bound
  <1>2. ASSUME NEW s \in Oracle
        PROVE  /\ held'[s] = IF s = o THEN h ELSE held[s]
               /\ Wanted(s)' = Wanted(s)
    BY <1>2 DEF StackTypeOK, Wanted
  <1>3. Wanted(o) \subseteq Port \cup {KafkaPort}
    BY DEF StackTypeOK, Wanted
  <1>4. held' \in [Oracle -> SUBSET (Port \cup {KafkaPort})]
    BY <1>3 DEF StackTypeOK
  <1>5. PortsAreOwned'
    <2>1. ASSUME NEW s \in Oracle, NEW t \in Oracle, s # t
          PROVE  held'[s] \cap held'[t] = {}
      BY <1>1, <1>2, <2>1 DEF PortsAreOwned
    <2>2. ASSUME NEW s \in Oracle
          PROVE  held'[s] \subseteq Wanted(s)'
      BY <1>2, <2>2 DEF PortsAreOwned
    <2>. QED  BY <2>1, <2>2 DEF PortsAreOwned
  <1>. QED  BY <1>4, <1>5

\* What up, a killed up, down and a killed down do to the ports.
LEMMA PartKept ==
    ASSUME StackTypeOK, PortsAreOwned, NEW o \in Oracle, UNCHANGED chosen,
           \/ StartsPart(o) \/ StartsAll(o) \/ UNCHANGED held
           \/ \E rest \in SUBSET held[o] : held' = [held EXCEPT ![o] = rest]
    PROVE  PortsAreOwned' /\ held' \in [Oracle -> SUBSET (Port \cup {KafkaPort})]
  <1>1. held[o] \subseteq Wanted(o)
    BY DEF PortsAreOwned
  <1>2. CASE StartsPart(o)
    <2>1. PICK part \in SUBSET (Wanted(o) \ Bound) : held' = [held EXCEPT ![o] = part]
      BY <1>2 DEF StartsPart
    <2>2. part \cap Bound = {} /\ part \in SUBSET Wanted(o)
      OBVIOUS
    <2>. QED  BY <2>1, <2>2, PortsKept
  <1>3. CASE StartsAll(o)
    BY <1>3, PortsKept DEF StartsAll
  <1>4. CASE UNCHANGED held
    BY <1>4 DEF PortsAreOwned, StackTypeOK, Wanted
  <1>5. CASE \E rest \in SUBSET held[o] : held' = [held EXCEPT ![o] = rest]
    <2>1. PICK rest \in SUBSET held[o] : held' = [held EXCEPT ![o] = rest]
      BY <1>5
    <2>2. rest \in SUBSET Wanted(o) /\ rest \subseteq held[o]
      BY <1>1
    <2>. QED  BY <2>1, <2>2, PortsKept
  <1>. QED  BY <1>2, <1>3, <1>4, <1>5

Steps == {"start", "config", "up", "down", "done"} \cup Smoke

LEMMA GotoTypes ==
    ASSUME StackTypeOK, NEW o \in Oracle, NEW step \in Steps, Goto(o, step)
    PROVE  at' \in [Oracle -> Steps]
  BY DEF StackTypeOK, Goto, Steps

LEMMA ReturnTypes ==
    ASSUME StackTypeOK, NEW o \in Oracle,
           NEW c \in {0, 1, TimedOut, NotFound, Interrupted}, ReturnCode(o, c)
    PROVE  /\ at' \in [Oracle -> Steps]
           /\ code' \in [Oracle -> {0, 1, TimedOut, NotFound, Interrupted}]
  <1>1. at' \in [Oracle -> Steps]
    BY GotoTypes DEF ReturnCode, Steps
  <1>2. code' \in [Oracle -> {0, 1, TimedOut, NotFound, Interrupted}]
    BY DEF StackTypeOK, ReturnCode
  <1>. QED  BY <1>1, <1>2

LEMMA ExitTypes ==
    ASSUME StackTypeOK, NEW o \in Oracle,
           NEW c \in {0, 1, TimedOut, Interrupted, Killed}, Exits(o, c)
    PROVE  /\ at' \in [Oracle -> Steps]
           /\ code' \in [Oracle -> {0, 1, TimedOut, NotFound, Interrupted}]
           /\ exit' \in [Oracle -> {NoExit, 0, 1, TimedOut, Interrupted, Killed}]
           /\ upstreams' \in [Oracle -> SUBSET App]
  <1>1. at' \in [Oracle -> Steps]
    BY GotoTypes DEF Exits, Steps
  <1>2. code' \in [Oracle -> {0, 1, TimedOut, NotFound, Interrupted}]
    BY DEF StackTypeOK, Exits
  <1>3. exit' \in [Oracle -> {NoExit, 0, 1, TimedOut, Interrupted, Killed}]
    BY DEF StackTypeOK, Exits
  <1>4. upstreams' \in [Oracle -> SUBSET App]
    BY DEF StackTypeOK, Exits
  <1>. QED  BY <1>1, <1>2, <1>3, <1>4

LEMMA RequireFilesKeeps ==
    ASSUME StackCore, NEW o \in Oracle, RequireFiles(o)
    PROVE  StackCore'
  <1>. USE DEF RequireFiles, Exits, Goto, Bound, StackCore
  <1>1. StackTypeOK'
    <2>1. CASE Exits(o, 1) /\ UNCHANGED chosen
      BY <2>1, ExitTypes DEF StackTypeOK, Steps
    <2>2. CASE Goto(o, "config") /\ UNCHANGED <<exit, code, upstreams>>
               /\ \E p \in Port \ Bound : chosen' = [chosen EXCEPT ![o] = p]
      <3>1. at' \in [Oracle -> Steps]
        BY <2>2, GotoTypes DEF Steps
      <3>2. chosen' \in [Oracle -> Port \cup {KafkaPort}]
        BY <2>2 DEF StackTypeOK
      <3>. QED  BY <2>2, <3>1, <3>2 DEF StackTypeOK, Steps
    <2>. QED  BY <2>1, <2>2
  <1>2. PortsAreOwned'
    BY StackAssumption DEF PortsAreOwned, StackTypeOK, Wanted, StagesKept, Smoke
  <1>3. StagesKept'
    BY StackAssumption DEF StagesKept, StackTypeOK, Wanted, Smoke, NoExit, NotFound, TimedOut, Interrupted, Killed
  <1>4. NothingLeftBehind'
    BY StackAssumption DEF NothingLeftBehind, StagesKept, StackTypeOK, Smoke, NoExit, Killed, Interrupted
  <1>. QED  BY <1>1, <1>2, <1>3, <1>4

LEMMA ComposeConfigKeeps ==
    ASSUME StackCore, NEW o \in Oracle, ComposeConfig(o)
    PROVE  StackCore'
  <1>. USE DEF ComposeConfig, Runs, Proceed, ReturnCode, Goto, StackCore
  <1>1. StackTypeOK'
    BY StackAssumption DEF StackTypeOK, Smoke, FreshDb, NoExit, NotFound, TimedOut, Interrupted, Killed, Wanted
  <1>2. PortsAreOwned'
    BY StackAssumption DEF PortsAreOwned, StackTypeOK, Wanted, StagesKept, Smoke
  <1>3. StagesKept'
    BY StackAssumption DEF StagesKept, StackTypeOK, Wanted, Smoke, NoExit, NotFound, TimedOut, Interrupted, Killed
  <1>4. NothingLeftBehind'
    BY StackAssumption DEF NothingLeftBehind, StagesKept, StackTypeOK, Smoke, NoExit, Killed, Interrupted
  <1>. QED  BY <1>1, <1>2, <1>3, <1>4

LEMMA ComposeUpKeeps ==
    ASSUME StackCore, NEW o \in Oracle, ComposeUp(o)
    PROVE  StackCore'
  <1>. USE DEF ComposeUp, Runs, Proceed, ReturnCode, Goto, StartsAll, StartsPart, Bound, StackCore
  <1>1. StackTypeOK'
    <2>1. at' \in [Oracle -> Steps] /\ code' \in [Oracle -> {0, 1, TimedOut, NotFound, Interrupted}]
      <3>1. CASE ReturnCode(o, 1)
        BY <3>1, ReturnTypes
      <3>2. CASE Proceed(o, "fresh")
        BY <3>2, GotoTypes DEF StackTypeOK, Steps, Smoke, Proceed
      <3>. QED  BY <3>1, <3>2
    <2>. QED  BY <2>1, PartKept DEF StackTypeOK, Steps
  <1>2. PortsAreOwned'
    BY PartKept
  <1>3. StagesKept'
    BY StackAssumption DEF StagesKept, StackTypeOK, Wanted, Smoke, NoExit, NotFound, TimedOut, Interrupted, Killed
  <1>4. NothingLeftBehind'
    BY StackAssumption DEF NothingLeftBehind, StagesKept, StackTypeOK, Smoke, NoExit, Killed, Interrupted
  <1>. QED  BY <1>1, <1>2, <1>3, <1>4

LEMMA SmokeFailsKeeps ==
    ASSUME StackCore, NEW o \in Oracle, SmokeFails(o)
    PROVE  StackCore'
  <1>. USE DEF SmokeFails, ReturnCode, Goto, StackCore
  <1>1. StackTypeOK'
    BY StackAssumption DEF StackTypeOK, Smoke, FreshDb, NoExit, NotFound, TimedOut, Interrupted, Killed, Wanted
  <1>2. PortsAreOwned'
    BY StackAssumption DEF PortsAreOwned, StackTypeOK, Wanted, StagesKept, Smoke
  <1>3. StagesKept'
    BY StackAssumption DEF StagesKept, StackTypeOK, Wanted, Smoke, NoExit, NotFound, TimedOut, Interrupted, Killed
  <1>4. NothingLeftBehind'
    BY StackAssumption DEF NothingLeftBehind, StagesKept, StackTypeOK, Smoke, NoExit, Killed, Interrupted
  <1>. QED  BY <1>1, <1>2, <1>3, <1>4

LEMMA SmokeFreshKeeps ==
    ASSUME StackCore, NEW o \in Oracle, SmokeFresh(o)
    PROVE  StackCore'
  <1>. USE DEF SmokeFresh, Runs, Proceed, ReturnCode, Goto, StackCore
  <1>1. StackTypeOK'
    <2>1. at' \in [Oracle -> Steps] /\ code' \in [Oracle -> {0, 1, TimedOut, NotFound, Interrupted}]
      <3>1. CASE ReturnCode(o, 1)
        BY <3>1, ReturnTypes
      <3>2. CASE Proceed(o, "menus")
        BY <3>2, GotoTypes DEF StackTypeOK, Steps, Smoke, Proceed
      <3>. QED  BY <3>1, <3>2
    <2>. QED  BY <2>1 DEF StackTypeOK, Steps
  <1>2. PortsAreOwned'
    BY StackAssumption DEF PortsAreOwned, StackTypeOK, Wanted, StagesKept, Smoke
  <1>3. StagesKept'
    BY StackAssumption DEF StagesKept, StackTypeOK, Wanted, Smoke, NoExit, NotFound, TimedOut, Interrupted, Killed
  <1>4. NothingLeftBehind'
    BY StackAssumption DEF NothingLeftBehind, StagesKept, StackTypeOK, Smoke, NoExit, Killed, Interrupted
  <1>. QED  BY <1>1, <1>2, <1>3, <1>4

LEMMA SmokeVerifyKeeps ==
    ASSUME StackCore, NEW o \in Oracle, SmokeVerify(o)
    PROVE  StackCore'
  <1>. USE DEF SmokeVerify, Runs, ReturnCode, Goto, StackCore
  <1>1. StackTypeOK'
    BY StackAssumption DEF StackTypeOK, Smoke, FreshDb, NoExit, NotFound, TimedOut, Interrupted, Killed, Wanted
  <1>2. PortsAreOwned'
    BY StackAssumption DEF PortsAreOwned, StackTypeOK, Wanted, StagesKept, Smoke
  <1>3. StagesKept'
    BY StackAssumption DEF StagesKept, StackTypeOK, Wanted, Smoke, NoExit, NotFound, TimedOut, Interrupted, Killed
  <1>4. NothingLeftBehind'
    BY StackAssumption DEF NothingLeftBehind, StagesKept, StackTypeOK, Smoke, NoExit, Killed, Interrupted
  <1>. QED  BY <1>1, <1>2, <1>3, <1>4

LEMMA ComposeDownKeeps ==
    ASSUME StackCore, NEW o \in Oracle, ComposeDown(o)
    PROVE  StackCore'
  <1>. USE DEF ComposeDown, Runs, Goto, DownDone, DownPart, Exits, StackCore
  <1>1. StackTypeOK'
    <2>1. PICK c \in {0, 1, TimedOut, Interrupted, Killed} : Exits(o, c)
      BY DEF StackTypeOK
    <2>2. held' \in [Oracle -> SUBSET (Port \cup {KafkaPort})]
      BY PartKept
    <2>3. db' \in [Oracle -> [balance : Int, orders : Nat, history : Nat]]
      BY DEF StackTypeOK, FreshDb
    <2>. QED  BY <2>1, <2>2, <2>3, ExitTypes DEF StackTypeOK, Steps
  <1>2. PortsAreOwned'
    <2>1. \E rest \in SUBSET held[o] : held' = [held EXCEPT ![o] = rest]
      BY DEF DownDone, DownPart
    <2>. QED  BY <2>1, PartKept
  <1>3. StagesKept'
    BY StackAssumption DEF StagesKept, StackTypeOK, Wanted, Smoke, NoExit, NotFound, TimedOut, Interrupted, Killed
  <1>4. NothingLeftBehind'
    BY StackAssumption DEF NothingLeftBehind, StagesKept, StackTypeOK, Smoke, NoExit, Killed, Interrupted
  <1>. QED  BY <1>1, <1>2, <1>3, <1>4

LEMMA CommandTimesOutKeeps ==
    ASSUME StackCore, NEW o \in Oracle, CommandTimesOut(o)
    PROVE  StackCore'
  <1>. USE DEF CommandTimesOut, ReturnCode, Goto, DownPart, Exits, StartsPart, Bound, StackCore
  <1>1. StackTypeOK'
    <2>1. held' \in [Oracle -> SUBSET (Port \cup {KafkaPort})]
      BY PartKept
    <2>2. CASE at[o] = "down"
      <3>1. Exits(o, 1)
        BY <2>2
      <3>2. /\ at' \in [Oracle -> Steps]
            /\ code' \in [Oracle -> {0, 1, TimedOut, NotFound, Interrupted}]
            /\ exit' \in [Oracle -> {NoExit, 0, 1, TimedOut, Interrupted, Killed}]
            /\ upstreams' \in [Oracle -> SUBSET App]
        BY <3>1, ExitTypes
      <3>3. hung' \subseteq Oracle /\ excused' \subseteq Oracle /\ faults' \in 0..MaxFaults
        BY <2>2, StackAssumption DEF StackTypeOK
      <3>4. UNCHANGED <<chosen, db>>
        BY <2>2
      <3>. QED  BY <2>1, <3>2, <3>3, <3>4 DEF StackTypeOK, Steps
    <2>3. CASE at[o] # "down"
      <3>1. ReturnCode(o, TimedOut)
        BY <2>3
      <3>2. /\ at' \in [Oracle -> Steps]
            /\ code' \in [Oracle -> {0, 1, TimedOut, NotFound, Interrupted}]
        BY <3>1, ReturnTypes
      <3>3. hung' \subseteq Oracle /\ faults' \in 0..MaxFaults
        BY <2>3, StackAssumption DEF StackTypeOK
      <3>4. UNCHANGED <<chosen, db, exit, upstreams, excused>>
        BY <2>3
      <3>. QED  BY <2>1, <3>2, <3>3, <3>4 DEF StackTypeOK, Steps
    <2>. QED  BY <2>2, <2>3
  <1>2. PortsAreOwned'
    BY PartKept
  <1>3. StagesKept'
    BY StackAssumption DEF StagesKept, StackTypeOK, Wanted, Smoke, NoExit, NotFound, TimedOut, Interrupted, Killed
  <1>4. NothingLeftBehind'
    BY StackAssumption DEF NothingLeftBehind, StagesKept, StackTypeOK, Smoke, NoExit, Killed, Interrupted
  <1>. QED  BY <1>1, <1>2, <1>3, <1>4

LEMMA HangKeeps ==
    ASSUME StackCore, NEW o \in Oracle, Hang(o)
    PROVE  StackCore'
  <1>. USE DEF Hang, Fault, StackCore
  <1>1. StackTypeOK'
    BY StackAssumption DEF StackTypeOK, Smoke, FreshDb, NoExit, NotFound, TimedOut, Interrupted, Killed, Wanted
  <1>2. PortsAreOwned'
    BY StackAssumption DEF PortsAreOwned, StackTypeOK, Wanted, StagesKept, Smoke
  <1>3. StagesKept'
    BY StackAssumption DEF StagesKept, StackTypeOK, Wanted, Smoke, NoExit, NotFound, TimedOut, Interrupted, Killed
  <1>4. NothingLeftBehind'
    BY StackAssumption DEF NothingLeftBehind, StagesKept, StackTypeOK, Smoke, NoExit, Killed, Interrupted
  <1>. QED  BY <1>1, <1>2, <1>3, <1>4

LEMMA InterruptKeeps ==
    ASSUME StackCore, NEW o \in Oracle, Interrupt(o)
    PROVE  StackCore'
  <1>. USE DEF Interrupt, Fault, ReturnCode, Goto, DownPart, Exits, StartsPart, Bound, StackCore
  <1>1. StackTypeOK'
    <2>1. held' \in [Oracle -> SUBSET (Port \cup {KafkaPort})]
      BY PartKept
    <2>2. CASE at[o] = "down"
      <3>1. Exits(o, Interrupted)
        BY <2>2
      <3>2. /\ at' \in [Oracle -> Steps]
            /\ code' \in [Oracle -> {0, 1, TimedOut, NotFound, Interrupted}]
            /\ exit' \in [Oracle -> {NoExit, 0, 1, TimedOut, Interrupted, Killed}]
            /\ upstreams' \in [Oracle -> SUBSET App]
        BY <3>1, ExitTypes
      <3>3. hung' \subseteq Oracle /\ excused' \subseteq Oracle /\ faults' \in 0..MaxFaults
        BY <2>2, StackAssumption DEF StackTypeOK
      <3>4. UNCHANGED <<chosen, db>>
        BY <2>2
      <3>. QED  BY <2>1, <3>2, <3>3, <3>4 DEF StackTypeOK, Steps
    <2>3. CASE at[o] # "down"
      <3>1. ReturnCode(o, Interrupted)
        BY <2>3
      <3>2. /\ at' \in [Oracle -> Steps]
            /\ code' \in [Oracle -> {0, 1, TimedOut, NotFound, Interrupted}]
        BY <3>1, ReturnTypes
      <3>3. hung' \subseteq Oracle /\ faults' \in 0..MaxFaults
        BY <2>3, StackAssumption DEF StackTypeOK
      <3>4. UNCHANGED <<chosen, db, exit, upstreams, excused>>
        BY <2>3
      <3>. QED  BY <2>1, <3>2, <3>3, <3>4 DEF StackTypeOK, Steps
    <2>. QED  BY <2>2, <2>3
  <1>2. PortsAreOwned'
    BY PartKept
  <1>3. StagesKept'
    BY StackAssumption DEF StagesKept, StackTypeOK, Wanted, Smoke, NoExit, NotFound, TimedOut, Interrupted, Killed
  <1>4. NothingLeftBehind'
    BY StackAssumption DEF NothingLeftBehind, StagesKept, StackTypeOK, Smoke, NoExit, Killed, Interrupted
  <1>. QED  BY <1>1, <1>2, <1>3, <1>4

LEMMA KillKeeps ==
    ASSUME StackCore, NEW o \in Oracle, Kill(o)
    PROVE  StackCore'
  <1>. USE DEF Kill, Fault, Goto, Exits, StartsPart, Bound, StackCore
  <1>1. StackTypeOK'
    BY StackAssumption DEF StackTypeOK, Smoke, FreshDb, NoExit, NotFound, TimedOut, Interrupted, Killed, Wanted
  <1>2. PortsAreOwned'
    BY PartKept
  <1>3. StagesKept'
    BY StackAssumption DEF StagesKept, StackTypeOK, Wanted, Smoke, NoExit, NotFound, TimedOut, Interrupted, Killed
  <1>4. NothingLeftBehind'
    BY StackAssumption DEF NothingLeftBehind, StagesKept, StackTypeOK, Smoke, NoExit, Killed, Interrupted
  <1>. QED  BY <1>1, <1>2, <1>3, <1>4

\* One request of the smoke test.  It reaches the oracle's own database only.
LEMMA RequestKeeps ==
    ASSUME StackCore, NEW o \in Oracle, NEW from \in Smoke, NEW to \in Smoke,
           NEW delta \in [balance : Int, orders : Nat, history : Nat], NEW expected,
           Request(o, from, to, delta, expected)
    PROVE  StackCore'
  <1>. USE DEF StackCore
  <1>1. (at' = [at EXCEPT ![o] = to] /\ code' = code) \/ ReturnCode(o, 1)
    BY DEF Request, Proceed, Goto
  <1>2. UNCHANGED <<chosen, exit, hung, held, faults, excused>> /\ at[o] = from /\ o \notin hung
    BY DEF Request, Runs
  <1>3. /\ db' \in [Oracle -> [balance : Int, orders : Nat, history : Nat]]
        /\ \E u \in SUBSET App : upstreams' = [upstreams EXCEPT ![o] = u]
    <2>1. CASE Served(o) = {}
      BY <2>1 DEF Request, StackTypeOK
    <2>2. CASE Served(o) # {}
      <3>1. PICK s \in Served(o), a \in App :
              /\ db' = [db EXCEPT ![s] = [balance |-> @.balance + delta.balance,
                                          orders |-> @.orders + delta.orders,
                                          history |-> @.history + delta.history]]
              /\ upstreams' = [upstreams EXCEPT ![o] = @ \cup {a}]
        BY <2>2 DEF Request
      <3>2. s \in Oracle
        BY DEF Served
      <3>3. [balance |-> db[s].balance + delta.balance, orders |-> db[s].orders + delta.orders,
             history |-> db[s].history + delta.history] \in [balance : Int, orders : Nat, history : Nat]
        BY <3>2 DEF StackTypeOK
      <3>4. db' \in [Oracle -> [balance : Int, orders : Nat, history : Nat]]
        BY <3>1, <3>2, <3>3 DEF StackTypeOK
      <3>5. upstreams[o] \cup {a} \in SUBSET App
        BY DEF StackTypeOK
      <3>. QED  BY <3>1, <3>4, <3>5
    <2>. QED  BY <2>1, <2>2
  <1>4. StackTypeOK'
    <2>1. at' \in [Oracle -> Steps] /\ code' \in [Oracle -> {0, 1, TimedOut, NotFound, Interrupted}]
      BY <1>1, GotoTypes, ReturnTypes DEF StackTypeOK, Steps, Goto
    <2>2. upstreams' \in [Oracle -> SUBSET App]
      BY <1>3 DEF StackTypeOK
    <2>. QED  BY <1>2, <1>3, <2>1, <2>2 DEF StackTypeOK, Steps
  <1>5. PortsAreOwned'
    BY <1>2 DEF PortsAreOwned, Wanted
  <1>6. StagesKept'
    BY <1>1, <1>2, <1>3 DEF StagesKept, StackTypeOK, Wanted, Smoke, ReturnCode, Goto
  <1>7. NothingLeftBehind'
    BY <1>1, <1>2, <1>3 DEF NothingLeftBehind, StackTypeOK, Smoke, ReturnCode, Goto
  <1>. QED  BY <1>4, <1>5, <1>6, <1>7

LEMMA SmokeKeeps ==
    ASSUME StackCore, NEW o \in Oracle, SmokeStep(o)
    PROVE  StackCore'
  <1>1. CASE SmokeMenus(o)
    BY <1>1, RequestKeeps DEF SmokeMenus, FreshDb, Smoke
  <1>2. CASE SmokeCharge(o)
    BY <1>2, RequestKeeps DEF SmokeCharge, Charge, Smoke
  <1>3. CASE SmokeOrder(o)
    BY <1>3, RequestKeeps DEF SmokeOrder, Pay, Smoke
  <1>4. CASE SmokePopular(o)
    BY <1>4, RequestKeeps DEF SmokePopular, FreshDb, Smoke
  <1>. QED  BY <1>1, <1>2, <1>3, <1>4, SmokeFailsKeeps, SmokeFreshKeeps, SmokeVerifyKeeps DEF SmokeStep

LEMMA StackStepKeeps == StackCore /\ StackStep => StackCore'
  <1>. SUFFICES ASSUME StackCore, NEW o \in Oracle,
                       OracleStep(o) \/ Hang(o) \/ Interrupt(o) \/ Kill(o)
                PROVE  StackCore'
    BY DEF StackStep
  <1>. QED  BY RequireFilesKeeps, ComposeConfigKeeps, ComposeUpKeeps, SmokeKeeps, ComposeDownKeeps,
               CommandTimesOutKeeps, HangKeeps, InterruptKeeps, KillKeeps DEF OracleStep

LEMMA StackAlways == Spec => []StackCore
  <1>1. Init => StackCore
    BY InitStack DEF Init
  <1>2. StackCore /\ [Next]_vars => StackCore'
    <2> SUFFICES ASSUME StackCore, [Next]_vars PROVE StackCore'
      OBVIOUS
    <2>1. CASE RunMultiInstance
      BY <2>1, StackStepKeeps DEF RunMultiInstance
    <2>2. CASE UNCHANGED stackVars
      BY <2>2 DEF stackVars, StackCore, StackTypeOK, PortsAreOwned, StagesKept, NothingLeftBehind, Wanted
    <2>3. CASE ScanArchitecture \/ SearchLayers \/ SearchReturns \/ ScanTree
      BY <2>2, <2>3 DEF ScanArchitecture, SearchLayers, SearchReturns, ScanTree
    <2>4. CASE UNCHANGED vars
      BY <2>2, <2>4 DEF vars
    <2>. QED  BY <2>1, <2>3, <2>4 DEF Next
  <1>. QED  BY <1>1, <1>2, PTL DEF Spec

\* Whatever several oracles do at once, and wherever one of them hangs, is
\* interrupted or killed, a smoke test is served by the stack its own oracle
\* started (run_multi_instance_oracle with the ports of _free_port).
THEOREM StackInvariant == Spec => []StackInv
  <1>1. StackCore => StackInv
    BY OwnStack DEF StackCore, StackInv
  <1>. QED  BY <1>1, StackAlways, PTL

\* Exit code 0 of the multi-instance oracle means both instances answered and
\* everything is removed; what is left behind has a killed oracle or a
\* reported failure of its cleanup.
THEOREM NothingIsLeftBehind == Spec => []NothingLeftBehind
  <1>1. StackCore => NothingLeftBehind
    BY DEF StackCore
  <1>. QED  BY <1>1, StackAlways, PTL

-----------------------------------------------------------------------------
(* The cycle search *)

LEMMA PopFacts ==
    ASSUME NEW S, NEW s \in Seq(S), Len(s) > 0
    PROVE  /\ Pop(s) \in Seq(S) /\ Len(Pop(s)) = Len(s) - 1
           /\ \A k \in 1..(Len(s) - 1) : Pop(s)[k] = s[k]
           /\ Top(s) \in S
  <1>. DEFINE l == Len(s)
              p == SubSeq(s, 1, l - 1)
  <1>1. l \in Nat /\ l > 0 /\ 1 \in Int
    OBVIOUS
  <1>2. \A k \in 1..(l - 1) : s[k] \in S
    BY ElementOfSeq
  <1>. HIDE DEF l
  <1>3. /\ p \in Seq(S)
        /\ Len(p) = IF 1 <= l - 1 THEN l - 1 - 1 + 1 ELSE 0
        /\ \A k \in 1..(l - 1 - 1 + 1) : p[k] = s[1 + k - 1]
    BY <1>1, <1>2, l - 1 \in Int, SubSeqProperties
  <1>. HIDE DEF p
  <1>4. Len(p) = l - 1
    BY <1>1, <1>3
  <1>5. \A k \in 1..(l - 1) : p[k] = s[k]
    BY <1>1, <1>3
  <1>6. Top(s) \in S
    BY DEF Top
  <1>. QED  BY <1>3, <1>4, <1>5, <1>6 DEF Pop, p, l

LEMMA AppendFacts ==
    ASSUME NEW S, NEW s \in Seq(S), NEW e \in S
    PROVE  /\ Append(s, e) \in Seq(S) /\ Len(Append(s, e)) = Len(s) + 1
           /\ \A k \in 1..Len(s) : Append(s, e)[k] = s[k]
           /\ Append(s, e)[Len(s) + 1] = e
  OBVIOUS

LEMMA RemainingFacts ==
    ASSUME SearchTypeOK, Len(todo) > 0, NEW n
    PROVE  /\ Remaining(n) \in Seq(SUBSET Node) /\ Len(Remaining(n)) = Len(todo)
           /\ \A k \in 1..Len(todo) :
                 Remaining(n)[k] = IF k = Len(todo) THEN todo[k] \ {n} ELSE todo[k]
  <1>1. todo \in Seq(SUBSET Node) /\ todo[Len(todo)] \ {n} \in SUBSET Node
    BY DEF SearchTypeOK
  <1>2. Len(todo) \in 1..Len(todo)
    BY <1>1
  <1>3. Remaining(n) = [todo EXCEPT ![Len(todo)] = todo[Len(todo)] \ {n}]
    BY DEF Remaining
  <1>4. /\ Remaining(n) \in Seq(SUBSET Node) /\ Len(Remaining(n)) = Len(todo)
        /\ \A k \in 1..Len(todo) :
              Remaining(n)[k] = IF k = Len(todo) THEN todo[Len(todo)] \ {n} ELSE todo[k]
    BY <1>1, <1>2, <1>3, ExceptSeq
  <1>. QED  BY <1>4

LEMMA GraphFacts ==
    ASSUME SearchTypeOK, NEW n \in Node
    PROVE  Targets(n) \subseteq GraphNodes /\ Targets(n) \subseteq Node /\ n \notin Targets(n)
  BY DEF Targets, GraphNodes

LEMMA FiniteNodes ==
    ASSUME NEW S \in SUBSET Node
    PROVE  IsFiniteSet(S) /\ Cardinality(S) \in Nat
  BY NodeAssumption, FS_Subset, FS_CardinalityType

\* A nonempty set of numbers has a least element.
LEMMA LeastNumber ==
    ASSUME NEW S, S \in SUBSET Nat, S # {}
    PROVE  \E x \in S : \A y \in S : x <= y
  <1>. DEFINE R == {ss \in Nat \X Nat : ss[1] < ss[2]}
  <1>0. OpToRel(<, Nat) = R
    BY Zenon DEF OpToRel
  <1>1. IsWellFoundedOn(R, Nat)
    BY NatLessThanWellFounded, <1>0, Zenon
  <1>2. PICK x \in S : \A y \in S : ~(<<y, x>> \in R)
    BY <1>1, WFMin, Zenon
  <1>3. ASSUME NEW y \in S PROVE x <= y
    <2>1. y \in Nat /\ x \in Nat
      OBVIOUS
    <2>2. <<y, x>> \in R <=> y < x
      BY <2>1, Zenon
    <2>. QED  BY <1>2, <2>1, <2>2, SMT
  <1>. QED  BY <1>3

\* When every node of the graph was visited, rank falls along every edge: the
\* node of least rank in a set leads to no node of the set.
LEMMA RankedIsAcyclic ==
    ASSUME SearchTypeOK, VisitedInOrder, GraphNodes \subseteq visited
    PROVE  Acyclic
  <1>. SUFFICES ASSUME NEW S \in SUBSET Node, S # {}
                PROVE  \E n \in S : Targets(n) \cap S = {}
    BY DEF Acyclic
  <1>1. CASE S \subseteq visited
    <2>. DEFINE ranks == {rank[n] : n \in S}
    <2>1. ranks \in SUBSET Nat /\ ranks # {}
      BY <1>1 DEF SearchTypeOK
    <2>2. PICK r \in ranks : \A q \in ranks : r <= q
      BY <2>1, LeastNumber
    <2>3. PICK n \in S : rank[n] = r
      OBVIOUS
    <2>4. ASSUME NEW m \in Targets(n) \cap S
          PROVE  FALSE
      <3>1. rank[m] < rank[n] /\ rank[m] \in Nat /\ rank[n] \in Nat
        BY <1>1, <2>4 DEF VisitedInOrder, SearchTypeOK
      <3>2. rank[n] <= rank[m]
        BY <2>2, <2>3, <2>4
      <3>. QED  BY <3>1, <3>2
    <2>. QED  BY <2>4
  <1>2. CASE ~(S \subseteq visited)
    <2>1. PICK n \in S : n \notin GraphNodes
      BY <1>2
    <2>2. Targets(n) = {}
      BY <2>1 DEF GraphNodes
    <2>. QED  BY <2>2
  <1>. QED  BY <1>1, <1>2

LEMMA InitSearch == SearchInit => SearchInv
  <1> SUFFICES ASSUME SearchInit PROVE SearchInv
    OBVIOUS
  <1>. USE DEF SearchInit
  <1>1. SearchTypeOK
    BY DEF SearchTypeOK
  <1>2. CallsArePath
    BY DEF CallsArePath
  <1>3. GraphNodes = {}
    BY DEF GraphNodes, Targets
  <1>4. NothingForgotten
    BY <1>3 DEF NothingForgotten
  <1>5. VisitedInOrder /\ VerdictIsRight
    BY DEF VisitedInOrder, VerdictIsRight
  <1>. QED  BY <1>1, <1>2, <1>4, <1>5 DEF SearchInv

LEMMA StartSearchKeeps ==
    ASSUME SearchInv, NEW E \in SUBSET (Node \X Node), StartSearch(E)
    PROVE  SearchInv'
  <1>. USE DEF SearchInv
  <1>1. path = <<>> /\ visited = {} /\ cycle = <<>> /\ visiting = {}
    BY DEF StartSearch, VerdictIsRight, CallsArePath
  <1>2. UNCHANGED <<visiting, visited, path, cycle, rank>> /\ edges' = E
        /\ todo' = <<GraphNodes'>> /\ search' = "running"
    BY DEF StartSearch
  <1>3. GraphNodes' \subseteq Node
    BY DEF GraphNodes
  <1>4. SearchTypeOK'
    BY <1>2, <1>3 DEF SearchTypeOK
  <1>5. CallsArePath'
    BY <1>1, <1>2 DEF CallsArePath
  <1>6. NothingForgotten'
    BY <1>1, <1>2 DEF NothingForgotten
  <1>7. VisitedInOrder' /\ VerdictIsRight'
    BY <1>1, <1>2 DEF VisitedInOrder, VerdictIsRight
  <1>. QED  BY <1>4, <1>5, <1>6, <1>7

\* The path from a node that is visited again, and back to it, is a cycle.
LEMMA VisitOpenKeeps ==
    ASSUME SearchInv, NEW n \in Node, VisitOpen(n)
    PROVE  SearchInv'
  <1>. DEFINE l == Len(path)
              first == CHOOSE k \in DOMAIN path : path[k] = n /\ \A j \in 1..(k - 1) : path[j] # n
              back == SubSeq(path, first, l)
              found == Append(back, n)
  <1>1. /\ SearchTypeOK /\ CallsArePath /\ NothingForgotten /\ VisitedInOrder /\ VerdictIsRight
        /\ n \in visiting /\ n \in todo[Len(todo)]
        /\ cycle' = found /\ search' = "over"
        /\ UNCHANGED <<edges, visiting, visited, path, todo, rank>>
    BY Zenon DEF SearchInv, VisitOpen, IsNext, Top
  <1>2. path \in Seq(Node) /\ DOMAIN path = 1..l /\ l \in Nat /\ \A k \in 1..l : path[k] \in Node
    BY <1>1 DEF SearchTypeOK
  <1>3. first \in 1..l /\ path[first] = n
    <2>1. PICK k \in 1..l : path[k] = n
      BY <1>1, <1>2 DEF CallsArePath
    <2>2. \A j \in 1..(k - 1) : path[j] # n
      BY <1>1, <1>2, <2>1 DEF CallsArePath
    <2>. QED  BY <1>2, <2>1, <2>2
  <1>. HIDE DEF first
  <1>4. l > 0 /\ n \in Targets(path[l])
    <2>1. l > 0
      BY <1>2, <1>3
    <2>2. Len(todo) = l + 1 /\ todo[l + 1] \subseteq Targets(path[l])
      BY <1>1, <1>2, <2>1 DEF CallsArePath, NothingForgotten
    <2>. QED  BY <1>1, <2>1, <2>2
  <1>5. first < l
    <2>1. path[l] \in Node
      BY <1>2, <1>4
    <2>2. path[l] # n
      BY <1>4, <2>1 DEF Targets
    <2>. QED  BY <1>2, <1>3, <2>2
  <1>6. /\ back \in Seq(Node) /\ Len(back) = l - first + 1
        /\ \A i \in 1..(l - first + 1) : back[i] = path[first + i - 1]
    <2>1. first \in Int /\ l \in Int /\ first <= l /\ \A i \in first..l : path[i] \in Node
      BY <1>2, <1>3
    <2>. HIDE DEF l
    <2>. QED  BY <2>1, SubSeqProperties
  <1>. HIDE DEF back, l
  <1>7. /\ found \in Seq(Node) /\ Len(found) = l - first + 2
        /\ found[l - first + 2] = n
        /\ \A i \in 1..(l - first + 1) : found[i] = path[first + i - 1]
    <2>1. /\ found \in Seq(Node) /\ Len(found) = Len(back) + 1
          /\ \A k \in 1..Len(back) : found[k] = back[k]
          /\ found[Len(back) + 1] = n
      BY <1>6, AppendFacts
    <2>. QED  BY <1>2, <1>3, <1>5, <1>6, <2>1
  <1>. HIDE DEF found
  <1>8. IsCycle(found)
    <2>1. Len(found) > 2 /\ found[1] = found[Len(found)]
      BY <1>2, <1>3, <1>5, <1>7
    <2>2. ASSUME NEW k \in 1..(Len(found) - 1)
          PROVE  found[k + 1] \in Targets(found[k])
      <3>1. CASE k = l - first + 1
        BY <1>2, <1>3, <1>4, <1>5, <1>7, <3>1
      <3>2. CASE k < l - first + 1
        <4>1. /\ first + k - 1 \in 1..(l - 1)
              /\ k \in 1..(l - first + 1) /\ k + 1 \in 1..(l - first + 1)
              /\ first + (k + 1) - 1 = (first + k - 1) + 1
          BY <1>2, <1>3, <1>5, <1>7, <3>2
        <4>2. found[k] = path[first + k - 1] /\ found[k + 1] = path[(first + k - 1) + 1]
          BY <1>7, <4>1
        <4>. QED  BY <1>1, <4>1, <4>2 DEF CallsArePath, l
      <3>. QED  BY <1>2, <1>3, <1>7, <3>1, <3>2
    <2>3. ASSUME NEW j \in 1..(Len(found) - 1), NEW k \in 1..(Len(found) - 1), found[j] = found[k]
          PROVE  j = k
      <3>1. /\ first + j - 1 \in DOMAIN path /\ first + k - 1 \in DOMAIN path
            /\ path[first + j - 1] = path[first + k - 1]
        BY <1>2, <1>3, <1>5, <1>7, <2>3
      <3>2. first + j - 1 = first + k - 1
        BY <1>1, <3>1 DEF CallsArePath
      <3>. QED  BY <1>2, <1>3, <1>7, <3>2
    <2>. QED  BY <2>1, <2>2, <2>3 DEF IsCycle
  <1>9. SearchTypeOK' /\ CallsArePath' /\ NothingForgotten' /\ VisitedInOrder'
    <2>1. SearchTypeOK'
      BY <1>1, <1>7 DEF SearchTypeOK
    <2>2. CallsArePath'
      BY <1>1 DEF CallsArePath, Targets
    <2>4. VisitedInOrder'
      <3>1. GraphNodes' = GraphNodes /\ \A m : Targets(m)' = Targets(m)
        BY <1>1 DEF GraphNodes, Targets
      <3>. QED  BY <1>1, <3>1 DEF VisitedInOrder
    <2>3. NothingForgotten'
      <3>1. GraphNodes' = GraphNodes /\ \A m : Targets(m)' = Targets(m)
        BY <1>1 DEF GraphNodes, Targets
      <3>. QED  BY <1>1, <3>1 DEF NothingForgotten
    <2>. QED  BY <2>1, <2>2, <2>3, <2>4
  <1>10. VerdictIsRight'
    <2>1. found # <<>>
      BY <1>8 DEF IsCycle
    <2>2. IsCycle(cycle)'
      BY <1>1, <1>8 DEF IsCycle, Targets
    <2>. QED  BY <1>1, <2>1, <2>2 DEF VerdictIsRight
  <1>. QED  BY <1>9, <1>10 DEF SearchInv

\* What the three steps that go on share: the stack has a top, n is in it.
LEMMA TopFacts ==
    ASSUME SearchInv
    PROVE  /\ path \in Seq(Node) /\ todo \in Seq(SUBSET Node)
           /\ Len(path) \in Nat /\ Len(todo) = Len(path) + 1
           /\ DOMAIN path = 1..Len(path)
           /\ \A k \in 1..Len(path) : path[k] \in Node
           /\ Top(todo) = todo[Len(path) + 1]
           /\ Top(todo) \subseteq GraphNodes
  <1>1. /\ path \in Seq(Node) /\ todo \in Seq(SUBSET Node)
        /\ Len(path) \in Nat /\ Len(todo) = Len(path) + 1
        /\ DOMAIN path = 1..Len(path)
        /\ \A k \in 1..Len(path) : path[k] \in Node
    BY DEF SearchInv, SearchTypeOK, CallsArePath
  <1>2. Top(todo) = todo[Len(path) + 1]
    BY <1>1 DEF Top
  <1>3. todo[Len(path) + 1] \subseteq GraphNodes
    <2>1. CASE path = <<>>
      BY <2>1 DEF SearchInv, NothingForgotten
    <2>2. CASE path # <<>>
      <3>1. Len(path) \in 1..Len(path)
        BY <1>1, <2>2, EmptySeq
      <3>2. todo[Len(path) + 1] \subseteq Targets(path[Len(path)])
        BY <3>1 DEF SearchInv, NothingForgotten
      <3>. QED  BY <1>1, <3>1, <3>2, GraphFacts DEF SearchInv
    <2>. QED  BY <2>1, <2>2
  <1>. QED  BY <1>1, <1>2, <1>3

LEMMA VisitAgainKeeps ==
    ASSUME SearchInv, NEW n \in Node, VisitAgain(n)
    PROVE  SearchInv'
  <1>. DEFINE l == Len(path)
  <1>1. /\ SearchTypeOK /\ CallsArePath /\ NothingForgotten /\ VisitedInOrder /\ VerdictIsRight
        /\ n \in visited /\ search = "running" /\ todo' = Remaining(n)
        /\ UNCHANGED <<edges, visiting, visited, path, cycle, search, rank>>
    BY Zenon DEF SearchInv, VisitAgain
  <1>2. /\ l \in Nat /\ Len(todo) = l + 1 /\ Len(todo) > 0
    BY TopFacts
  <1>3. /\ todo' \in Seq(SUBSET Node) /\ Len(todo') = l + 1
        /\ \A k \in 1..(l + 1) : todo'[k] = IF k = l + 1 THEN todo[k] \ {n} ELSE todo[k]
    BY <1>1, <1>2, RemainingFacts
  <1>4. SearchTypeOK'
    BY <1>1, <1>3 DEF SearchTypeOK
  <1>5. CallsArePath'
    BY <1>1, <1>3 DEF CallsArePath, Targets
  <1>6. GraphNodes' = GraphNodes /\ \A m : Targets(m)' = Targets(m)
    BY <1>1 DEF GraphNodes, Targets
  <1>7. NothingForgotten'
    <2>1. ASSUME NEW k \in 1..l
          PROVE  /\ todo'[k + 1] \subseteq Targets(path[k])
                 /\ Targets(path[k]) \ todo'[k + 1] \subseteq
                      visited \cup (IF k < l THEN {path[k + 1]} ELSE {})
      <3>1. k + 1 \in 1..(l + 1)
        BY <1>2
      <3>2. /\ todo[k + 1] \subseteq Targets(path[k])
            /\ Targets(path[k]) \ todo[k + 1] \subseteq
                 visited \cup (IF k < l THEN {path[k + 1]} ELSE {})
        BY <1>1 DEF NothingForgotten
      <3>3. todo'[k + 1] = todo[k + 1] \ {n} \/ todo'[k + 1] = todo[k + 1]
        BY <1>3, <3>1
      <3>. QED  BY <1>1, <3>2, <3>3
    <2>2. /\ todo'[1] \subseteq GraphNodes
          /\ GraphNodes \ todo'[1] \subseteq visited \cup (IF path = <<>> THEN {} ELSE {path[1]})
      <3>1. todo'[1] = todo[1] \ {n} \/ todo'[1] = todo[1]
        BY <1>2, <1>3
      <3>. QED  BY <1>1, <3>1 DEF NothingForgotten
    <2>. QED  BY <1>1, <1>6, <2>1, <2>2 DEF NothingForgotten
  <1>8. VisitedInOrder' /\ VerdictIsRight'
    BY <1>1, <1>6, Zenon DEF VisitedInOrder, VerdictIsRight, IsCycle, Acyclic
  <1>. QED  BY <1>4, <1>5, <1>7, <1>8 DEF SearchInv

\* The stack grows by n and its targets.
LEMMA VisitNewKeeps ==
    ASSUME SearchInv, NEW n \in Node, VisitNew(n)
    PROVE  SearchInv'
  <1>. DEFINE l == Len(path)
  <1>1. /\ SearchTypeOK /\ CallsArePath /\ NothingForgotten /\ VisitedInOrder /\ VerdictIsRight
        /\ n \notin visiting /\ n \notin visited /\ n \in Top(todo) /\ search = "running"
        /\ visiting' = visiting \cup {n} /\ path' = Append(path, n)
        /\ todo' = Append(Remaining(n), Targets(n))
        /\ UNCHANGED <<edges, visited, cycle, search, rank>>
    BY Zenon DEF SearchInv, VisitNew, IsNext
  <1>2. /\ l \in Nat /\ Len(todo) = l + 1 /\ Len(todo) > 0
        /\ path \in Seq(Node) /\ DOMAIN path = 1..l /\ n \in todo[l + 1] /\ n \in GraphNodes
    BY <1>1, TopFacts
  <1>3. /\ Remaining(n) \in Seq(SUBSET Node) /\ Len(Remaining(n)) = l + 1
        /\ \A k \in 1..(l + 1) : Remaining(n)[k] = IF k = l + 1 THEN todo[k] \ {n} ELSE todo[k]
    BY <1>1, <1>2, RemainingFacts
  <1>4. Targets(n) \in SUBSET Node
    BY <1>1, GraphFacts
  <1>5. /\ todo' \in Seq(SUBSET Node) /\ Len(todo') = l + 2
        /\ \A k \in 1..(l + 1) : todo'[k] = Remaining(n)[k]
        /\ todo'[l + 2] = Targets(n)
    <2>1. /\ todo' \in Seq(SUBSET Node) /\ Len(todo') = Len(Remaining(n)) + 1
          /\ \A k \in 1..Len(Remaining(n)) : todo'[k] = Remaining(n)[k]
          /\ todo'[Len(Remaining(n)) + 1] = Targets(n)
      BY <1>1, <1>3, <1>4, AppendFacts
    <2>. QED  BY <1>2, <1>3, <2>1
  <1>6. /\ path' \in Seq(Node) /\ Len(path') = l + 1 /\ DOMAIN path' = 1..(l + 1)
        /\ \A k \in 1..l : path'[k] = path[k]
        /\ path'[l + 1] = n
    <2>1. /\ path' \in Seq(Node) /\ Len(path') = l + 1
          /\ \A k \in 1..l : path'[k] = path[k]
          /\ path'[l + 1] = n
      BY <1>1, <1>2, AppendFacts
    <2>. QED  BY <2>1
  <1>7. GraphNodes' = GraphNodes /\ \A m : Targets(m)' = Targets(m)
    BY <1>1 DEF GraphNodes, Targets
  <1>8. SearchTypeOK'
    BY <1>1, <1>5, <1>6 DEF SearchTypeOK
  <1>. HIDE DEF l
  <1>9. CallsArePath'
    <2>1. Len(todo)' = Len(path)' + 1
      BY <1>2, <1>5, <1>6
    <2>2. visiting' = {path'[k] : k \in DOMAIN path'}
      <3>1. visiting = {path[k] : k \in 1..l} /\ visiting' = visiting \cup {n}
        BY <1>1, <1>2 DEF CallsArePath
      <3>2. {path'[k] : k \in 1..(l + 1)} = {path'[k] : k \in 1..l} \cup {path'[l + 1]}
        BY <1>2
      <3>3. {path'[k] : k \in 1..l} = {path[k] : k \in 1..l}
        BY <1>6
      <3>. QED  BY <1>6, <3>1, <3>2, <3>3
    <2>3. visiting' \cap visited' = {}
      BY <1>1 DEF CallsArePath
    <2>4. ASSUME NEW j \in DOMAIN path', NEW k \in DOMAIN path', path'[j] = path'[k]
          PROVE  j = k
      <3>1. \A i \in 1..l : path[i] # n
        BY <1>1, <1>2 DEF CallsArePath
      <3>. QED  BY <1>1, <1>2, <1>6, <2>4, <3>1 DEF CallsArePath
    <2>5. ASSUME NEW k \in 1..(Len(path') - 1)
          PROVE  path'[k + 1] \in Targets(path'[k])
      <3>1. CASE k < l
        <4>1. k \in 1..(l - 1) /\ path'[k + 1] = path[k + 1] /\ path'[k] = path[k]
          BY <1>2, <1>6, <3>1
        <4>. QED  BY <1>1, <4>1 DEF CallsArePath, l
      <3>2. CASE k = l
        <4>1. l \in 1..l
          BY <1>2, <1>6, <3>2
        <4>2. todo[l + 1] \subseteq Targets(path[l])
          BY <1>1, <4>1 DEF NothingForgotten, l
        <4>. QED  BY <1>2, <1>6, <3>2, <4>1, <4>2
      <3>. QED  BY <1>2, <1>6, <3>1, <3>2
    <2>. QED  BY <1>7, <2>1, <2>2, <2>3, <2>4, <2>5 DEF CallsArePath
  <1>10. NothingForgotten'
    <2>1. ASSUME NEW k \in 1..(l + 1)
          PROVE  /\ todo'[k + 1] \subseteq Targets(path'[k])
                 /\ Targets(path'[k]) \ todo'[k + 1] \subseteq
                      visited \cup (IF k < l + 1 THEN {path'[k + 1]} ELSE {})
      <3>1. CASE k = l + 1
        BY <1>2, <1>5, <1>6, <3>1
      <3>2. CASE k = l
        <4>1. k \in 1..l /\ k + 1 = l + 1
          BY <3>2
        <4>2. /\ todo[k + 1] \subseteq Targets(path[k])
              /\ Targets(path[k]) \ todo[k + 1] \subseteq visited
          BY <1>1, <1>2, <3>2, <4>1 DEF NothingForgotten, l
        <4>3. todo'[k + 1] = todo[k + 1] \ {n} /\ path'[k] = path[k] /\ path'[k + 1] = n /\ k < l + 1
          BY <1>2, <1>3, <1>5, <1>6, <4>1
        <4>. QED  BY <4>2, <4>3
      <3>3. CASE k < l
        <4>1. k \in 1..l /\ k + 1 \in 1..l
          BY <1>2, <3>3
        <4>2. /\ todo[k + 1] \subseteq Targets(path[k])
              /\ Targets(path[k]) \ todo[k + 1] \subseteq visited \cup {path[k + 1]}
          BY <1>1, <1>2, <3>3, <4>1 DEF NothingForgotten, l
        <4>3. todo'[k + 1] = todo[k + 1] /\ path'[k] = path[k] /\ path'[k + 1] = path[k + 1]
          BY <1>2, <1>3, <1>5, <1>6, <3>3, <4>1
        <4>. QED  BY <1>2, <3>3, <4>2, <4>3
      <3>. QED  BY <1>2, <3>1, <3>2, <3>3
    <2>2. path' # <<>> /\ todo'[1] \subseteq GraphNodes
          /\ GraphNodes \ todo'[1] \subseteq visited \cup {path'[1]}
      <3>1. path' # <<>>
        BY <1>2, <1>6
      <3>2. /\ todo[1] \subseteq GraphNodes
            /\ GraphNodes \ todo[1] \subseteq visited \cup (IF path = <<>> THEN {} ELSE {path[1]})
        BY <1>1 DEF NothingForgotten
      <3>3. CASE l = 0
        <4>1. path = <<>> /\ todo'[1] = todo[1] \ {n} /\ path'[1] = n
          BY <1>2, <1>3, <1>5, <1>6, <3>3, EmptySeq DEF l
        <4>. QED  BY <3>1, <3>2, <4>1
      <3>4. CASE l > 0
        <4>1. path # <<>> /\ todo'[1] = todo[1] /\ path'[1] = path[1]
          BY <1>2, <1>3, <1>5, <1>6, <3>4 DEF l
        <4>. QED  BY <3>1, <3>2, <4>1
      <3>. QED  BY <1>2, <3>3, <3>4
    <2>3. \A k \in 1..Len(path)' :
             /\ (todo[k + 1] \subseteq Targets(path[k]))'
             /\ (Targets(path[k]) \ todo[k + 1] \subseteq
                   visited \cup (IF k < Len(path) THEN {path[k + 1]} ELSE {}))'
      <3>1. Len(path') = l + 1 /\ visited' = visited /\ edges' = edges
        BY <1>1, <1>6
      <3>. QED  BY <2>1, <3>1 DEF Targets
    <2>. QED  BY <1>1, <1>7, <2>2, <2>3 DEF NothingForgotten
  <1>11. VisitedInOrder' /\ VerdictIsRight'
    <2>1. VisitedInOrder'
      BY <1>1, <1>2, <1>7 DEF VisitedInOrder
    <2>2. VerdictIsRight'
      BY <1>1, <1>7, Zenon DEF VerdictIsRight, IsCycle
    <2>. QED  BY <2>1, <2>2
  <1>. QED  BY <1>8, <1>9, <1>10, <1>11 DEF SearchInv

\* A call returns: its node gets the highest rank, its targets have lower ones.
LEMMA ReturnKeeps ==
    ASSUME SearchInv, Return
    PROVE  SearchInv'
  <1>. DEFINE l == Len(path)
              n == Top(path)
              card == Cardinality(visited)
  <1>1. /\ SearchTypeOK /\ CallsArePath /\ NothingForgotten /\ VisitedInOrder /\ VerdictIsRight
        /\ search = "running" /\ Len(todo) > 1 /\ Top(todo) = {}
        /\ path' = Pop(path) /\ todo' = Pop(todo)
        /\ visiting' = visiting \ {n} /\ visited' = visited \cup {n}
        /\ rank' = [m \in visited' |-> IF m \in visited THEN rank[m] ELSE card]
        /\ UNCHANGED <<edges, cycle, search>>
    BY Zenon DEF SearchInv, Return
  <1>2. /\ l \in Nat /\ Len(todo) = l + 1 /\ Len(todo) > 0 /\ todo[l + 1] = {}
        /\ path \in Seq(Node) /\ todo \in Seq(SUBSET Node) /\ DOMAIN path = 1..l
    BY <1>1, TopFacts
  <1>3. l > 0 /\ Len(path) > 0
    BY <1>1, <1>2
  <1>4. n = path[l] /\ n \in Node /\ n \in visiting /\ n \notin visited
    <2>1. n = path[l] /\ l \in 1..l
      BY <1>2, <1>3 DEF Top
    <2>2. path[l] \in visiting
      BY <1>1, <1>2, <2>1 DEF CallsArePath
    <2>. QED  BY <1>1, <2>1, <2>2 DEF CallsArePath, SearchTypeOK
  <1>. HIDE DEF n
  <1>5. /\ path' \in Seq(Node) /\ Len(path') = l - 1
        /\ \A k \in 1..(l - 1) : path'[k] = path[k]
    BY <1>1, <1>2, <1>3, PopFacts
  <1>6. /\ todo' \in Seq(SUBSET Node) /\ Len(todo') = l
        /\ \A k \in 1..l : todo'[k] = todo[k]
    <2>1. /\ Pop(todo) \in Seq(SUBSET Node) /\ Len(Pop(todo)) = Len(todo) - 1
          /\ \A k \in 1..(Len(todo) - 1) : Pop(todo)[k] = todo[k]
      BY <1>2, PopFacts
    <2>. HIDE DEF l
    <2>. QED  BY <1>1, <1>2, <2>1
  <1>7. DOMAIN path' = 1..(l - 1)
    BY <1>5
  <1>8. GraphNodes' = GraphNodes /\ \A m : Targets(m)' = Targets(m)
    BY <1>1 DEF GraphNodes, Targets
  <1>9. card \in Nat /\ Cardinality(visited') = card + 1
    <2>1. IsFiniteSet(visited) /\ card \in Nat
      BY <1>1, FiniteNodes DEF SearchTypeOK
    <2>. QED  BY <1>1, <1>4, <2>1, FS_AddElement
  <1>. HIDE DEF card, l
  <1>10. SearchTypeOK'
    <2>1. rank' \in [visited' -> Nat]
      BY <1>1, <1>9 DEF SearchTypeOK
    <2>. QED  BY <1>1, <1>4, <1>5, <1>6, <2>1 DEF SearchTypeOK
  <1>11. CallsArePath'
    <2>1. Len(todo)' = Len(path)' + 1
      BY <1>2, <1>5, <1>6
    <2>2. visiting' = {path'[k] : k \in DOMAIN path'}
      <3>1. visiting = {path[k] : k \in 1..l}
        BY <1>1, <1>2 DEF CallsArePath
      <3>2. \A k \in 1..(l - 1) : path[k] # n
        BY <1>1, <1>2, <1>3, <1>4 DEF CallsArePath
      <3>3. visiting' = {path[k] : k \in 1..(l - 1)}
        BY <1>1, <1>2, <1>3, <1>4, <3>1, <3>2
      <3>. QED  BY <1>5, <1>7, <3>3
    <2>3. visiting' \cap visited' = {}
      BY <1>1 DEF CallsArePath
    <2>4. ASSUME NEW j \in DOMAIN path', NEW k \in DOMAIN path', path'[j] = path'[k]
          PROVE  j = k
      BY <1>1, <1>2, <1>5, <1>7, <2>4 DEF CallsArePath
    <2>5. ASSUME NEW k \in 1..(Len(path') - 1)
          PROVE  path'[k + 1] \in Targets(path'[k])
      <3>1. k \in 1..(l - 1) /\ k + 1 \in 1..(l - 1)
        BY <1>2, <1>5
      <3>. QED  BY <1>1, <1>5, <3>1 DEF CallsArePath, l
    <2>. QED  BY <1>8, <2>1, <2>2, <2>3, <2>4, <2>5 DEF CallsArePath
  <1>12. NothingForgotten'
    <2>1. ASSUME NEW k \in 1..(l - 1)
          PROVE  /\ todo'[k + 1] \subseteq Targets(path'[k])
                 /\ Targets(path'[k]) \ todo'[k + 1] \subseteq
                      visited' \cup (IF k < l - 1 THEN {path'[k + 1]} ELSE {})
      <3>1. /\ k \in 1..l /\ k < l /\ k + 1 \in 1..l
            /\ todo'[k + 1] = todo[k + 1] /\ path'[k] = path[k]
        BY <1>2, <1>5, <1>6
      <3>2. /\ todo[k + 1] \subseteq Targets(path[k])
            /\ Targets(path[k]) \ todo[k + 1] \subseteq visited \cup {path[k + 1]}
        BY <1>1, <3>1 DEF NothingForgotten, l
      <3>3. CASE k = l - 1
        <4>1. path[k + 1] = n
          BY <1>2, <1>4, <3>3
        <4>. QED  BY <1>1, <3>1, <3>2, <4>1
      <3>4. CASE k < l - 1
        <4>1. path'[k + 1] = path[k + 1]
          BY <1>2, <1>5, <3>4
        <4>. QED  BY <1>1, <3>1, <3>2, <3>4, <4>1
      <3>. QED  BY <1>2, <3>3, <3>4
    <2>2. /\ todo'[1] \subseteq GraphNodes
          /\ GraphNodes \ todo'[1] \subseteq visited' \cup (IF path' = <<>> THEN {} ELSE {path'[1]})
      <3>1. todo'[1] = todo[1] /\ path # <<>>
        BY <1>2, <1>3, <1>6 DEF l
      <3>2. /\ todo[1] \subseteq GraphNodes
            /\ GraphNodes \ todo[1] \subseteq visited \cup {path[1]}
        BY <1>1, <3>1 DEF NothingForgotten
      <3>3. CASE l = 1
        BY <1>1, <1>4, <3>1, <3>2, <3>3
      <3>4. CASE l > 1
        <4>1. path' # <<>> /\ path'[1] = path[1]
          BY <1>2, <1>5, <3>4
        <4>. QED  BY <1>1, <3>1, <3>2, <4>1
      <3>. QED  BY <1>2, <1>3, <3>3, <3>4
    <2>3. \A k \in 1..Len(path)' :
             /\ (todo[k + 1] \subseteq Targets(path[k]))'
             /\ (Targets(path[k]) \ todo[k + 1] \subseteq
                   visited \cup (IF k < Len(path) THEN {path[k + 1]} ELSE {}))'
      BY <1>1, <1>5, <2>1 DEF Targets
    <2>. QED  BY <1>8, <2>2, <2>3 DEF NothingForgotten
  <1>13. VisitedInOrder'
    <2>1. visiting' \cup visited' \subseteq GraphNodes
      BY <1>1, <1>4 DEF VisitedInOrder
    <2>2. Targets(n) \subseteq visited
      <3>1. l \in 1..l /\ ~(l < l)
        BY <1>2, <1>3
      <3>2. Targets(path[l]) \ todo[l + 1] \subseteq visited
        BY <1>1, <3>1 DEF NothingForgotten, l
      <3>. QED  BY <1>2, <1>4, <3>2
    <2>3. /\ rank'[n] = card
          /\ \A m \in visited : rank'[m] = rank[m] /\ rank[m] \in Nat /\ rank[m] < card
      BY <1>1, <1>4 DEF VisitedInOrder, SearchTypeOK, card
    <2>4. \A m \in visited' : rank'[m] < Cardinality(visited')
      BY <1>1, <1>9, <2>3
    <2>5. ASSUME NEW k \in visited', NEW m \in Targets(k)
          PROVE  m \in visited' /\ rank'[m] < rank'[k]
      <3>1. CASE k = n
        BY <1>1, <2>2, <2>3, <2>5, <3>1
      <3>2. CASE k \in visited
        BY <1>1, <2>3, <2>5, <3>2 DEF VisitedInOrder
      <3>. QED  BY <1>1, <3>1, <3>2
    <2>. QED  BY <1>8, <2>1, <2>4, <2>5 DEF VisitedInOrder
  <1>14. VerdictIsRight'
    BY <1>1, <1>8, Zenon DEF VerdictIsRight, IsCycle
  <1>. QED  BY <1>10, <1>11, <1>12, <1>13, <1>14 DEF SearchInv

LEMMA NoCycleKeeps ==
    ASSUME SearchInv, NoCycle
    PROVE  SearchInv'
  <1>1. /\ SearchTypeOK /\ CallsArePath /\ NothingForgotten /\ VisitedInOrder /\ VerdictIsRight
        /\ search' = "over" /\ todo = <<{}>>
        /\ UNCHANGED <<edges, visiting, visited, path, todo, cycle, rank>>
    BY Zenon DEF SearchInv, NoCycle
  <1>2. path = <<>>
    <2>1. Len(path) = 0
      BY <1>1, TopFacts
    <2>. QED  BY <2>1, TopFacts, EmptySeq
  <1>3. GraphNodes = visited
    BY <1>1, <1>2 DEF NothingForgotten, VisitedInOrder
  <1>4. Acyclic
    BY <1>1, <1>3, RankedIsAcyclic
  <1>5. GraphNodes' = GraphNodes /\ (\A m : Targets(m)' = Targets(m)) /\ Acyclic' = Acyclic
    BY <1>1 DEF GraphNodes, Targets, Acyclic
  <1>6. SearchTypeOK'
    BY <1>1 DEF SearchTypeOK
  <1>7. CallsArePath' /\ NothingForgotten' /\ VisitedInOrder'
    BY <1>1, <1>5 DEF CallsArePath, NothingForgotten, VisitedInOrder
  <1>8. VerdictIsRight'
    BY <1>1, <1>3, <1>4, <1>5, Zenon DEF VerdictIsRight, IsCycle
  <1>. QED  BY <1>6, <1>7, <1>8 DEF SearchInv

LEMMA SearchStepKeeps == SearchInv /\ SearchStep => SearchInv'
  BY VisitOpenKeeps, VisitAgainKeeps, VisitNewKeeps, ReturnKeeps, NoCycleKeeps DEF SearchStep

LEMMA SearchIdle == SearchInv /\ UNCHANGED searchVars => SearchInv'
  <1> SUFFICES ASSUME SearchInv, UNCHANGED searchVars PROVE SearchInv'
    OBVIOUS
  <1>1. UNCHANGED <<edges, visiting, visited, path, todo, cycle, search, rank>>
    BY DEF searchVars
  <1>2. GraphNodes' = GraphNodes /\ (\A m : Targets(m)' = Targets(m)) /\ Acyclic' = Acyclic
    BY <1>1 DEF GraphNodes, Targets, Acyclic
  <1>3. SearchTypeOK'
    BY <1>1 DEF SearchInv, SearchTypeOK
  <1>4. CallsArePath' /\ NothingForgotten' /\ VisitedInOrder'
    BY <1>1, <1>2 DEF SearchInv, CallsArePath, NothingForgotten, VisitedInOrder
  <1>5. VerdictIsRight'
    BY <1>1, <1>2, Zenon DEF SearchInv, VerdictIsRight, IsCycle
  <1>. QED  BY <1>3, <1>4, <1>5 DEF SearchInv

-----------------------------------------------------------------------------
(* The oracles that only read *)

\* The tree is one of those the oracle may be run on.
TreeIsKnown ==
    /\ checkId \in StaticIds => tree \in Tree[checkId]
    /\ checkId \in StaticIds \/ checkId = "oracle.multi-instance"

\* What the steps of main have established about the verdict.
ArchitectureSteps ==
    checkId = "oracle.architecture" =>
        /\ phase = "scan" => result = NoExit /\ search = "idle"
        /\ phase = "search" \/ result = 0 => ~Forbidden(tree) /\ edges = Dependencies(tree.files)
        /\ phase = "search" => result = NoExit /\ search \in {"running", "over"}
        /\ result = 0 => phase = "done" /\ search = "over" /\ cycle = <<>>
        /\ result = 1 => \/ ~ArchitectureReadable(tree) \/ Forbidden(tree)
                         \/ IsCycle(cycle)

OtherSteps ==
    /\ phase = "search" => checkId = "oracle.architecture"
    /\ result = 0 => /\ checkId = "oracle.api-contract" => ApiContractHolds(tree)
                     /\ checkId = "oracle.migration-fresh" => MigrationSequenceHolds(tree)

ScanInv == SearchInv /\ TreeIsKnown /\ ArchitectureSteps /\ OtherSteps

LEMMA InitScan == Init => ScanInv
  <1> SUFFICES ASSUME Init PROVE ScanInv
    OBVIOUS
  <1>1. SearchInv
    BY InitSearch DEF Init
  <1>2. TreeIsKnown
    BY TreeAssumption DEF Init, TreeIsKnown
  <1>3. result = NoExit /\ search = "idle" /\ (phase = "scan" \/ checkId = "oracle.multi-instance")
    BY DEF Init, SearchInit
  <1>4. ArchitectureSteps
    BY <1>3 DEF Init, ArchitectureSteps, NoExit
  <1>5. OtherSteps
    BY <1>3 DEF Init, OtherSteps, NoExit
  <1>. QED  BY <1>1, <1>2, <1>4, <1>5 DEF ScanInv

LEMMA ScanArchitectureKeeps ==
    ASSUME ScanInv, ScanArchitecture
    PROVE  ScanInv'
  <1>1. /\ SearchInv /\ TreeIsKnown /\ ArchitectureSteps /\ OtherSteps
        /\ UNCHANGED <<checkId, tree>> /\ checkId = "oracle.architecture" /\ phase = "scan"
    BY DEF ScanInv, ScanArchitecture
  <1>2. TreeIsKnown'  /\ OtherSteps'
    BY <1>1 DEF TreeIsKnown, OtherSteps
  <1>3. CASE ~ArchitectureReadable(tree) \/ Forbidden(tree)
    <2>1. Answer(FALSE) /\ UNCHANGED searchVars
      BY <1>3 DEF ScanArchitecture
    <2>2. SearchInv'
      BY <1>1, <2>1, SearchIdle
    <2>3. phase' = "done" /\ result' = 1
      BY <2>1 DEF Answer
    <2>4. ArchitectureSteps'
      BY <1>1, <1>3, <2>3 DEF ArchitectureSteps
    <2>. QED  BY <1>2, <2>2, <2>4 DEF ScanInv
  <1>4. CASE ArchitectureReadable(tree) /\ ~Forbidden(tree)
    <2>1. StartSearch(Dependencies(tree.files)) /\ phase' = "search" /\ UNCHANGED result
      BY <1>4 DEF ScanArchitecture
    <2>2. Dependencies(tree.files) \in SUBSET (Node \X Node)
      BY <1>1, TreeAssumption DEF TreeIsKnown
    <2>3. SearchInv'
      BY <1>1, <2>1, <2>2, StartSearchKeeps
    <2>4. search' = "running" /\ edges' = Dependencies(tree.files)
      BY <2>1 DEF StartSearch
    <2>5. ArchitectureSteps'
      BY <1>1, <1>4, <2>1, <2>4 DEF ArchitectureSteps, NoExit
    <2>. QED  BY <1>2, <2>3, <2>5 DEF ScanInv
  <1>. QED  BY <1>3, <1>4

LEMMA SearchLayersKeeps ==
    ASSUME ScanInv, SearchLayers
    PROVE  ScanInv'
  <1>1. /\ SearchInv /\ TreeIsKnown /\ ArchitectureSteps /\ OtherSteps
        /\ UNCHANGED <<checkId, tree, phase, result>> /\ phase = "search" /\ SearchStep
    BY DEF ScanInv, SearchLayers, staticVars
  <1>2. SearchInv'
    BY <1>1, SearchStepKeeps
  <1>3. edges' = edges /\ search' \in {"running", "over"}
    BY <1>1 DEF SearchStep, VisitOpen, VisitAgain, VisitNew, Return, NoCycle
  <1>4. ArchitectureSteps'
    BY <1>1, <1>3 DEF ArchitectureSteps, NoExit
  <1>. QED  BY <1>1, <1>2, <1>4 DEF ScanInv, TreeIsKnown, OtherSteps

LEMMA SearchReturnsKeeps ==
    ASSUME ScanInv, SearchReturns
    PROVE  ScanInv'
  <1>1. /\ SearchInv /\ TreeIsKnown /\ ArchitectureSteps /\ OtherSteps
        /\ UNCHANGED <<checkId, tree>> /\ phase = "search" /\ search = "over"
        /\ UNCHANGED searchVars /\ phase' = "done" /\ result' = IF cycle = <<>> THEN 0 ELSE 1
    BY DEF ScanInv, SearchReturns, Answer
  <1>2. SearchInv'
    BY <1>1, SearchIdle
  <1>3. cycle # <<>> => IsCycle(cycle)
    BY <1>1 DEF SearchInv, VerdictIsRight
  <1>4. UNCHANGED <<edges, search, cycle>> /\ IsCycle(cycle)' = IsCycle(cycle)
    BY <1>1 DEF searchVars, IsCycle, Targets
  <1>5. ArchitectureSteps'
    BY <1>1, <1>3, <1>4 DEF ArchitectureSteps, NoExit
  <1>. QED  BY <1>1, <1>2, <1>5 DEF ScanInv, TreeIsKnown, OtherSteps

LEMMA ScanTreeKeeps ==
    ASSUME ScanInv, ScanTree
    PROVE  ScanInv'
  <1>1. /\ SearchInv /\ TreeIsKnown /\ ArchitectureSteps /\ OtherSteps
        /\ UNCHANGED <<checkId, tree, searchVars>> /\ checkId # "oracle.architecture"
        /\ phase' = "done"
        /\ result' = 0 => /\ checkId = "oracle.api-contract" => ApiContractHolds(tree)
                          /\ checkId = "oracle.migration-fresh" => MigrationSequenceHolds(tree)
    BY DEF ScanInv, ScanTree, Answer
  <1>2. SearchInv'
    BY <1>1, SearchIdle
  <1>3. TreeIsKnown' /\ ArchitectureSteps'
    BY <1>1 DEF TreeIsKnown, ArchitectureSteps
  <1>4. OtherSteps'
    <2>1. phase' # "search" /\ checkId' = checkId /\ tree' = tree
      BY <1>1
    <2>2. ASSUME result' = 0
          PROVE  /\ checkId' = "oracle.api-contract" => ApiContractHolds(tree')
                 /\ checkId' = "oracle.migration-fresh" => MigrationSequenceHolds(tree')
      <3>1. /\ checkId = "oracle.api-contract" => ApiContractHolds(tree)
            /\ checkId = "oracle.migration-fresh" => MigrationSequenceHolds(tree)
        BY <1>1, <2>2
      <3>. QED  BY <2>1, <3>1, Zenon
    <2>. QED  BY <2>1, <2>2, Zenon DEF OtherSteps
  <1>. QED  BY <1>2, <1>3, <1>4 DEF ScanInv

LEMMA ScanAlways == Spec => []ScanInv
  <1>1. ScanInv /\ [Next]_vars => ScanInv'
    <2> SUFFICES ASSUME ScanInv, [Next]_vars PROVE ScanInv'
      OBVIOUS
    <2>1. CASE UNCHANGED <<searchVars, staticVars>>
      <3>1. SearchInv'
        BY <2>1, SearchIdle DEF ScanInv
      <3>2. IsCycle(cycle)' = IsCycle(cycle)
        BY <2>1 DEF searchVars, IsCycle, Targets
      <3>. QED  BY <2>1, <3>1, <3>2
           DEF ScanInv, TreeIsKnown, ArchitectureSteps, OtherSteps, searchVars, staticVars
    <2>2. CASE RunMultiInstance \/ UNCHANGED vars
      BY <2>1, <2>2 DEF RunMultiInstance, vars
    <2>. QED  BY <2>2, ScanArchitectureKeeps, SearchLayersKeeps, SearchReturnsKeeps, ScanTreeKeeps DEF Next
  <1>. QED  BY <1>1, InitScan, PTL DEF Spec

\* On every graph of layers the depth first search ends with a simple cycle or
\* with the proof that there is none (_find_cycle).
THEOREM SearchInvariant == Spec => []SearchInv
  <1>1. ScanInv => SearchInv
    BY DEF ScanInv
  <1>. QED  BY <1>1, ScanAlways, PTL

-----------------------------------------------------------------------------
(* What the verdict says about imports *)

\* A layer is a prefix of its package, and a rule about layers, which is its
\* own layer, is a prefix of a package when it is one of the package's layer.
LEMMA PrefixOf ==
    ASSUME NEW S, NEW p \in Seq(S), NEW q \in Seq(S)
    PROVE  IsPrefix(q, p) <=> Len(q) <= Len(p) /\ \A k \in 1..Len(q) : q[k] = p[k]
  <1>. DEFINE l == Len(q)
              a == SubSeq(q, 1, l)
              b == SubSeq(p, 1, l)
  <1>1. l \in Nat /\ l \in Int /\ 1 \in Int /\ Len(p) \in Nat
    OBVIOUS
  <1>. SUFFICES ASSUME l <= Len(p)
                PROVE  a = b <=> \A k \in 1..l : q[k] = p[k]
    BY DEF IsPrefix
  <1>2. \A k \in 1..l : q[k] \in S /\ p[k] \in S
    <2>1. \A k \in 1..Len(p) : p[k] \in S
      BY ElementOfSeq
    <2>2. \A k \in 1..Len(q) : q[k] \in S
      BY ElementOfSeq
    <2>. HIDE DEF l
    <2>. QED  BY <1>1, <2>1, <2>2 DEF l
  <1>. HIDE DEF l
  <1>3. /\ a \in Seq(S) /\ Len(a) = (IF 1 <= l THEN l - 1 + 1 ELSE 0)
        /\ \A k \in 1..(l - 1 + 1) : a[k] = q[1 + k - 1]
    BY <1>1, <1>2, SubSeqProperties
  <1>4. /\ b \in Seq(S) /\ Len(b) = (IF 1 <= l THEN l - 1 + 1 ELSE 0)
        /\ \A k \in 1..(l - 1 + 1) : b[k] = p[1 + k - 1]
    BY <1>1, <1>2, SubSeqProperties
  <1>. HIDE DEF a, b
  <1>5. /\ Len(a) = l /\ Len(b) = l
        /\ \A k \in 1..l : a[k] = q[k] /\ b[k] = p[k]
    BY <1>1, <1>3, <1>4
  <1>6. a = b <=> \A k \in 1..l : a[k] = b[k]
    BY <1>3, <1>4, <1>5, SeqEqual
  <1>. QED  BY <1>5, <1>6

LEMMA LayerFacts ==
    ASSUME NEW p \in Seq(STRING)
    PROVE  /\ Layer(p) \in Seq(STRING) /\ Len(Layer(p)) <= Len(p)
           /\ \A k \in 1..Len(Layer(p)) : Layer(p)[k] = p[k]
           /\ Len(Layer(p)) = IF p = <<>> THEN 0
                              ELSE IF p[1] \in {"domain", "infra"} /\ Len(p) >= 2 THEN 2 ELSE 1
  <1>1. Len(p) \in Nat /\ (p # <<>> => Len(p) > 0 /\ p[1] \in STRING /\ Head(p) = p[1])
    OBVIOUS
  <1>2. CASE p = <<>>
    BY <1>2 DEF Layer, External
  <1>3. CASE p # <<>> /\ p[1] \in {"domain", "infra"} /\ Len(p) >= 2
    <2>. DEFINE a == SubSeq(p, 1, 2)
    <2>1. Layer(p) = a
      BY <1>1, <1>3 DEF Layer
    <2>2. 1 \in Int /\ 2 \in Int /\ \A k \in 1..2 : p[k] \in STRING
      BY <1>1, <1>3
    <2>3. /\ a \in Seq(STRING) /\ Len(a) = (IF 1 <= 2 THEN 2 - 1 + 1 ELSE 0)
          /\ \A k \in 1..(2 - 1 + 1) : a[k] = p[1 + k - 1]
      BY <2>2, SubSeqProperties
    <2>. HIDE DEF a
    <2>4. Len(a) = 2 /\ \A k \in 1..2 : a[k] = p[k]
      BY <2>3
    <2>. QED  BY <1>1, <1>3, <2>1, <2>3, <2>4
  <1>4. CASE p # <<>> /\ ~(p[1] \in {"domain", "infra"} /\ Len(p) >= 2)
    <2>1. Layer(p) = <<p[1]>>
      BY <1>1, <1>4 DEF Layer
    <2>. QED  BY <1>1, <1>4, <2>1
  <1>. QED  BY <1>2, <1>3, <1>4

LEMMA RuleMatchesLayer ==
    ASSUME NEW p \in Seq(STRING), NEW q \in Seq(STRING), Layer(q) = q
    PROVE  LayerMatches(Layer(p), q) <=> IsPrefix(q, p)
  <1>. DEFINE l == Layer(p)
  <1>1. l \in Seq(STRING) /\ Len(l) <= Len(p) /\ \A k \in 1..Len(l) : l[k] = p[k]
    BY LayerFacts
  <1>2. Len(q) \in Nat /\ Len(p) \in Nat /\ Len(l) \in Nat
    BY <1>1
  <1>3. LayerMatches(l, q) <=> Len(q) <= Len(l) /\ \A k \in 1..Len(q) : q[k] = l[k]
    BY <1>1, PrefixOf DEF LayerMatches
  <1>4. IsPrefix(q, p) <=> Len(q) <= Len(p) /\ \A k \in 1..Len(q) : q[k] = p[k]
    BY PrefixOf
  <1>5. ASSUME Len(q) <= Len(p), \A k \in 1..Len(q) : q[k] = p[k]
        PROVE  Len(q) <= Len(l)
    <2>1. Len(q) = IF q = <<>> THEN 0 ELSE IF q[1] \in {"domain", "infra"} /\ Len(q) >= 2 THEN 2 ELSE 1
      BY LayerFacts
    <2>2. Len(l) = IF p = <<>> THEN 0 ELSE IF p[1] \in {"domain", "infra"} /\ Len(p) >= 2 THEN 2 ELSE 1
      BY LayerFacts
    <2>3. CASE Len(q) = 0
      BY <1>2, <2>3
    <2>4. CASE Len(q) > 0
      <3>1. q[1] = p[1] /\ p # <<>>
        BY <1>2, <1>5, <2>4
      <3>. HIDE DEF l
      <3>. QED  BY <1>2, <1>5, <2>1, <2>2, <2>4, <3>1
    <2>. QED  BY <1>2, <2>3, <2>4
  <1>. HIDE DEF l
  <1>6. (Len(q) <= Len(l) /\ \A k \in 1..Len(q) : q[k] = l[k])
          <=> (Len(q) <= Len(p) /\ \A k \in 1..Len(q) : q[k] = p[k])
    BY <1>1, <1>2, <1>5
  <1>. QED  BY <1>3, <1>4, <1>6 DEF l

\* The rules are about the imports, layer by layer or package by package.
LEMMA ForbiddenIsAgainst ==
    ASSUME ScanInv, checkId = "oracle.architecture"
    PROVE  Forbidden(tree) <=>
             \E f \in tree.files, r \in tree.rules : \E n \in MatchedImports(f) :
                IsPrefix(r.from, f.package) /\ IsPrefix(r.to, n)
  <1>1. checkId \in StaticIds /\ tree \in Tree["oracle.architecture"]
    BY DEF ScanInv, TreeIsKnown
  <1>2. /\ \A r \in tree.rules : /\ r.from \in Seq(STRING) /\ Layer(r.from) = r.from
                                 /\ r.to \in Seq(STRING) /\ Layer(r.to) = r.to
        /\ \A f \in tree.files : /\ f.package \in Seq(STRING)
                                 /\ \A n \in MatchedImports(f) : n \in Seq(STRING)
    BY <1>1, TreeAssumption
  <1>3. ASSUME NEW f \in tree.files, NEW r \in tree.rules, NEW n \in MatchedImports(f)
        PROVE  /\ LayerMatches(Layer(f.package), r.from) <=> IsPrefix(r.from, f.package)
               /\ LayerMatches(Layer(n), r.to) <=> IsPrefix(r.to, n)
    BY <1>2, <1>3, RuleMatchesLayer
  <1>4. Forbidden(tree) <=>
          \E f \in tree.files, r \in tree.rules : \E n \in MatchedImports(f) :
             LayerMatches(Layer(f.package), r.from) /\ LayerMatches(Layer(n), r.to)
    <2>1. \A d : d \in Dependencies(tree.files) <=>
             \E f \in tree.files : \E n \in MatchedImports(f) : d = <<Layer(f.package), Layer(n)>>
      BY DEF Dependencies
    <2>2. ASSUME NEW d \in Dependencies(tree.files), NEW r \in tree.rules,
                 LayerMatches(d[1], r.from), LayerMatches(d[2], r.to)
          PROVE  \E f \in tree.files : \E n \in MatchedImports(f) :
                    LayerMatches(Layer(f.package), r.from) /\ LayerMatches(Layer(n), r.to)
      <3>1. PICK f \in tree.files : \E n \in MatchedImports(f) : d = <<Layer(f.package), Layer(n)>>
        BY <2>1
      <3>2. PICK n \in MatchedImports(f) : d = <<Layer(f.package), Layer(n)>>
        BY <3>1
      <3>3. d[1] = Layer(f.package) /\ d[2] = Layer(n)
        BY <3>2
      <3>. QED  BY <2>2, <3>3, Zenon
    <2>3. ASSUME NEW f \in tree.files, NEW r \in tree.rules, NEW n \in MatchedImports(f),
                 LayerMatches(Layer(f.package), r.from), LayerMatches(Layer(n), r.to)
          PROVE  \E d \in Dependencies(tree.files) : LayerMatches(d[1], r.from) /\ LayerMatches(d[2], r.to)
      <3>. DEFINE d == <<Layer(f.package), Layer(n)>>
      <3>1. d[1] = Layer(f.package) /\ d[2] = Layer(n)
        OBVIOUS
      <3>2. d \in Dependencies(tree.files)
        BY <2>1, Zenon
      <3>. HIDE DEF d
      <3>. QED  BY <2>3, <3>1, <3>2, Zenon
    <2>. QED  BY <2>2, <2>3, Zenon DEF Forbidden
  <1>. QED  BY <1>3, <1>4

\* A set of layers each of which imports another one of the set is a circle of
\* the graph that was searched.
LEMMA NoCircle ==
    ASSUME ScanInv, checkId = "oracle.architecture", result = 0,
           NEW S, S # {},
           \A l \in S : \E f \in tree.files : \E n \in MatchedImports(f) :
              Layer(f.package) = l /\ Layer(n) \in S \ {l}
    PROVE  FALSE
  <1>1. edges = Dependencies(tree.files) /\ search = "over" /\ cycle = <<>>
    BY DEF ScanInv, ArchitectureSteps
  <1>2. Acyclic /\ edges \subseteq Node \X Node
    BY <1>1 DEF ScanInv, SearchInv, VerdictIsRight, SearchTypeOK
  <1>3. ASSUME NEW l \in S
        PROVE  l \in Node /\ \E m \in S : m \in Targets(l)
    <2>1. PICK f \in tree.files : \E n \in MatchedImports(f) : Layer(f.package) = l /\ Layer(n) \in S \ {l}
      BY <1>3
    <2>2. PICK n \in MatchedImports(f) : Layer(f.package) = l /\ Layer(n) \in S \ {l}
      BY <2>1
    <2>3. <<l, Layer(n)>> \in Dependencies(tree.files)
      BY <2>2 DEF Dependencies
    <2>4. l \in Node /\ Layer(n) \in Node /\ Layer(n) # l /\ <<l, Layer(n)>> \in edges
      BY <1>1, <1>2, <2>2, <2>3
    <2>. QED  BY <2>2, <2>4 DEF Targets
  <1>4. PICK l \in S : Targets(l) \cap S = {}
    BY <1>2, <1>3 DEF Acyclic
  <1>. QED  BY <1>3, <1>4

\* The verdict of oracle.architecture is right in both directions, for every
\* tree whose rules name layers (validate_architecture).
THEOREM ArchitectureVerdict == Spec => []ArchitectureVerdictIsRight
  <1>1. ScanInv => ArchitectureVerdictIsRight
    <2> SUFFICES ASSUME ScanInv, checkId = "oracle.architecture"
                 PROVE  ArchitectureVerdictIsRight
      BY DEF ArchitectureVerdictIsRight
    <2>. DEFINE against == \E f \in tree.files, r \in tree.rules : \E n \in MatchedImports(f) :
                             IsPrefix(r.from, f.package) /\ IsPrefix(r.to, n)
                circle == \E S \in (SUBSET {Layer(f.package) : f \in tree.files}) \ {{}} :
                            \A l \in S : \E f \in tree.files : \E n \in MatchedImports(f) :
                               Layer(f.package) = l /\ Layer(n) \in S \ {l}
    <2>1. Forbidden(tree) <=> against
      BY ForbiddenIsAgainst
    <2>2. ASSUME result = 0, circle
          PROVE  FALSE
      <3>1. PICK S \in (SUBSET {Layer(f.package) : f \in tree.files}) \ {{}} :
                   \A l \in S : \E f \in tree.files : \E n \in MatchedImports(f) :
                      Layer(f.package) = l /\ Layer(n) \in S \ {l}
        BY <2>2
      <3>2. S # {}
        BY <3>1, Zenon
      <3>. QED  BY <2>2, <3>1, <3>2, NoCircle, Zenon
    <2>. HIDE DEF against, circle
    <2>3. result = 0 => ~against
      BY <2>1 DEF ScanInv, ArchitectureSteps
    <2>4. result = 1 => ~ArchitectureReadable(tree) \/ against \/ IsCycle(cycle)
      BY <2>1 DEF ScanInv, ArchitectureSteps
    <2>. QED  BY <2>2, <2>3, <2>4, Zenon DEF ArchitectureVerdictIsRight, against, circle
  <1>. QED  BY <1>1, ScanAlways, PTL

-----------------------------------------------------------------------------
(* The contract and the migrations *)

\* A nonempty finite set of numbers has a greatest element: a smallest set
\* without one would have a smaller one.
LEMMA GreatestNumber ==
    ASSUME NEW S \in SUBSET Nat, IsFiniteSet(S), S # {}
    PROVE  \E x \in S : \A y \in S : y <= x
  <1>. DEFINE HasNone(T) == T # {} /\ ~ \E x \in T : \A y \in T : y <= x
              sizes == {Cardinality(T) : T \in {U \in SUBSET S : HasNone(U)}}
  <1>. SUFFICES ASSUME HasNone(S) PROVE FALSE
    OBVIOUS
  <1>1. \A T \in SUBSET S : IsFiniteSet(T) /\ Cardinality(T) \in Nat
    BY FS_Subset, FS_CardinalityType
  <1>2. sizes \in SUBSET Nat /\ sizes # {}
    BY <1>1
  <1>3. PICK least \in sizes : \A k \in sizes : least <= k
    BY <1>2, LeastNumber
  <1>4. PICK T \in SUBSET S : HasNone(T) /\ Cardinality(T) = least
    BY <1>3
  <1>5. PICK x \in T : TRUE
    BY <1>4
  <1>. DEFINE U == T \ {x}
  <1>6. U \in SUBSET S /\ Cardinality(U) = least - 1 /\ least \in Nat
    BY <1>1, <1>4, FS_RemoveElement
  <1>7. ~HasNone(U)
    <2>1. HasNone(U) => Cardinality(U) \in sizes
      BY <1>6
    <2>. HIDE DEF sizes, HasNone
    <2>2. Cardinality(U) \notin sizes
      BY <1>3, <1>6
    <2>. QED  BY <2>1, <2>2
  <1>8. CASE U = {}
    <2>1. \A y \in T : y = x /\ y \in Nat
      BY <1>8
    <2>. QED  BY <1>4, <2>1
  <1>9. CASE U # {}
    <2>1. PICK m \in U : \A y \in U : y <= m
      BY <1>7, <1>9
    <2>2. m \in T /\ m \in Nat /\ x \in Nat /\ T = U \cup {x}
      OBVIOUS
    <2>3. \E z \in {m, x} : \A y \in T : y <= z
      BY <2>1, <2>2
    <2>. QED  BY <1>4, <2>2, <2>3
  <1>. QED  BY <1>8, <1>9

\* Different versions without a gap, starting with 1: k files have a version
\* of at most k.
LEMMA VersionsInOrder ==
    ASSUME NEW names \in Seq(Nat), names # <<>>,
           Cardinality(Range(names)) = Len(names), Range(names) = 1..Max(Range(names)),
           NEW k \in 1..Len(names)
    PROVE  Cardinality({j \in DOMAIN names : names[j] <= k}) = k
  <1>. DEFINE l == Len(names)
              R == Range(names)
              J == {j \in DOMAIN names : names[j] <= k}
              f == [j \in J |-> names[j]]
  <1>1. l \in Nat /\ l # 0 /\ DOMAIN names = 1..l /\ names \in [1..l -> Nat]
    BY LenProperties, EmptySeq
  <1>2. R = {names[j] : j \in 1..l} /\ R \in SUBSET Nat /\ R # {}
    BY <1>1 DEF Range
  <1>3. IsFiniteSet(1..l) /\ Cardinality(1..l) = l
    BY <1>1, FS_Interval
  <1>4. names \in Surjection(1..l, R)
    BY <1>1, <1>2 DEF Surjection
  <1>5. IsFiniteSet(R) /\ names \in Injection(1..l, R)
    BY <1>3, <1>4, FS_Surjection
  <1>6. Max(R) \in Nat /\ Max(R) \in R
    <2>1. \E x \in R : \A y \in R : x >= y
      <3>1. PICK x \in R : \A y \in R : y <= x
        BY <1>2, <1>5, GreatestNumber
      <3>2. \A y \in R : x \in Nat /\ y \in Nat
        BY <1>2
      <3>. HIDE DEF R
      <3>. QED  BY <3>1, <3>2
    <2>. QED  BY <1>2, <2>1 DEF Max
  <1>. HIDE DEF R
  <1>7. R = 1..l
    <2>1. Cardinality(1..Max(R)) = Max(R)
      BY <1>6, FS_Interval
    <2>2. R = 1..Max(R) /\ Cardinality(R) = l
      BY DEF R
    <2>. QED  BY <2>1, <2>2
  <1>8. IsFiniteSet(J)
    BY <1>1, <1>3, FS_Subset
  <1>9. \A i, j \in 1..l : names[i] = names[j] => i = j
    BY <1>1, <1>5 DEF Injection, IsInjective
  <1>10. f \in Surjection(J, 1..k)
    <2>1. \A j \in J : names[j] \in 1..k
      <3>1. \A j \in J : j \in 1..l /\ names[j] \in R /\ names[j] <= k
        BY <1>1 DEF Range, R
      <3>. HIDE DEF J
      <3>. QED  BY <1>1, <1>7, <3>1
    <2>2. ASSUME NEW v \in 1..k
          PROVE  \E j \in J : names[j] = v
      <3>1. v \in R /\ v <= k
        BY <1>1, <1>7
      <3>. QED  BY <1>1, <1>2, <3>1
    <2>. QED  BY <2>1, <2>2 DEF Surjection
  <1>11. f \in Injection(J, 1..k)
    <2>1. f \in [J -> 1..k]
      BY <1>10 DEF Surjection
    <2>2. \A i, j \in J : f[i] = f[j] => i = j
      BY <1>1, <1>9
    <2>. HIDE DEF f
    <2>. QED  BY <2>1, <2>2 DEF Injection, IsInjective
  <1>12. Cardinality(1..k) = Cardinality(J)
    BY <1>8, <1>10, <1>11, FS_Surjection
  <1>13. Cardinality(1..k) = k
    BY <1>1, FS_Interval
  <1>. QED  BY <1>12, <1>13

\* A contract whose keys differ and whose routes agree as a set agrees entry
\* by entry, controllers included.
LEMMA ContractEntries ==
    ASSUME NEW t, ApiContractHolds(t), DOMAIN t.endpoints \subseteq Nat,
           NEW k \in DOMAIN t.endpoints
    PROVE  [method |-> Upper(t.endpoints[k].method), path |-> t.endpoints[k].path,
            controller |-> t.endpoints[k].controller] \in ControllerRoutes(t.controllers)
  <1>. DEFINE routes == ControllerRoutes(t.controllers)
              key == Key(t.endpoints[k])
              ks == {j \in DOMAIN t.endpoints : Key(t.endpoints[j]) = key}
  <1>1. /\ \A i, j \in DOMAIN t.endpoints : Key(t.endpoints[i]) = Key(t.endpoints[j]) => i = j
        /\ {<<r.method, r.path>> : r \in routes} = {Key(t.endpoints[j]) : j \in DOMAIN t.endpoints}
        /\ \A r \in routes : ExpectedController(t, <<r.method, r.path>>) = r.controller
    BY DEF ApiContractHolds, EndpointsReadable, RoutesAgree
  <1>2. PICK r \in routes : <<r.method, r.path>> = key
    <2>1. key \in {<<r.method, r.path>> : r \in routes}
      BY <1>1
    <2>. QED  BY <2>1
  <1>3. ks = {k}
    BY <1>1
  <1>4. ExpectedController(t, key) = t.endpoints[k].controller
    <2>1. (CHOOSE i \in ks : \A j \in ks : j <= i) = k
      BY <1>3
    <2>. QED  BY <2>1 DEF ExpectedController
  <1>5. r.controller = t.endpoints[k].controller
    BY <1>1, <1>2, <1>4
  <1>6. r.method = Upper(t.endpoints[k].method) /\ r.path = t.endpoints[k].path
    BY <1>2 DEF Key
  <1>7. r = [method |-> r.method, path |-> r.path, controller |-> r.controller]
    <2>1. PICK c \in t.controllers :
            r \in {[method |-> Upper(m.method), path |-> c.base \o m.suffix, controller |-> c.class] :
                    m \in c.mappings}
      BY DEF ControllerRoutes
    <2>2. PICK m \in c.mappings :
            r = [method |-> Upper(m.method), path |-> c.base \o m.suffix, controller |-> c.class]
      BY <2>1
    <2>. QED  BY <2>2
  <1>. QED  BY <1>5, <1>6, <1>7

LEMMA EntriesOfRoutes ==
    ASSUME NEW t, ApiContractHolds(t), NEW r \in ControllerRoutes(t.controllers)
    PROVE  \E k \in DOMAIN t.endpoints : Key(t.endpoints[k]) = <<r.method, r.path>>
  <1>1. <<r.method, r.path>> \in {Key(t.endpoints[j]) : j \in DOMAIN t.endpoints}
    BY DEF ApiContractHolds, RoutesAgree
  <1>. QED  BY <1>1

\* Every contracted error is an entry of the enum.
LEMMA ContractErrors ==
    ASSUME NEW t, ApiContractHolds(t)
    PROVE  t.errors \subseteq t.enum
  BY DEF ApiContractHolds, ErrorsAgree

\* Exit 0 of the other oracles: the API contract holds entry by entry and
\* route by route, migrations are numbered 1, 2, 3, ... (validate_api_contract,
\* validate_migration_sequence).
THEOREM ScanIsSound == Spec => []ScanPassIsSound
  <1>1. ScanInv => ScanPassIsSound
    <2> SUFFICES ASSUME ScanInv, result = 0 PROVE ScanPassIsSound
      BY DEF ScanPassIsSound
    <2>1. ASSUME checkId = "oracle.api-contract"
          PROVE  /\ \A k \in DOMAIN tree.endpoints :
                       [method |-> Upper(tree.endpoints[k].method), path |-> tree.endpoints[k].path,
                        controller |-> tree.endpoints[k].controller] \in ControllerRoutes(tree.controllers)
                 /\ \A r \in ControllerRoutes(tree.controllers) : \E k \in DOMAIN tree.endpoints :
                       Key(tree.endpoints[k]) = <<r.method, r.path>>
                 /\ tree.errors \subseteq tree.enum
      <3>1. ApiContractHolds(tree)
        BY <2>1 DEF ScanInv, OtherSteps
      <3>2. DOMAIN tree.endpoints \subseteq Nat
        <4>1. tree.endpoints \in Seq([method : STRING, path : Seq(STRING), controller : STRING])
          BY <2>1, TreeAssumption DEF ScanInv, TreeIsKnown
        <4>. QED  BY <4>1
      <3>. QED  BY <3>1, <3>2, ContractEntries, EntriesOfRoutes, ContractErrors
    <2>2. ASSUME checkId = "oracle.migration-fresh", NEW k \in 1..Len(tree.names)
          PROVE  Cardinality({j \in DOMAIN tree.names : tree.names[j] <= k}) = k
      <3>1. MigrationSequenceHolds(tree)
        BY <2>2 DEF ScanInv, OtherSteps
      <3>2. tree.names \in Seq(Nat)
        BY <2>2, TreeAssumption DEF ScanInv, TreeIsKnown
      <3>. QED  BY <3>1, <3>2, VersionsInOrder DEF MigrationSequenceHolds
    <2>. QED  BY <2>1, <2>2, Zenon DEF ScanPassIsSound
  <1>. QED  BY <1>1, ScanAlways, PTL
=============================================================================
