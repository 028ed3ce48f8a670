----------------------------- MODULE StackOracle ----------------------------
(***************************************************************************)
(* oracle.multi-instance: run_multi_instance_oracle of harness-oracles.py  *)
(* starts the whole system with docker compose, runs the smoke test        *)
(* against it and removes it again.  Several evaluations may do so on one  *)
(* machine at once.  Every command may fail, run into its timeout or be    *)
(* interrupted, and an oracle may be killed between any two steps.         *)
(*                                                                         *)
(* The docker daemon is modelled from how the oracle uses it: a project    *)
(* owns containers, a container owns the host port it publishes, and a     *)
(* port has one owner.                                                     *)
(***************************************************************************)
EXTENDS Integers, Sequences, FiniteSets

CONSTANTS
    Oracle,     \* oracle processes, each with a compose project of its own
    Port,       \* ephemeral ports of the machine
    KafkaPort,  \* the port compose.yaml publishes for every project
    App,        \* app1 and app2 behind the gateway
    MaxFaults   \* bound: number of hanging commands, interrupts and kills

ASSUME StackAssumption == KafkaPort \notin Port /\ Cardinality(App) = 2 /\ MaxFaults \in Nat

VARIABLES
    at,         \* at[o]: the command oracle o runs next, or that it has ended
    chosen,     \* chosen[o]: the gateway port _free_port returned (DB_PORT, REDIS_PORT alike)
    code,       \* code[o]: the pending exit code of the try block
    exit,       \* exit[o]: the exit code of the process
    hung,       \* oracles whose current command hangs
    held,       \* held[o]: host ports the containers of o's project publish
    db,         \* db[o]: balance, orders and history rows in o's database
    upstreams,  \* upstreams[o]: instances that answered o's smoke test
    faults,     \* number of hanging commands, interrupts and kills so far
    excused     \* auxiliary: oracles that were killed or whose cleanup failed

stackVars == <<at, chosen, code, exit, hung, held, db, upstreams, faults, excused>>

-----------------------------------------------------------------------------
Smoke == {"fresh", "menus", "charge", "order", "popular", "verify"}
NoExit == -1
Killed == 137
Interrupted == 130
TimedOut == 124
NotFound == 127

FreshDb == [balance |-> 0, orders |-> 0, history |-> 0]
Bound == UNION {held[o] : o \in Oracle}

StackTypeOK ==
    /\ at \in [Oracle -> {"start", "config", "up", "down", "done"} \cup Smoke]
    /\ chosen \in [Oracle -> Port \cup {KafkaPort}]
    /\ code \in [Oracle -> {0, 1, TimedOut, NotFound, Interrupted}]
    /\ exit \in [Oracle -> {NoExit, 0, 1, TimedOut, Interrupted, Killed}]
    /\ hung \subseteq Oracle
    /\ held \in [Oracle -> SUBSET (Port \cup {KafkaPort})]
    /\ db \in [Oracle -> [balance : Int, orders : Nat, history : Nat]]
    /\ upstreams \in [Oracle -> SUBSET App]
    /\ faults \in 0..MaxFaults
    /\ excused \subseteq Oracle

StackInit(first) ==
    /\ at = [o \in Oracle |-> first]
    /\ chosen = [o \in Oracle |-> KafkaPort]
    /\ code = [o \in Oracle |-> 0]
    /\ exit = [o \in Oracle |-> NoExit]
    /\ hung = {} /\ faults = 0
    /\ held = [o \in Oracle |-> {}]
    /\ db = [o \in Oracle |-> FreshDb]
    /\ upstreams = [o \in Oracle |-> {}]
    /\ excused = {}

\* o is at step s and its command answers.
Runs(o, s) == at[o] = s /\ o \notin hung
Goto(o, next) == at' = [at EXCEPT ![o] = next]
\* return c inside the try block: finally comes next.
ReturnCode(o, c) == Goto(o, "down") /\ code' = [code EXCEPT ![o] = c]
Proceed(o, next) == Goto(o, next) /\ UNCHANGED code
\* The process ends; its variables and the files of the smoke test are gone,
\* save what a PASS is about.
Exits(o, c) ==
    /\ Goto(o, "done")
    /\ exit' = [exit EXCEPT ![o] = c]
    /\ code' = [code EXCEPT ![o] = 0]
    /\ upstreams' = [upstreams EXCEPT ![o] = IF c = 0 THEN @ ELSE {}]

-----------------------------------------------------------------------------
(* run_multi_instance_oracle *)

\* The files are there and the smoke test is executable, or OracleFailure.
\* _free_port binds a port and lets it go again.
RequireFiles(o) ==
    /\ at[o] = "start"
    /\ \/ /\ \E p \in Port \ Bound : chosen' = [chosen EXCEPT ![o] = p]
          /\ Goto(o, "config")
          /\ UNCHANGED <<exit, code, upstreams>>
       \/ /\ Exits(o, 1)
          /\ UNCHANGED chosen
    /\ UNCHANGED <<hung, held, db, faults, excused>>

\* docker compose config: touches nothing; 127 when there is no docker.
ComposeConfig(o) ==
    /\ Runs(o, "config")
    /\ \/ Proceed(o, "up")
       \/ \E c \in {1, NotFound} : ReturnCode(o, c)
    /\ UNCHANGED <<chosen, exit, hung, held, db, upstreams, faults, excused>>

Wanted(o) == {chosen[o], KafkaPort}
StartsPart(o) == \E part \in SUBSET (Wanted(o) \ Bound) : held' = [held EXCEPT ![o] = part]
StartsAll(o) ==
    /\ Wanted(o) \cap Bound = {}
    /\ held' = [held EXCEPT ![o] = Wanted(o)]

\* Mutant: the exit code of up is not looked at.
ComposeUpIgnored(o) ==
    /\ Runs(o, "up")
    /\ StartsAll(o) \/ StartsPart(o)
    /\ Proceed(o, "fresh")
    /\ UNCHANGED <<chosen, exit, hung, db, upstreams, faults, excused>>

\* docker compose up --wait: all containers healthy, or some of them started.
\* A port may have been taken since _free_port let go of it.
ComposeUp(o) ==
    /\ Runs(o, "up")
    /\ \/ StartsAll(o) /\ Proceed(o, "fresh")
       \/ StartsPart(o) /\ ReturnCode(o, 1)
    /\ UNCHANGED <<chosen, exit, hung, db, upstreams, faults, excused>>

-----------------------------------------------------------------------------
(* multi-instance-smoke.sh: the database is asked through the project's    *)
(* own container, requests go to whoever owns the gateway port             *)

Served(o) == {s \in Oracle : /\ chosen[s] = chosen[o]
                             /\ chosen[s] \in held[s]}

\* fail(), curl --fail and set -e: any step may end the script with exit 1.
SmokeFails(o) ==
    /\ at[o] \in Smoke /\ o \notin hung
    /\ ReturnCode(o, 1)
    /\ UNCHANGED <<chosen, exit, hung, held, db, upstreams, faults, excused>>

\* The database has to be fresh.
SmokeFresh(o) ==
    /\ Runs(o, "fresh")
    /\ IF held[o] # {} /\ db[o] = FreshDb
         THEN Proceed(o, "menus") ELSE ReturnCode(o, 1)
    /\ UNCHANGED <<chosen, exit, hung, held, db, upstreams, faults, excused>>

\* One request: the gateway picks an instance of its project, which changes
\* that project's database by the difference given.  The script goes on when
\* the answer, a part of the database, is the one it expects.
Request(o, from, to, delta, expected) ==
    /\ Runs(o, from)
    /\ IF Served(o) = {}
         THEN ReturnCode(o, 1) /\ UNCHANGED <<db, upstreams>>
         ELSE \E s \in Served(o), a \in App :
                /\ db' = [db EXCEPT ![s] = [balance |-> @.balance + delta.balance,
                                            orders |-> @.orders + delta.orders,
                                            history |-> @.history + delta.history]]
                /\ upstreams' = [upstreams EXCEPT ![o] = @ \cup {a}]
                /\ IF db'[s] \in expected THEN Proceed(o, to) ELSE ReturnCode(o, 1)
    /\ UNCHANGED <<chosen, exit, hung, held, faults, excused>>

\* 10000 points are charged (two units here), the order spends one unit.
Charge == [balance |-> 2, orders |-> 0, history |-> 1]
Pay == [balance |-> -1, orders |-> 1, history |-> 1]
Expected == [balance |-> 1, orders |-> 1, history |-> 2]
Answers(balance, orders) == [balance : balance, orders : orders, history : Nat]

\* The four GET /menus are one request here; the menus themselves are fixed.
SmokeMenus(o) == Request(o, "menus", "charge", FreshDb, Answers(Int, Nat))
SmokeCharge(o) == Request(o, "charge", "order", Charge, Answers({2}, Nat))
SmokeOrder(o) == Request(o, "order", "popular", Pay, Answers({1}, Nat))
SmokePopular(o) == Request(o, "popular", "verify", FreshDb, Answers(Int, {1}))

\* Two upstreams answered and the project's own database has the effects.
SmokeVerify(o) ==
    /\ Runs(o, "verify")
    /\ ReturnCode(o, IF upstreams[o] = App /\ db[o] = Expected THEN 0 ELSE 1)
    /\ UNCHANGED <<chosen, exit, hung, held, db, upstreams, faults, excused>>

-----------------------------------------------------------------------------
(* finally, timeouts and signals *)

DownDone(o) == held' = [held EXCEPT ![o] = {}] /\ db' = [db EXCEPT ![o] = FreshDb]
DownPart(o) ==
    /\ \E rest \in SUBSET held[o] : held' = [held EXCEPT ![o] = rest]
    /\ excused' = excused \cup {o}
    /\ UNCHANGED db

\* Mutant: a failed cleanup is printed and forgotten.
ComposeDownPrinted(o) ==
    /\ Runs(o, "down")
    /\ (DownDone(o) /\ UNCHANGED excused) \/ DownPart(o)
    /\ Exits(o, code[o])
    /\ UNCHANGED <<chosen, hung, faults>>

\* docker compose down -v: a failure raises OracleFailure, which replaces the
\* pending exit code.  Where docker is missing it cannot succeed.
ComposeDown(o) ==
    /\ Runs(o, "down")
    /\ \/ code[o] # NotFound /\ DownDone(o) /\ Exits(o, code[o]) /\ UNCHANGED excused
       \/ DownPart(o) /\ Exits(o, 1)
    /\ UNCHANGED <<chosen, hung, faults>>

Fault == faults < MaxFaults /\ faults' = faults + 1

\* A command that does not answer.
Hang(o) ==
    /\ at[o] \notin {"start", "done"} /\ o \notin hung
    /\ Fault
    /\ hung' = hung \cup {o}
    /\ UNCHANGED <<at, chosen, code, exit, held, db, upstreams, excused>>

\* Mutant: subprocess.run without a timeout.
CommandNeverTimesOut(o) == FALSE /\ UNCHANGED stackVars

\* timeout_seconds of _run_command: 124, or a failed cleanup.
CommandTimesOut(o) ==
    /\ o \in hung
    /\ hung' = hung \ {o}
    /\ IF at[o] = "down"
         THEN DownPart(o) /\ Exits(o, 1)
         ELSE /\ ReturnCode(o, TimedOut)
              /\ IF at[o] = "up" THEN StartsPart(o) ELSE UNCHANGED held
              /\ UNCHANGED <<exit, db, upstreams, excused>>
    /\ UNCHANGED <<chosen, faults>>

\* SIGINT: subprocess.run kills the command and raises; finally still runs,
\* unless it was running already.
Interrupt(o) ==
    /\ at[o] \notin {"start", "done"}
    /\ Fault
    /\ hung' = hung \ {o}
    /\ IF at[o] = "down"
         THEN DownPart(o) /\ Exits(o, Interrupted)
         ELSE /\ ReturnCode(o, Interrupted)
              /\ IF at[o] = "up" THEN StartsPart(o) ELSE UNCHANGED held
              /\ UNCHANGED <<exit, db, upstreams, excused>>
    /\ UNCHANGED chosen

\* SIGKILL: nothing is cleaned up.
Kill(o) ==
    /\ at[o] # "done"
    /\ Fault
    /\ hung' = hung \ {o}
    /\ Exits(o, Killed)
    /\ CASE at[o] = "up" -> StartsPart(o)
         [] at[o] = "down" -> \E rest \in SUBSET held[o] : held' = [held EXCEPT ![o] = rest]
         [] OTHER -> UNCHANGED held
    /\ excused' = excused \cup {o}
    /\ UNCHANGED <<chosen, db>>

SmokeStep(o) == \/ SmokeFails(o) \/ SmokeFresh(o) \/ SmokeMenus(o) \/ SmokeCharge(o)
                \/ SmokeOrder(o) \/ SmokePopular(o) \/ SmokeVerify(o)
OracleStep(o) == \/ RequireFiles(o) \/ ComposeConfig(o) \/ ComposeUp(o) \/ SmokeStep(o)
                 \/ ComposeDown(o) \/ CommandTimesOut(o)
StackStep == \E o \in Oracle : OracleStep(o) \/ Hang(o) \/ Interrupt(o) \/ Kill(o)

-----------------------------------------------------------------------------
(* Correctness *)

\* A host port has one owner, and a project publishes its own two ports only.
PortsAreOwned ==
    /\ \A o, s \in Oracle : o # s => held[o] \cap held[s] = {}
    /\ \A o \in Oracle : held[o] \subseteq Wanted(o)

\* What is up, who has answered and what is pending at each step.
StagesKept ==
    \A o \in Oracle :
        /\ at[o] \in Smoke => held[o] = Wanted(o)
        /\ at[o] \in {"start", "config", "up"} => held[o] = {} /\ upstreams[o] = {}
        /\ at[o] \in {"start", "done"} => o \notin hung
        /\ at[o] = "down" /\ code[o] = 0 => upstreams[o] = App
        /\ at[o] # "done" => exit[o] = NoExit

SmokeReachesOwnStack == \A o \in Oracle : at[o] \in Smoke => Served(o) = {o}

\* While the smoke test of an oracle runs, its requests are served by its own
\* project and nobody else's, although ports are let go before they are used:
\* a PASS is about this code.  It holds because run_multi_instance_oracle
\* returns when up fails, a port has one owner, and nothing runs before up.
StackInv == StackTypeOK /\ PortsAreOwned /\ StagesKept /\ SmokeReachesOwnStack

\* Exit 0 means that both instances answered the smoke test and that every
\* container is gone (the cleanup's OracleFailure replaces return 0); and
\* containers outlive an oracle only when it was killed or its cleanup failed.
NothingLeftBehind ==
    \A o \in Oracle : at[o] = "done" =>
        /\ exit[o] = 0 => upstreams[o] = App /\ held[o] = {}
        /\ held[o] # {} => o \in excused
=============================================================================
