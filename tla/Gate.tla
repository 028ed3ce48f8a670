-------------------------------- MODULE Gate --------------------------------
(***************************************************************************)
(* What the harness promises about its two files, whatever the repository  *)
(* does meanwhile and wherever a command dies: evidence is written as the  *)
(* last act of the evaluate it describes and never outlives the start of   *)
(* the next one; the exit state is the state in the file; only prepare     *)
(* makes a lock, and only a successful one; evaluate may lose the lock,    *)
(* never replace it, and does not pass without keeping it.                 *)
(***************************************************************************)
EXTENDS Integers

CONSTANTS None, State, Lock

VARIABLES
    running,   \* the command in progress, or None
    taken,     \* the lock that was there when the running evaluate began
    locked,    \* the lock on disk, or None
    evidence,  \* state and lock of the evaluation on disk, or None
    verdict    \* command and exit state of the last command

gateVars == <<running, taken, locked, evidence, verdict>>

GateInit ==
    /\ running = None /\ taken = None /\ locked = None /\ evidence = None
    /\ verdict = [cmd |-> None, state |-> None]

\* The command ends; None is the exit state of one that was killed.
End(state) ==
    /\ running' = None /\ taken' = None
    /\ verdict' = [cmd |-> running, state |-> state]

BeginPrepare ==
    /\ running = None /\ running' = "prepare"
    /\ locked' = None
    /\ UNCHANGED <<taken, evidence, verdict>>

BeginEvaluate ==
    /\ running = None /\ running' = "evaluate"
    /\ taken' = locked /\ evidence' = None
    /\ UNCHANGED <<locked, verdict>>

\* A command that cannot start leaves everything as it is.
Refuse(cmd) ==
    /\ running = None
    /\ verdict' \in [cmd : {cmd}, state : {"FAIL", "BLOCKED"}]
    /\ UNCHANGED <<running, taken, locked, evidence>>

Prepared ==
    /\ running = "prepare" /\ End("PASS")
    /\ locked' \in Lock
    /\ UNCHANGED evidence

LoseOrRestore ==
    /\ running = "evaluate"
    /\ locked' \in {None, taken}
    /\ UNCHANGED <<running, taken, evidence, verdict>>

Conclude(state) ==
    /\ running = "evaluate" /\ End(state)
    /\ evidence' \in [state : {state}, lock : Lock \cup {None}]
    /\ state = "PASS" => locked # None /\ evidence'.lock = locked
    /\ UNCHANGED locked

\* Any command may end without its file, and then it does not pass.
GiveUp(state) ==
    /\ running # None /\ state # "PASS" /\ End(state)
    /\ UNCHANGED <<locked, evidence>>

GateNext ==
    \/ BeginPrepare \/ BeginEvaluate \/ Prepared \/ LoseOrRestore
    \/ \E cmd \in {"prepare", "evaluate"} : Refuse(cmd)
    \/ \E state \in State : Conclude(state)
    \/ \E state \in State \cup {None} : GiveUp(state)

GateSpec == GateInit /\ [][GateNext]_gateVars
=============================================================================
