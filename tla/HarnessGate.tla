----------------------------- MODULE HarnessGate ----------------------------
(***************************************************************************)
(* scripts/agent-harness.py: prepare, which freezes a plan and a git base  *)
(* in build/harness/plan.lock.json, and evaluate, which checks the current *)
(* HEAD against that lock and writes build/harness/evaluation.json.        *)
(*                                                                         *)
(* The harness reads the repository with many git commands while the       *)
(* implementation role may edit, commit, check out or rebase, and others   *)
(* push to origin.  Every kind of read is a step of its own; the git       *)
(* commands behind one kind (the clean check, fetch with the branch, the   *)
(* lists of changed paths, the parts of the hash) are one step together.   *)
(* Harness commands themselves are serialized (orchestration-policy.json), *)
(* so one runs at a time; it may be killed at any point.                   *)
(***************************************************************************)
EXTENDS Integers, Sequences, FiniteSets

CONSTANTS
    None,          \* unknown value, missing file
    Plan,          \* contents the plan file may have
    ValidPlan,     \* the ones parse_plan accepts
    Code,          \* contents of the rest of the tree
    Path,          \* repository paths other than the plan
    Touches,       \* Touches[c]: paths that differ between c and the base
    Allowed,       \* Allowed[p]: paths plan p allows, classifies and declares
    MigrationDir,  \* paths below db/migration
    Migration,     \* the ones that exist in the base
    Passing,       \* contents every check command accepts
    Branch,        \* branch names
    IssueBranch,   \* the one that matches the plan's issue
    InitialCommits,\* commits of the repository at the start
    MaxEdits,      \* bound: number of changes by others and of failing reads
    MaxRuns        \* bound: number of harness commands

Commit == [branch : Branch, fork : Nat, plan : Plan, code : Code]

ASSUME GateAssumption == /\ ValidPlan \subseteq Plan
                         /\ Touches \in [Code -> SUBSET Path]
                         /\ Allowed \in [Plan -> SUBSET Path]
                         /\ Migration \subseteq MigrationDir /\ MigrationDir \subseteq Path
                         /\ Passing \subseteq Code
                         /\ IssueBranch \in Branch
                         /\ InitialCommits \in Seq(Commit) /\ InitialCommits # <<>>
                         /\ \A k \in DOMAIN InitialCommits : InitialCommits[k].fork = 1

VARIABLES
    commits,     \* every commit made so far; a number is its SHA
    head,        \* HEAD
    work,        \* plan and code in the worktree
    origin,      \* tip of the target branch at the remote
    tracked,     \* refs/remotes/origin/<target>
    lock,        \* plan.lock.json
    evaluation,  \* evaluation.json
    pc,          \* what the running command does next; idle: none runs
    run,         \* local variables of the running command
    result,      \* command and exit state of the last command
    runs,        \* number of commands started
    edits        \* number of changes by others and of failing reads

repoVars == <<commits, head, work, origin>>
files == <<lock, evaluation>>
vars == <<commits, head, work, origin, tracked, lock, evaluation, pc, run, result, runs, edits>>

-----------------------------------------------------------------------------
State == {"PASS", "FAIL", "BLOCKED", "REPLAN_REQUIRED"}
STATE_PRIORITY == [PASS |-> 0, BLOCKED |-> 1, FAIL |-> 2, REPLAN_REQUIRED |-> 3]

\* Mutant: BLOCKED, a check nobody could run, does not count against PASS.
AggregateIgnoringBlocked(checks) ==
    LET states == (checks \cup {"PASS"}) \ {"BLOCKED"}
    IN  CHOOSE s \in states : \A r \in states : STATE_PRIORITY[r] <= STATE_PRIORITY[s]

\* aggregate_state: the worst state, PASS when there is no check at all.
AggregateState(checks) ==
    LET states == checks \cup {"PASS"}
    IN  CHOOSE s \in states : \A r \in states : STATE_PRIORITY[r] <= STATE_PRIORITY[s]

\* What one round of reads tells about the repository (Plan, GitContext,
\* changed paths and diff hash); None is what has not been read.
Unread == [plan |-> None, branch |-> None, base |-> None, mergeBase |-> None,
           head |-> None, paths |-> None, hash |-> None]

\* ids[phase]: the reads at the start and at the end of the command; ended:
\* the end reads are complete; lock: the lock evaluate loaded; tested: the
\* content the check commands ran on; calmRun, calmEnd: auxiliary, nobody
\* changed HEAD or worktree since the command, or its end reads, began.
NewRun(cmd) ==
    [cmd |-> cmd, phase |-> "start", ids |-> [start |-> Unread, end |-> Unread],
     ended |-> FALSE, lock |-> None, checks |-> {}, restore |-> FALSE, tested |-> None,
     calmRun |-> TRUE, calmEnd |-> FALSE]

NoRun == NewRun("prepare")

Tree == [plan |-> commits[head].plan, code |-> commits[head].code]
Dirty == {f \in {"plan", "code"} : work[f] # Tree[f]}
ChangedPaths == Touches[Tree.code] \cup Touches[work.code]

PlanLock(id) == [plan |-> id.plan, branch |-> id.branch, base |-> id.base, mergeBase |-> id.mergeBase]

Step == {"clean", "plan", "fetch", "mergeBase", "head", "preflight", "lock", "paths", "hash",
         "static", "gradle", "checks", "restore", "writeLock", "writeEvaluation"}

Content == [plan : Plan, code : Code]
LockFile == [plan : ValidPlan, branch : {IssueBranch}, base : Nat, mergeBase : Nat]
Hash == (Nat \cup {None}) \X Content
Reads == [plan : Plan \cup {None}, branch : Branch \cup {None}, base : Nat \cup {None},
          mergeBase : Nat \cup {None}, head : Nat \cup {None}, paths : (SUBSET Path) \cup {None},
          hash : Hash \cup {None}]
Run == [cmd : {"prepare", "evaluate"}, phase : {"start", "end"}, ids : [start : Reads, end : Reads],
        ended : BOOLEAN, lock : LockFile \cup {None}, checks : SUBSET State, restore : BOOLEAN,
        tested : Code \cup {None}, calmRun : BOOLEAN, calmEnd : BOOLEAN]
EvaluationFile == [state : State, id : Reads, tested : Code \cup {None},
                   calmRun : BOOLEAN, calmEnd : BOOLEAN]

\* None stands for what is not there.
ASSUME NoneAssumption == /\ None \notin State \cup {"prepare", "evaluate"}
                         /\ None \notin LockFile /\ None \notin EvaluationFile /\ None \notin Hash
                         /\ None \notin Code

\* Types, and the links between the files and the commits they name.
TypeOK ==
    /\ commits \in Seq(Commit) /\ head \in DOMAIN commits
    /\ work \in Content
    /\ origin \in Nat /\ tracked \in 1..origin
    /\ \A k \in DOMAIN commits : commits[k].fork <= tracked
    /\ lock \in LockFile \cup {None} /\ evaluation \in EvaluationFile \cup {None}
    /\ \A l \in {lock, run.lock} : l # None => l.mergeBase <= l.base /\ l.base <= tracked
    /\ pc \in Step \cup {"idle"} /\ run \in Run
    /\ run.ended => run.phase = "end" /\ run.ids.end.hash # None

Init ==
    /\ commits = InitialCommits /\ head = 1
    /\ work = Tree
    /\ origin = 1 /\ tracked = 1
    /\ lock = None /\ evaluation = None
    /\ pc = "idle" /\ run = NoRun
    /\ result = [cmd |-> None, state |-> None]
    /\ runs = 0 /\ edits = 0
-----------------------------------------------------------------------------
(* Control flow *)

GoTo(step) == pc' = step /\ UNCHANGED <<result, runs>>

Finish(state) ==
    /\ pc' = "idle"
    /\ result' = [cmd |-> run.cmd, state |-> state]
    /\ run' = NoRun
    /\ UNCHANGED runs

\* The reads of the end phase begin.
EnterEnd(r) == [r EXCEPT !.phase = "end", !.calmEnd = TRUE]

\* A HarnessViolation.  prepare returns its state.  evaluate records it; it
\* goes on to the freshness check when the start reads were complete and
\* gives up on that check when it is already in it.
Violation(state) ==
    IF run.cmd = "prepare" THEN Finish(state)
    ELSE LET r == [run EXCEPT !.checks = @ \cup {state}]
         IN  IF run.phase = "start" /\ run.ids.start.hash # None
               THEN run' = EnterEnd(r) /\ GoTo("clean")
               ELSE run' = r /\ GoTo("restore")

\* prepare reads plan and git context, looks at the worktree, runs the
\* preflight and does all of it again before it writes the lock.
PrepareAfter(step) ==
    CASE step = "head" -> "clean"
      [] step = "clean" -> IF run.phase = "start" THEN "preflight" ELSE "writeLock"

\* evaluate begins with the worktree; _freshness_check repeats its reads, but
\* not that of the lock.
EvaluateAfter(step) ==
    CASE step = "clean" -> "plan"
      [] step = "head" -> IF run.phase = "start" THEN "lock" ELSE "paths"

After(step) == IF run.cmd = "prepare" THEN PrepareAfter(step) ELSE EvaluateAfter(step)

\* A read of the current phase succeeds with v for field f.
Read(f, v) == run' = [run EXCEPT !.ids[run.phase][f] = v]

-----------------------------------------------------------------------------
(* The commands *)

\* remove_stale_plan_lock
StartPrepare ==
    /\ pc = "idle" /\ runs < MaxRuns
    /\ runs' = runs + 1
    /\ run' = NewRun("prepare") /\ pc' = "plan"
    /\ lock' = None
    /\ UNCHANGED <<repoVars, tracked, evaluation, result>>

\* remove_stale_evaluation
StartEvaluate ==
    /\ pc = "idle" /\ runs < MaxRuns
    /\ runs' = runs + 1
    /\ run' = NewRun("evaluate") /\ pc' = "clean"
    /\ evaluation' = None
    /\ UNCHANGED <<repoVars, tracked, lock, result>>

\* The command ends before it starts, with everything as it was: there is no
\* repository root, or the evidence path is a link or no regular file.
Refused(cmd) ==
    /\ pc = "idle" /\ runs < MaxRuns
    /\ runs' = runs + 1
    /\ \E state \in {"FAIL", "BLOCKED"} :
          result' = [cmd |-> cmd, state |-> state]
    /\ UNCHANGED <<repoVars, tracked, files, pc, run>>

PrepareRefused == Refused("prepare")

\* evaluate returns an evaluation that it does not write.
EvaluateRefused == Refused("evaluate")

\* validate_prepare_clean_state and validate_evaluate_clean_state; at its end
\* prepare also compares the two rounds of reads (validate_plan_lock).
CheckClean ==
    /\ pc = "clean"
    /\ IF /\ Dirty \subseteq (IF run.cmd = "prepare" THEN {"plan"} ELSE {})
          /\ run.cmd = "prepare" /\ run.phase = "end" =>
               PlanLock(run.ids.start) = PlanLock(run.ids.end)
         THEN /\ UNCHANGED run
              /\ GoTo(After("clean"))
         ELSE Violation("REPLAN_REQUIRED")
    /\ UNCHANGED <<repoVars, tracked, files>>

\* Mutant: a plan is taken as it is.
LoadPlanUnparsed ==
    /\ pc = "plan"
    /\ Read("plan", work.plan) /\ GoTo("fetch")
    /\ UNCHANGED <<repoVars, tracked, files>>

\* In _freshness_check a plan that no longer parses asks for a new plan.
PlanViolation == IF run.cmd = "evaluate" /\ run.phase = "end" THEN "REPLAN_REQUIRED" ELSE "FAIL"

\* load_risk_policy and load_plan
LoadPlan ==
    /\ pc = "plan"
    /\ IF work.plan \in ValidPlan
         THEN Read("plan", work.plan) /\ GoTo("fetch")
         ELSE Violation(PlanViolation)
    /\ UNCHANGED <<repoVars, tracked, files>>

\* resolve_local_git_context: git fetch, then the current branch.
Fetch ==
    /\ pc = "fetch"
    /\ tracked' = origin
    /\ IF commits[head].branch = IssueBranch
         THEN Read("branch", commits[head].branch) /\ GoTo("mergeBase")
         ELSE Violation("REPLAN_REQUIRED")
    /\ UNCHANGED <<repoVars, files>>

\* run_git: a git command cannot be run or fails, which is BLOCKED; a file or
\* an output that cannot be used is FAIL.
ReadFails ==
    /\ pc \in {"clean", "plan", "fetch", "mergeBase", "head", "paths", "hash", "static"}
    /\ edits < MaxEdits /\ edits' = edits + 1
    /\ \E state \in {"BLOCKED", "FAIL"} : Violation(state)
    /\ UNCHANGED <<repoVars, tracked, files>>

\* git rev-parse of the base and git merge-base HEAD, which is where the
\* branch left the target branch.
ReadMergeBase ==
    /\ pc = "mergeBase"
    /\ run' = [run EXCEPT !.ids[run.phase].base = tracked,
                          !.ids[run.phase].mergeBase = commits[head].fork]
    /\ GoTo("head")
    /\ UNCHANGED <<repoVars, tracked, files>>

\* git rev-parse HEAD
ReadHead ==
    /\ pc = "head"
    /\ Read("head", head)
    /\ GoTo(After("head"))
    /\ UNCHANGED <<repoVars, tracked, files>>

\* run_prepare_preflight: the environment is there, or prepare stops.
Preflight ==
    /\ pc = "preflight"
    /\ \/ run' = EnterEnd(run) /\ GoTo("plan")
       \/ Finish("BLOCKED")
    /\ UNCHANGED <<repoVars, tracked, files>>

\* load_plan_lock and validate_plan_lock
LoadPlanLock ==
    /\ pc = "lock"
    /\ IF lock = None THEN Violation("REPLAN_REQUIRED")
       ELSE IF lock = PlanLock(run.ids.start)
         THEN run' = [run EXCEPT !.lock = lock] /\ GoTo("paths")
         ELSE run' = [run EXCEPT !.lock = lock, !.checks = @ \cup {"REPLAN_REQUIRED"}] /\ GoTo("restore")
    /\ UNCHANGED <<repoVars, tracked, files>>

\* collect_local_changed_paths: HEAD and worktree against the merge base.
CollectChangedPaths ==
    /\ pc = "paths"
    /\ Read("paths", ChangedPaths)
    /\ GoTo("hash")
    /\ UNCHANGED <<repoVars, tracked, files>>
-----------------------------------------------------------------------------
\* Mutant: freshness means the same base and the same HEAD.
IdentityShallow(id) == [base |-> id.base, mergeBase |-> id.mergeBase, head |-> id.head]

\* What the freshness check compares.
Identity(id) == [base |-> id.base, mergeBase |-> id.mergeBase, head |-> id.head,
                 plan |-> id.plan, paths |-> id.paths, hash |-> id.hash]

\* compute_diff_hash: the worktree's content against the merge base.  At the
\* end of evaluate the comparison of _freshness_check follows.
ComputeDiffHash ==
    LET h == <<run.ids[run.phase].mergeBase, work>>
        end == [run.ids.end EXCEPT !.hash = h]
    IN  /\ pc = "hash"
        /\ IF run.phase = "start"
             THEN Read("hash", h) /\ GoTo("static")
             ELSE /\ run' = [run EXCEPT !.ids.end = end, !.ended = TRUE,
                               !.checks = IF Identity(run.ids.start) = Identity(end)
                                            THEN @ ELSE @ \cup {"REPLAN_REQUIRED"}]
                  /\ GoTo("restore")
        /\ UNCHANGED <<repoVars, tracked, files>>

\* validate_existing_migrations_immutable reads HEAD and worktree again, but
\* for the untracked files.
ActualMutations(untracked) ==
    (Touches[Tree.code] \cup (Touches[work.code] \ untracked)) \cap MigrationDir

\* A mutation that the collected paths do not have, or one of an existing
\* migration.
MigrationViolation(paths, untracked) ==
    LET mutations == ActualMutations(untracked)
    IN  ~(mutations \subseteq paths) \/ mutations \cap Migration # {}

\* The scope, risk and contract checks after it use the collected paths.  A
\* migration of the worktree that is not in the base may be tracked or not.
StaticChecks ==
    LET id == run.ids.start
    IN  /\ pc = "static"
        /\ \E untracked \in SUBSET (MigrationDir \ Migration) :
              IF MigrationViolation(id.paths, untracked) THEN Violation("FAIL")
              ELSE IF ~(id.paths \subseteq Allowed[id.plan]) THEN Violation("REPLAN_REQUIRED")
              ELSE UNCHANGED run /\ GoTo("gradle")
        /\ UNCHANGED <<repoVars, tracked, files>>

\* run_required_checks: "gradlew clean" removes build/, and with it lock and
\* evaluation; gradle.test is BLOCKED when the environment checks fail or the
\* tests find no Docker, and FAIL when gradlew itself fails.  Without either it
\* got past clean; with one of them it may have or not.
RunGradle ==
    /\ pc = "gradle"
    /\ \E states \in {{}, {"BLOCKED"}, {"FAIL"}} :
          /\ run' = [run EXCEPT !.checks = @ \cup states]
          /\ \/ lock' = None /\ evaluation' = None
             \/ states # {} /\ UNCHANGED files
    /\ GoTo("checks")
    /\ UNCHANGED <<repoVars, tracked>>

\* The check commands report on the worktree as it is when they run; without
\* gradle.test the others still do.
FinishChecks ==
    /\ pc = "checks"
    /\ run' = EnterEnd([run EXCEPT
                  !.tested = IF "BLOCKED" \in run.checks THEN None ELSE work.code,
                  !.checks = @ \cup {IF work.code \in Passing THEN "PASS" ELSE "FAIL"}])
    /\ GoTo("clean")
    /\ UNCHANGED <<repoVars, tracked, files>>

\* Mutant: the lock that "gradlew clean" removed is not put back.
DecideNoRestore ==
    /\ pc = "restore"
    /\ UNCHANGED run
    /\ GoTo("writeEvaluation")
    /\ UNCHANGED <<repoVars, tracked, files>>

\* The lock is written back only if it still describes plan and base.
DecideRestore ==
    /\ pc = "restore"
    /\ IF run.lock = None THEN UNCHANGED run /\ GoTo("writeEvaluation")
       ELSE IF ~run.ended
         THEN run' = [run EXCEPT !.checks = @ \cup {"BLOCKED"}] /\ GoTo("writeEvaluation")
       ELSE IF run.lock # PlanLock(run.ids.end)
         THEN run' = [run EXCEPT !.checks = @ \cup {"REPLAN_REQUIRED"}] /\ GoTo("writeEvaluation")
       ELSE run' = [run EXCEPT !.restore = TRUE] /\ GoTo("writeLock")
    /\ UNCHANGED <<repoVars, tracked, files>>

\* The evidence path is not safe any more, or write_json_atomic fails: no
\* file changes and the command reports it.
WriteFails ==
    /\ pc \in {"writeLock", "writeEvaluation"}
    /\ Finish(AggregateState(run.checks \cup {"FAIL"}))
    /\ UNCHANGED <<repoVars, tracked, files>>

\* write_json_atomic of the lock, last step of prepare, last but one of
\* evaluate.
WriteLock ==
    /\ pc = "writeLock"
    /\ IF run.cmd = "prepare"
         THEN lock' = PlanLock(run.ids.end) /\ Finish("PASS")
         ELSE lock' = run.lock /\ GoTo("writeEvaluation") /\ UNCHANGED run
    /\ UNCHANGED <<repoVars, tracked, evaluation>>

\* _evaluation_from_values; tested and the last two fields are auxiliary.
Evaluation ==
    [state |-> AggregateState(run.checks), id |-> run.ids.start,
     tested |-> run.tested, calmRun |-> run.calmRun, calmEnd |-> run.calmEnd]

\* write_json_atomic of the evaluation, whatever its state.
WriteEvaluation ==
    /\ pc = "writeEvaluation"
    /\ evaluation' = Evaluation
    /\ Finish(AggregateState(run.checks))
    /\ UNCHANGED <<repoVars, tracked, lock>>

\* The command is killed; files stay as they are.
Killed ==
    /\ pc # "idle"
    /\ Finish(None)
    /\ UNCHANGED <<repoVars, tracked, files>>
-----------------------------------------------------------------------------
(* What others do meanwhile *)

Edit ==
    /\ edits < MaxEdits
    /\ edits' = edits + 1
    /\ UNCHANGED <<tracked, files, pc, result, runs>>

Disturb == run' = IF pc = "idle" THEN run
                  ELSE [run EXCEPT !.calmRun = FALSE, !.calmEnd = FALSE]

EditWorktree(w) ==
    /\ Edit /\ Disturb
    /\ w # work /\ work' = w
    /\ UNCHANGED <<commits, head, origin>>

CommitWork ==
    /\ Edit /\ Disturb
    /\ Dirty # {}
    /\ commits' = Append(commits, [commits[head] EXCEPT !.plan = work.plan, !.code = work.code])
    /\ head' = Len(commits) + 1
    /\ UNCHANGED <<work, origin>>

Checkout(k) ==
    /\ Edit /\ Disturb
    /\ Dirty = {} /\ k # head
    /\ head' = k
    /\ work' = [plan |-> commits[k].plan, code |-> commits[k].code]
    /\ UNCHANGED <<commits, origin>>

Rebase ==
    /\ Edit /\ Disturb
    /\ Dirty = {} /\ commits[head].fork < tracked
    /\ commits' = Append(commits, [commits[head] EXCEPT !.fork = tracked])
    /\ head' = Len(commits) + 1
    /\ UNCHANGED <<work, origin>>

MergeToOrigin ==
    /\ Edit /\ UNCHANGED run
    /\ origin' = origin + 1
    /\ UNCHANGED <<commits, head, work>>

Others ==
    \/ \E w \in Content : EditWorktree(w)
    \/ \E k \in DOMAIN commits : Checkout(k)
    \/ CommitWork \/ Rebase \/ MergeToOrigin

Harness ==
    \/ StartPrepare \/ StartEvaluate \/ PrepareRefused \/ EvaluateRefused
    \/ CheckClean \/ LoadPlan \/ Fetch \/ ReadMergeBase \/ ReadHead \/ Preflight
    \/ LoadPlanLock \/ CollectChangedPaths \/ ComputeDiffHash \/ StaticChecks
    \/ RunGradle \/ FinishChecks \/ DecideRestore
    \/ WriteLock \/ WriteEvaluation \/ WriteFails \/ Killed

Next == (Harness /\ UNCHANGED edits) \/ ReadFails \/ Others
Spec == Init /\ [][Next]_vars

-----------------------------------------------------------------------------
(* Correctness *)

Passed == evaluation # None /\ evaluation.state = "PASS"

\* PASS evidence is about the commit it names: plan, branch, merge base and
\* changed paths are those of that commit and the paths lie within that
\* commit's own plan, whatever others did to HEAD and worktree between the
\* start of evaluate and its last reads (_freshness_check reads all of it
\* again and compares; only its own few git commands must not be disturbed).
EvidenceDescribesHead ==
    Passed /\ evaluation.calmEnd =>
        LET c == commits[evaluation.id.head] IN
        /\ c.branch = IssueBranch
        /\ evaluation.id.plan = c.plan
        /\ evaluation.id.mergeBase = c.fork
        /\ evaluation.id.paths = Touches[c.code]
        /\ Touches[c.code] \subseteq Allowed[c.plan]

\* PASS is never given without the check commands: a missing environment is
\* BLOCKED.  When nobody touched HEAD or worktree during the run, the content
\* they passed on is the commit's, and it changes no existing migration.
PassMeansTested ==
    Passed =>
        /\ evaluation.tested \in Passing
        /\ evaluation.calmRun =>
             LET c == commits[evaluation.id.head]
             IN  evaluation.tested = c.code /\ Touches[c.code] \cap Migration = {}

\* The steps of one round of reads, in the order in which each command takes
\* them, and what follows the round.
PrepareOrder == [plan |-> 2, fetch |-> 3, mergeBase |-> 4, head |-> 5, clean |-> 6,
                 preflight |-> 7, writeLock |-> 7]
EvaluateOrder == [clean |-> 1, plan |-> 2, fetch |-> 3, mergeBase |-> 4, head |-> 5, lock |-> 6,
                  paths |-> 7, hash |-> 8, static |-> 9, gradle |-> 10, checks |-> 11,
                  restore |-> 12, writeLock |-> 13, writeEvaluation |-> 14]
Stage == IF run.cmd = "prepare" THEN PrepareOrder[pc] ELSE EvaluateOrder[pc]

\* Each command takes its own steps; nothing has gone wrong while evaluate is
\* still on its way to the check commands.
CommandsKeepOrder ==
    pc # "idle" =>
        /\ pc \in IF run.cmd = "prepare" THEN DOMAIN PrepareOrder ELSE DOMAIN EvaluateOrder
        /\ pc \in {"preflight", "lock", "static", "gradle", "checks"} => run.phase = "start"
        /\ pc = "writeLock" => run.phase = "end" /\ (run.cmd = "evaluate" => run.lock # None)
        /\ run.cmd = "evaluate" /\ run.phase = "start" /\ Stage <= 10 => run.checks = {}

\* No check has failed so far.
OnTrack == pc # "idle" /\ (run.cmd = "prepare" \/ run.checks \subseteq {"PASS"})

\* What the reads before stage n of a round have found.
Found(id, n) ==
    /\ n > 2 => id.plan \in ValidPlan
    /\ n > 3 => id.branch = IssueBranch
    /\ n > 4 => /\ id.base \in Nat /\ id.mergeBase \in Nat
                /\ id.mergeBase <= id.base /\ id.base <= tracked
    /\ n > 5 => id.head \in DOMAIN commits

RoundsFound ==
    OnTrack => /\ Found(run.ids[run.phase], Stage)
               /\ run.phase = "end" => Found(run.ids.start, 6)

\* evaluate on track: what the lock, the static checks, the check commands and
\* the comparison of the two rounds have established.
TrackIsChecked ==
    OnTrack /\ run.cmd = "evaluate" =>
        /\ IF run.phase = "end" \/ Stage > 6 THEN run.lock = PlanLock(run.ids.start) ELSE run.lock = None
        /\ run.phase = "end" \/ Stage > 9 => run.ids.start.paths \subseteq Allowed[run.ids.start.plan]
        /\ run.phase = "end" => run.tested \in Passing
        /\ Stage > 11 => run.ended /\ Identity(run.ids.start) = Identity(run.ids.end)
        /\ pc = "writeEvaluation" => lock = run.lock

\* What the end reads found is still so while nobody disturbs them.
EndIsCurrent ==
    OnTrack /\ run.cmd = "evaluate" /\ run.phase = "end" /\ run.calmEnd =>
        /\ Stage > 1 => Dirty = {}
        /\ Stage > 2 => run.ids.end.plan = work.plan
        /\ Stage > 3 => commits[head].branch = IssueBranch
        /\ Stage > 4 => run.ids.end.mergeBase = commits[head].fork
        /\ Stage > 5 => run.ids.end.head = head
        /\ Stage > 7 => run.ids.end.paths = ChangedPaths

\* In an undisturbed run, HEAD is the one read at the start and the check
\* commands ran on it.
RunIsCurrent ==
    OnTrack /\ run.cmd = "evaluate" /\ run.calmRun =>
        /\ run.phase = "end" \/ Stage > 1 => Dirty = {}
        /\ run.phase = "end" \/ Stage > 5 => run.ids.start.head = head
        /\ run.phase = "end" \/ Stage > 9 => ChangedPaths \cap Migration = {}
        /\ run.phase = "end" => run.tested = work.code

EvidenceNamesCommit == Passed => evaluation.id.head \in DOMAIN commits

\* The inductive invariant of the harness: every command reads in order, a run
\* of evaluate in which nothing failed has established what PASS will say, and
\* what an undisturbed round of reads found is still so.
GateInv ==
    /\ TypeOK /\ CommandsKeepOrder /\ RoundsFound /\ TrackIsChecked /\ EndIsCurrent /\ RunIsCurrent
    /\ EvidenceNamesCommit /\ EvidenceDescribesHead /\ PassMeansTested

\* What Gate sees: the command in progress, the lock that its evaluate began
\* with, and state and lock of the evaluation.
Running == IF pc = "idle" THEN None ELSE run.cmd
Taken == IF pc = "idle" \/ run.cmd = "prepare" THEN None ELSE IF run.lock # None THEN run.lock ELSE lock
Evidence ==
    IF evaluation = None THEN None
    ELSE [state |-> evaluation.state,
          lock |-> IF evaluation.state = "PASS" THEN PlanLock(evaluation.id) ELSE None]

\* prepare and evaluate keep the promise of Gate about their files: a killed,
\* failed or refused command leaves no evidence of another run and no lock of
\* its own, the exit state is the one in evaluation.json, and an evaluate
\* that passes leaves behind the very lock it was checked against although
\* "gradlew clean" removes build/ in the middle of it.
G == INSTANCE Gate WITH Lock <- LockFile, running <- Running, taken <- Taken, locked <- lock,
                        evidence <- Evidence, verdict <- result
GateRefinement == G!GateSpec
=============================================================================
