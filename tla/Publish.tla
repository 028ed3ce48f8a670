------------------------------- MODULE Publish ------------------------------
(***************************************************************************)
(* scripts/agent-publish.py: finalize evaluates the current HEAD, pushes   *)
(* the branch, creates or readies its pull request and, with --merge,      *)
(* merges it and makes sure that the issue is closed.  Each git, gh or     *)
(* harness command is a step; others commit, push, merge and close         *)
(* meanwhile, GitHub completes merges it has deferred, and any command may *)
(* fail, which ends the program with an error.                             *)
(*                                                                         *)
(* The harness takes part with what Gate promises: prepare locks the tip   *)
(* of the target branch, evaluate passes only while that is still the tip  *)
(* and keeps the lock, and an evaluate that fails or dies may lose it.     *)
(* GitHub is external and modelled from the commands the script runs.      *)
(***************************************************************************)
EXTENDS Integers, Sequences

CONSTANTS
    InitialPrs,   \* pull requests of the branch before the first finalize
    MaxCommits,   \* bound: number of commits
    MaxPrs,       \* bound: pull requests after which others open no more
    MaxMain,      \* bound: tips of the target branch after which others merge nothing else
    MaxRuns       \* bound: number of finalize runs

VARIABLES
    commits,  \* number of commits made so far; a number is a SHA
    local,    \* HEAD and cleanliness of the local worktree
    remote,   \* head of the branch at origin, 0 when it was never pushed
    ahead,    \* the remote branch has a commit the local one does not have
    prs,      \* pull requests of the branch, by number
    issue,    \* state of the issue
    main,     \* tip of the target branch; every merge into it makes a new one
    lock,     \* tip that plan.lock.json names, 0 when there is no lock
    passed,   \* auxiliary: commits with PASS evidence, each with its base tip
    pc,       \* next command of the running finalize; idle: none runs
    run,      \* local variables of the running finalize
    result,   \* outcome of the last finalize and its pull request
    runs      \* number of finalize runs

gitVars == <<commits, local, remote, ahead>>
baseVars == <<main, lock>>
vars == <<commits, local, remote, ahead, prs, issue, main, lock, passed, pc, run, result, runs>>

-----------------------------------------------------------------------------
PrState == {"OPEN", "MERGED", "CLOSED"}

\* merged, onto: the commit that was merged and the tip it was merged into;
\* the rest is auxiliary and about the last run that asked for the merge:
\* the commit it had evaluated, the tip its lock named, the tip at origin
\* when it evaluated, and whether nobody else committed, pushed or merged
\* since it began.
Request == [evaluated : Nat, base : Nat, tip : Nat, calm : BOOLEAN]
Pr == [state : PrState, draft : BOOLEAN, linked : BOOLEAN, merged : Nat, onto : Nat, asked : Request]
Unasked == [evaluated |-> 0, base |-> 0, tip |-> 0, calm |-> FALSE]
NewPr(draft, linked) ==
    [state |-> "OPEN", draft |-> draft, linked |-> linked, merged |-> 0, onto |-> 0, asked |-> Unasked]

Step == {"clean", "evaluate", "push", "list", "create", "link", "ready",
         "checks", "merge", "viewPr", "viewIssue", "closeIssue", "viewAgain"}

Result == {"NONE", "FAIL", "READY_FOR_REVIEW", "COMPLETED"}

\* Nothing of the branch is merged, and no merge asked for, before the first
\* finalize, and GitHub has at most one open pull request of it.
ASSUME InitialPrsAssumption ==
    \A q \in InitialPrs :
        /\ q \in Seq(Pr)
        /\ \A n \in DOMAIN q : q[n].state # "MERGED" /\ q[n].merged = 0 /\ q[n].asked = Unasked
        /\ \A m, n \in DOMAIN q : q[m].state = "OPEN" /\ q[n].state = "OPEN" => m = n

NoRun == [head |-> 0, merge |-> FALSE, pr |-> 0, base |-> 0, tip |-> 0, calm |-> TRUE]

\* Open pull requests of the branch; GitHub allows one per branch and base.
Open == {n \in DOMAIN prs : prs[n].state = "OPEN"}

\* Types; only a branch at origin has pull requests, at most one is open, and
\* what is merged exists.
TypeOK ==
    /\ commits \in Nat \ {0}
    /\ local \in [head : 1..commits, clean : BOOLEAN]
    /\ remote \in 0..commits /\ ahead \in BOOLEAN /\ (ahead => remote # 0)
    /\ prs \in Seq(Pr) /\ (prs # <<>> => remote # 0)
    /\ \A n \in DOMAIN prs : prs[n].merged \in IF prs[n].state = "MERGED" THEN 1..commits ELSE {0}
    /\ \A m, n \in Open : m = n
    /\ issue \in {"OPEN", "CLOSED"}
    /\ main \in Nat \ {0} /\ lock \in 0..main
    /\ passed \subseteq (1..commits) \X (0..main)
    /\ pc \in Step \cup {"idle"}
    /\ run \in [head : 0..commits, merge : BOOLEAN, pr : 0..Len(prs), base : 0..main, tip : 0..main, calm : BOOLEAN]
    /\ result \in [state : Result, pr : 0..Len(prs)]
    /\ runs \in Nat

Init ==
    /\ commits = 1 /\ local = [head |-> 1, clean |-> TRUE]
    /\ prs \in InitialPrs
    /\ remote = IF prs = <<>> THEN 0 ELSE 1
    /\ ahead = FALSE /\ issue = "OPEN" /\ passed = {}
    /\ main = 1 /\ lock = 0
    /\ pc = "idle" /\ run = NoRun
    /\ result = [state |-> "NONE", pr |-> 0] /\ runs = 0

-----------------------------------------------------------------------------
(* finalize *)

GoTo(step) == pc' = step /\ UNCHANGED <<result, runs>>

Finish(state) ==
    /\ pc' = "idle" /\ run' = NoRun
    /\ result' = [state |-> state, pr |-> run.pr]
    /\ UNCHANGED runs

\* load_manifest, current_branch_and_head, assert_issue_branch
Start(merge) ==
    /\ pc = "idle" /\ runs < MaxRuns
    /\ runs' = runs + 1
    /\ run' = [NoRun EXCEPT !.head = local.head, !.merge = merge]
    /\ pc' = "clean"
    /\ UNCHANGED <<gitVars, prs, issue, passed, result, baseVars>>

AssertCleanWorktree ==
    /\ pc = "clean"
    /\ IF local.clean THEN GoTo("evaluate") /\ UNCHANGED run ELSE Finish("FAIL")
    /\ UNCHANGED <<gitVars, prs, issue, passed, baseVars>>

\* Mutant: the exit code and state of evaluate are ignored.
EvaluateIgnoringState ==
    /\ pc = "evaluate"
    /\ lock' \in {lock, 0}
    /\ run' = [run EXCEPT !.base = lock, !.tip = main] /\ GoTo("push")
    /\ UNCHANGED <<gitVars, prs, issue, main, passed>>

\* Mutant: the base tip is left out of the comparison with the lock.
EvaluateOnAnyBase ==
    /\ pc = "evaluate"
    /\ \/ /\ local.clean /\ lock # 0
          /\ passed' = passed \cup {<<local.head, lock>>}
          /\ IF local.head = run.head
               THEN run' = [run EXCEPT !.base = lock, !.tip = main] /\ GoTo("push")
               ELSE Finish("FAIL")
          /\ UNCHANGED lock
       \/ Finish("FAIL") /\ lock' \in {lock, 0} /\ UNCHANGED passed
    /\ UNCHANGED <<gitVars, prs, issue, main>>

\* evaluate_and_read_evidence: PASS is evidence for the HEAD evaluate saw,
\* which must be the one finalize started with, on the locked base tip.
EvaluateAndReadEvidence ==
    /\ pc = "evaluate"
    /\ \/ /\ local.clean /\ lock = main
          /\ passed' = passed \cup {<<local.head, main>>}
          /\ IF local.head = run.head
               THEN run' = [run EXCEPT !.base = lock, !.tip = main] /\ GoTo("push")
               ELSE Finish("FAIL")
          /\ UNCHANGED lock
       \/ Finish("FAIL") /\ lock' \in {lock, 0} /\ UNCHANGED passed
    /\ UNCHANGED <<gitVars, prs, issue, main>>

\* git push sends what the branch points to now, unless it is not a
\* fast-forward.
Push ==
    /\ pc = "push" /\ ~ahead
    /\ remote' = local.head
    /\ GoTo("list")
    /\ UNCHANGED <<commits, local, ahead, prs, issue, passed, run, baseVars>>

\* gh pr list: none, or one whose head must be the evaluated one.
ListPrs ==
    /\ pc = "list"
    /\ IF Open = {} THEN GoTo("create") /\ UNCHANGED run
       ELSE IF remote = run.head
         THEN run' = [run EXCEPT !.pr = CHOOSE n \in Open : TRUE] /\ GoTo("link")
         ELSE Finish("FAIL")
    /\ UNCHANGED <<gitVars, prs, issue, passed, baseVars>>

\* gh pr create: GitHub refuses a second open pull request.  Without --merge
\* finalize ends here.
CreatePr ==
    /\ pc = "create" /\ Open = {}
    /\ prs' = Append(prs, NewPr(FALSE, TRUE))
    /\ IF run.merge THEN run' = [run EXCEPT !.pr = Len(prs')] /\ GoTo("checks")
       ELSE /\ pc' = "idle" /\ run' = NoRun /\ UNCHANGED runs
            /\ result' = [state |-> "READY_FOR_REVIEW", pr |-> Len(prs')]
    /\ UNCHANGED <<gitVars, issue, passed, baseVars>>

\* gh pr edit, when the body does not link the issue yet.
LinkIssue ==
    /\ pc = "link"
    /\ prs' = [prs EXCEPT ![run.pr].linked = TRUE]
    /\ GoTo("ready")
    /\ UNCHANGED <<gitVars, issue, passed, run, baseVars>>

\* gh pr ready, when it is a draft.
MakeReady ==
    /\ pc = "ready"
    /\ prs' = [prs EXCEPT ![run.pr].draft = FALSE]
    /\ IF run.merge THEN GoTo("checks") /\ UNCHANGED run ELSE Finish("READY_FOR_REVIEW")
    /\ UNCHANGED <<gitVars, issue, passed, baseVars>>

\* gh pr checks --watch: waits for the checks of the pull request.
WatchChecks ==
    /\ pc = "checks"
    /\ GoTo("merge")
    /\ UNCHANGED <<gitVars, prs, issue, passed, run, baseVars>>

\* What GitHub does to a pull request it merges: whatever the branch points to
\* at origin goes onto the tip of the target branch.
Landed(p) == [p EXCEPT !.state = "MERGED", !.merged = remote, !.onto = main]

\* The pull request, with the request of the running finalize.
AskedFor(p) == [p EXCEPT !.asked = [evaluated |-> run.head, base |-> run.base, tip |-> run.tip, calm |-> run.calm]]

\* gh pr merge --squash merges, unless the pull request is a draft.
MergePr ==
    /\ pc = "merge"
    /\ prs[run.pr].state = "OPEN" /\ ~prs[run.pr].draft
    /\ prs' = [prs EXCEPT ![run.pr] = Landed(AskedFor(@))]
    /\ main' = main + 1
    /\ GoTo("viewPr")
    /\ UNCHANGED <<gitVars, issue, lock, passed, run>>

\* gh succeeds although nothing is merged yet: GitHub defers the merge.
MergeDeferred ==
    /\ pc = "merge"
    /\ prs[run.pr].state = "OPEN" /\ ~prs[run.pr].draft
    /\ prs' = [prs EXCEPT ![run.pr] = AskedFor(@)]
    /\ GoTo("viewPr")
    /\ UNCHANGED <<gitVars, issue, passed, run, baseVars>>

\* gh succeeds because the pull request is merged already.
AlreadyMerged ==
    /\ pc = "merge"
    /\ prs[run.pr].state = "MERGED"
    /\ GoTo("viewPr")
    /\ UNCHANGED <<gitVars, prs, issue, passed, run, baseVars>>

\* Mutant: the result of the merge is not looked at.
ViewPrUnchecked ==
    /\ pc = "viewPr"
    /\ GoTo("viewIssue") /\ UNCHANGED run
    /\ UNCHANGED <<gitVars, prs, issue, passed, baseVars>>

\* gh pr view must say MERGED.
ViewPr ==
    /\ pc = "viewPr"
    /\ IF prs[run.pr].state = "MERGED" THEN GoTo("viewIssue") /\ UNCHANGED run ELSE Finish("FAIL")
    /\ UNCHANGED <<gitVars, prs, issue, passed, baseVars>>

\* Mutant: the issue is left to GitHub's own closing of linked issues.
ViewIssueTrusting ==
    /\ pc = "viewIssue"
    /\ Finish("COMPLETED")
    /\ UNCHANGED <<gitVars, prs, issue, passed, baseVars>>

\* gh issue view
ViewIssue ==
    /\ pc = "viewIssue"
    /\ IF issue = "OPEN" THEN GoTo("closeIssue") /\ UNCHANGED run ELSE Finish("COMPLETED")
    /\ UNCHANGED <<gitVars, prs, issue, passed, baseVars>>

\* gh issue close; it may take no effect.
CloseIssue ==
    /\ pc = "closeIssue"
    /\ issue' \in {issue, "CLOSED"}
    /\ GoTo("viewAgain")
    /\ UNCHANGED <<gitVars, prs, passed, run, baseVars>>

\* The second gh issue view.
ViewIssueAgain ==
    /\ pc = "viewAgain"
    /\ Finish(IF issue = "CLOSED" THEN "COMPLETED" ELSE "FAIL")
    /\ UNCHANGED <<gitVars, prs, issue, passed, baseVars>>

\* A command fails, or the process dies: what was done so far stays.
CommandFails ==
    /\ pc # "idle"
    /\ Finish("FAIL")
    /\ UNCHANGED <<gitVars, prs, issue, passed, baseVars>>

-----------------------------------------------------------------------------
(* What others do meanwhile *)

\* They disturb the running finalize and merges that wait for GitHub.
DisturbRun == run' = IF pc = "idle" THEN run ELSE [run EXCEPT !.calm = FALSE]
DisturbRequest(p) == IF p.state = "OPEN" THEN [p EXCEPT !.asked.calm = FALSE] ELSE p
Disturb == DisturbRun /\ prs' = [n \in DOMAIN prs |-> DisturbRequest(prs[n])]

CommitLocal ==
    /\ commits < MaxCommits
    /\ commits' = commits + 1
    /\ local' = [head |-> commits + 1, clean |-> TRUE]
    /\ Disturb
    /\ UNCHANGED <<remote, ahead, issue, passed, pc, result, runs, baseVars>>

EditLocal ==
    /\ local' = [local EXCEPT !.clean = ~@]
    /\ UNCHANGED <<commits, remote, ahead, prs, issue, passed, pc, run, result, runs, baseVars>>

\* agent-harness.py prepare: the old lock goes first, a new one names the
\* current tip if prepare succeeds.
Prepare ==
    /\ lock' \in {0, main} /\ lock' # lock
    /\ UNCHANGED <<gitVars, prs, issue, main, passed, pc, run, result, runs>>

\* Another branch is merged into the target branch.
MergeByOther ==
    /\ main < MaxMain
    /\ main' = main + 1
    /\ Disturb
    /\ UNCHANGED <<gitVars, issue, lock, passed, pc, result, runs>>

\* GitHub completes a merge that it deferred, or merges what it was asked to
\* although the answer never came, or somebody merges the pull request there.
LandPr(n) ==
    /\ n \in Open /\ ~prs[n].draft
    /\ prs' = [prs EXCEPT ![n] = Landed(@)]
    /\ main' = main + 1
    /\ DisturbRun
    /\ UNCHANGED <<gitVars, issue, lock, passed, pc, result, runs>>

\* Someone pushes to the branch from another clone.
PushByOther ==
    /\ commits < MaxCommits /\ remote # 0
    /\ commits' = commits + 1
    /\ remote' = commits + 1 /\ ahead' = TRUE
    /\ Disturb
    /\ UNCHANGED <<local, issue, passed, pc, result, runs, baseVars>>

Pull ==
    /\ ahead
    /\ local' = [local EXCEPT !.head = remote] /\ ahead' = FALSE
    /\ Disturb
    /\ UNCHANGED <<commits, remote, issue, passed, pc, result, runs, baseVars>>

OpenDraft ==
    /\ Open = {} /\ remote # 0 /\ Len(prs) < MaxPrs
    /\ prs' = Append(prs, NewPr(TRUE, FALSE))
    /\ UNCHANGED <<gitVars, issue, passed, pc, run, result, runs, baseVars>>

ClosePr(n) ==
    /\ n \in Open
    /\ prs' = [prs EXCEPT ![n].state = "CLOSED"]
    /\ UNCHANGED <<gitVars, issue, passed, pc, run, result, runs, baseVars>>

\* GitHub closes the issue a merged pull request is linked to, in a while.
AutoClose ==
    /\ issue = "OPEN"
    /\ \E n \in DOMAIN prs : prs[n].state = "MERGED" /\ prs[n].linked
    /\ issue' = "CLOSED"
    /\ UNCHANGED <<gitVars, prs, passed, pc, run, result, runs, baseVars>>

Finalize ==
    \/ \E merge \in BOOLEAN : Start(merge)
    \/ AssertCleanWorktree \/ EvaluateAndReadEvidence \/ Push \/ ListPrs
    \/ CreatePr \/ LinkIssue \/ MakeReady
    \/ WatchChecks \/ MergePr \/ MergeDeferred \/ AlreadyMerged \/ ViewPr
    \/ ViewIssue \/ CloseIssue \/ ViewIssueAgain \/ CommandFails

Next ==
    \/ Finalize
    \/ CommitLocal \/ EditLocal \/ Prepare \/ MergeByOther \/ PushByOther \/ Pull \/ AutoClose \/ OpenDraft
    \/ \E n \in DOMAIN prs : LandPr(n) \/ ClosePr(n)

Spec == Init /\ [][Next]_vars

-----------------------------------------------------------------------------
(* Correctness *)

Merged == {n \in DOMAIN prs : prs[n].state = "MERGED"}

\* COMPLETED is only reported for a merged pull request and a closed issue,
\* although gh pr merge may return before either happens.
CompletedMeansDone ==
    result.state = "COMPLETED" => result.pr \in Merged /\ issue = "CLOSED"

\* The issue is never closed while its change is unmerged, also not by a run
\* that fails half way.
ClosedMeansMerged == issue = "CLOSED" => Merged # {}

\* What a run may rely on at each of its commands: the branch is at origin,
\* its pull request exists, and is merged once gh pr view said so;
RunKnowsItsPr ==
    /\ pc \in Step \ {"clean", "evaluate", "push"} => remote # 0
    /\ pc \in Step \ {"clean", "evaluate", "push", "list", "create"} => run.pr \in DOMAIN prs
    /\ pc \in {"viewIssue", "closeIssue", "viewAgain"} => run.pr \in Merged

\* from evaluate to the merge it has PASS evidence on the tip that origin had
\* when it evaluated; and what it evaluated is still what it would push and
\* merge, unless somebody disturbed it.
UntilMerge == {"push", "list", "create", "link", "ready", "checks", "merge"}
RunKnowsItsEvidence ==
    /\ pc \in UntilMerge => <<run.head, run.base>> \in passed /\ run.base = run.tip
    /\ pc # "idle" /\ run.calm =>
          /\ run.head = local.head
          /\ pc \in UntilMerge => run.base = main
          /\ pc \in UntilMerge \ {"push"} => remote = run.head

\* What is left on GitHub of a run that asked for a merge: it was evaluated
\* on a tip not above the one the merge went or will go onto; and while
\* nobody disturbs it, it will merge what was evaluated, whatever later runs
\* push.
RequestsKnowTheirEvidence ==
    \A n \in DOMAIN prs :
        LET a == prs[n].asked IN
        /\ a.base = a.tip
        /\ a.base <= (IF prs[n].state = "MERGED" THEN prs[n].onto ELSE main)
        /\ prs[n].state = "MERGED" => prs[n].onto < main
        /\ prs[n].state = "OPEN" /\ a.calm =>
              /\ a.evaluated = local.head /\ a.evaluated = remote
              /\ a.base = main /\ <<a.evaluated, a.base>> \in passed

\* The inductive invariant: one open pull request, no step after the merge
\* without a merged pull request (merge_and_verify looks again before it goes
\* on to the issue), and so no closed issue without one; no request to merge
\* without the run's own evidence, also when GitHub merges after the run.
PublishInv ==
    TypeOK /\ RunKnowsItsPr /\ RunKnowsItsEvidence /\ RequestsKnowTheirEvidence /\ ClosedMeansMerged

\* Without anybody else committing, pushing or merging from the start of a run
\* to the merge it asks for, what is merged is the commit it has PASS evidence
\* for, into the very base tip the evidence is about, at once or after the run
\* has ended, whichever other runs fail or push meanwhile and whatever pull
\* request or lock they leave.
UndisturbedMergeIsEvaluated ==
    \A n \in Merged : prs[n].asked.calm =>
        prs[n].merged = prs[n].asked.evaluated /\ <<prs[n].merged, prs[n].onto>> \in passed

\* A prepare serves no second merge once the first has landed: the merge moves
\* the tip that the lock names, and every later evaluate compares the two
\* (validate_plan_lock).  Two merges share a prepare only when the later run
\* evaluated before the earlier merge landed, which a deferred merge allows.
PreparedForEachMerge ==
    \A m, n \in Merged : prs[m].onto < prs[n].asked.tip => prs[m].asked.base # prs[n].asked.base

\* orchestration-policy.json: "candidateHead equals evaluated HEAD" is
\* required for the merge.  Every commit merged on request of a finalize would
\* be the one that it evaluated.
MergedHeadIsEvaluated ==
    \A n \in Merged : prs[n].asked # Unasked => prs[n].merged = prs[n].asked.evaluated
=============================================================================
