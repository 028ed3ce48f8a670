---------------------------- MODULE PublishProofs ---------------------------
(***************************************************************************)
(* What finalize guarantees about the merge, for every number of commits,  *)
(* pull requests, merges by others and runs.                               *)
(***************************************************************************)
EXTENDS Publish, TLAPS

RunType == [head : 0..commits, merge : BOOLEAN, pr : 0..Len(prs), base : 0..main, tip : 0..main, calm : BOOLEAN]
ResultType == [state : Result, pr : 0..Len(prs)]

\* What is known of one pull request, given the local and remote heads, the
\* tip of the target branch and the evidence: RequestsKnowTheirEvidence and
\* UndisturbedMergeIsEvaluated for it.
MergeKnown(p, head, rem, tip, pass) ==
    /\ p.asked.base = p.asked.tip
    /\ p.state = "MERGED" =>
          /\ p.asked.base <= p.onto /\ p.onto < tip
          /\ p.asked.calm => p.merged = p.asked.evaluated /\ <<p.merged, p.onto>> \in pass
    /\ p.state # "MERGED" => p.asked.base <= tip
    /\ p.state = "OPEN" /\ p.asked.calm =>
          /\ p.asked.evaluated = head /\ p.asked.evaluated = rem
          /\ p.asked.base = tip /\ <<p.asked.evaluated, p.asked.base>> \in pass

\* The invariant of the theorems, in three parts: git and GitHub's state, the
\* pull requests, and the run.
GitInv ==
    /\ commits \in Nat \ {0}
    /\ local \in [head : 1..commits, clean : BOOLEAN]
    /\ remote \in 0..commits /\ ahead \in BOOLEAN /\ (ahead => remote # 0)
    /\ issue \in {"OPEN", "CLOSED"}
    /\ main \in Nat \ {0} /\ lock \in 0..main
    /\ passed \subseteq (1..commits) \X (0..main)
    /\ runs \in Nat

PrsInv ==
    /\ prs \in Seq(Pr) /\ (prs # <<>> => remote # 0)
    /\ \A n \in DOMAIN prs : prs[n].merged \in IF prs[n].state = "MERGED" THEN 1..commits ELSE {0}
    /\ \A m, n \in Open : m = n
    /\ \A n \in DOMAIN prs : MergeKnown(prs[n], local.head, remote, main, passed)

RunInv ==
    /\ pc \in Step \cup {"idle"} /\ run \in RunType /\ result \in ResultType
    /\ RunKnowsItsPr /\ RunKnowsItsEvidence
    /\ ClosedMeansMerged /\ CompletedMeansDone

FinalizeInv == GitInv /\ PrsInv /\ RunInv

\* No pull request goes away, none is un-merged, and the target branch and the
\* commits only grow.
Grow ==
    /\ commits' \in Nat /\ commits <= commits' /\ main' \in Nat /\ main <= main'
    /\ Len(prs) <= Len(prs') /\ Len(prs) \in Nat /\ Len(prs') \in Nat
    /\ DOMAIN prs = 1..Len(prs) /\ DOMAIN prs' = 1..Len(prs')
    /\ Merged \subseteq Merged'

-----------------------------------------------------------------------------
(* What the invariant says *)

\* FinalizeInv is PublishInv and what it is for.
LEMMA InvariantMeans == FinalizeInv => PublishInv /\ CompletedMeansDone /\ UndisturbedMergeIsEvaluated
  <1> SUFFICES ASSUME FinalizeInv PROVE PublishInv /\ CompletedMeansDone /\ UndisturbedMergeIsEvaluated
    OBVIOUS
  <1>1. TypeOK
    BY DEF FinalizeInv, GitInv, PrsInv, RunInv, RunType, ResultType, TypeOK
  <1>2. RequestsKnowTheirEvidence
    BY DEF FinalizeInv, PrsInv, MergeKnown, RequestsKnowTheirEvidence
  <1>3. UndisturbedMergeIsEvaluated
    BY DEF FinalizeInv, PrsInv, MergeKnown, UndisturbedMergeIsEvaluated, Merged
  <1>. QED  BY <1>1, <1>2, <1>3 DEF FinalizeInv, RunInv, PublishInv

\* A merge went onto the tip its lock named or a later one, so no run that saw
\* the merge had the same lock.
LEMMA InvariantSeparates == FinalizeInv => PreparedForEachMerge
  <1> SUFFICES ASSUME FinalizeInv, NEW m \in Merged, NEW n \in Merged, prs[m].onto < prs[n].asked.tip
               PROVE  prs[m].asked.base # prs[n].asked.base
    BY DEF PreparedForEachMerge
  <1>1. m \in DOMAIN prs /\ n \in DOMAIN prs /\ prs[m].state = "MERGED"
    BY DEF Merged
  <1>2. /\ prs[m].asked.base <= prs[m].onto
        /\ prs[n].asked.base = prs[n].asked.tip
    BY <1>1 DEF FinalizeInv, PrsInv, MergeKnown
  <1>3. prs[m] \in Pr /\ prs[n] \in Pr
    BY <1>1 DEF FinalizeInv, PrsInv
  <1>4. prs[m].onto \in Nat /\ prs[m].asked.base \in Nat /\ prs[n].asked.tip \in Nat
    BY <1>3 DEF Pr, Request
  <1>. QED  BY <1>2, <1>4

\* Before the first finalize nothing is merged, asked for, closed or reported.
LEMMA InitFinalize == Init => FinalizeInv
  <1> SUFFICES ASSUME Init PROVE FinalizeInv
    OBVIOUS
  <1>1. /\ prs \in Seq(Pr)
        /\ \A n \in DOMAIN prs : prs[n].state # "MERGED" /\ prs[n].merged = 0 /\ prs[n].asked = Unasked
        /\ \A m, n \in DOMAIN prs : prs[m].state = "OPEN" /\ prs[n].state = "OPEN" => m = n
    BY InitialPrsAssumption DEF Init
  <1>2. GitInv
    <2>1. commits = 1 /\ local = [head |-> 1, clean |-> TRUE] /\ remote \in {0, 1} /\ ahead = FALSE
          /\ issue = "OPEN" /\ passed = {} /\ main = 1 /\ lock = 0 /\ runs = 0
      BY DEF Init
    <2>2. local \in [head : 1..commits, clean : BOOLEAN]
      BY <2>1
    <2>3. ahead \in BOOLEAN /\ ~ahead
      BY <2>1, Zenon
    <2>. QED  BY <2>1, <2>2, <2>3 DEF GitInv
  <1>3. PrsInv
    <2>1. main \in Nat
      BY DEF Init
    <2>2. \A n \in DOMAIN prs : MergeKnown(prs[n], local.head, remote, main, passed)
      BY <1>1, <2>1 DEF MergeKnown, Unasked
    <2>3. prs # <<>> => remote # 0
      BY DEF Init
    <2>. QED  BY <1>1, <2>2, <2>3 DEF PrsInv, Open
  <1>4. RunInv
    <2>1. pc = "idle" /\ run = NoRun /\ result = [state |-> "NONE", pr |-> 0] /\ Len(prs) \in Nat
          /\ commits = 1 /\ main = 1 /\ issue = "OPEN"
      BY <1>1 DEF Init
    <2>2. run \in RunType /\ result \in ResultType
      BY <2>1 DEF RunType, ResultType, NoRun, Result
    <2>. QED  BY <2>1, <2>2 DEF RunInv, RunKnowsItsPr, RunKnowsItsEvidence, UntilMerge, Step,
                               ClosedMeansMerged, CompletedMeansDone
  <1>. QED  BY <1>2, <1>3, <1>4 DEF FinalizeInv

-----------------------------------------------------------------------------
(* The pull requests *)

\* A pull request that is not asked for or merged by the step: what is known
\* of it stays, while it is open and calm only if nothing it relies on moves.
LEMMA KnownStays ==
    ASSUME NEW p \in Pr, NEW q \in Pr, NEW head, NEW rem, NEW tip \in Nat, NEW pass,
           NEW rem2, NEW head2, NEW tip2 \in Nat, NEW pass2,
           MergeKnown(p, head, rem, tip, pass), tip <= tip2, pass \subseteq pass2,
           q.merged = p.merged, q.onto = p.onto,
           q.state = p.state \/ (p.state # "MERGED" /\ q.state = "CLOSED"),
           q.asked.evaluated = p.asked.evaluated, q.asked.base = p.asked.base, q.asked.tip = p.asked.tip,
           q.asked.calm => p.asked.calm,
           q.state = "OPEN" /\ q.asked.calm => head2 = head /\ tip2 = tip /\ (rem2 = rem \/ rem2 = head)
    PROVE  MergeKnown(q, head2, rem2, tip2, pass2)
  <1>1. p.asked \in Request /\ p.onto \in Nat
    BY DEF Pr
  <1>2. p.asked.base \in Nat
    BY <1>1 DEF Request
  <1>. QED  BY <1>1, <1>2 DEF MergeKnown

\* The pull requests stay as they are, and so does what they rely on.
LEMMA PrsKept ==
    ASSUME FinalizeInv, prs' = prs, commits' \in Nat, commits <= commits', main' = main,
           passed \subseteq passed', local'.head = local.head, remote' \in {remote, local.head}
    PROVE  PrsInv' /\ Grow
  <1>1. PrsInv /\ main \in Nat /\ commits \in Nat
    BY DEF FinalizeInv, GitInv
  <1>2. \A n \in DOMAIN prs : prs[n] \in Pr
    BY <1>1 DEF PrsInv
  <1>3. \A n \in DOMAIN prs' : MergeKnown(prs'[n], local'.head, remote', main', passed')
    <2> SUFFICES ASSUME NEW n \in DOMAIN prs PROVE MergeKnown(prs[n], local'.head, remote', main', passed')
      OBVIOUS
    <2>1. prs[n] \in Pr /\ MergeKnown(prs[n], local.head, remote, main, passed)
      BY <1>1, <1>2 DEF PrsInv
    <2>. QED  BY <1>1, <2>1, KnownStays
  <1>4. \A n \in DOMAIN prs' : prs'[n].merged \in IF prs'[n].state = "MERGED" THEN 1..commits' ELSE {0}
    BY <1>1 DEF PrsInv
  <1>5. \A m, n \in Open' : m = n
    BY <1>1 DEF PrsInv, Open
  <1>6. Merged' = Merged
    BY DEF Merged
  <1>7. prs' # <<>> => remote' # 0
    <2>1. local.head # 0
      BY DEF FinalizeInv, GitInv
    <2>. QED  BY <1>1, <2>1 DEF PrsInv
  <1>. QED  BY <1>1, <1>3, <1>4, <1>5, <1>6, <1>7 DEF PrsInv, Grow

\* Requests that wait for GitHub are disturbed.
LEMMA PrsDisturbed ==
    ASSUME FinalizeInv, prs' = [n \in DOMAIN prs |-> DisturbRequest(prs[n])],
           commits' \in Nat, commits <= commits', main' \in Nat, main <= main', passed' = passed,
           remote # 0 => remote' # 0
    PROVE  PrsInv' /\ Grow
  <1>1. PrsInv /\ main \in Nat /\ commits \in Nat /\ prs \in Seq(Pr)
    BY DEF FinalizeInv, GitInv, PrsInv
  <1>2. \A n \in DOMAIN prs :
           /\ prs[n] \in Pr /\ DisturbRequest(prs[n]) \in Pr
           /\ DisturbRequest(prs[n]).state = prs[n].state /\ DisturbRequest(prs[n]).merged = prs[n].merged
           /\ DisturbRequest(prs[n]).onto = prs[n].onto
           /\ DisturbRequest(prs[n]).asked.evaluated = prs[n].asked.evaluated
           /\ DisturbRequest(prs[n]).asked.base = prs[n].asked.base
           /\ DisturbRequest(prs[n]).asked.tip = prs[n].asked.tip
           /\ DisturbRequest(prs[n]).asked.calm => prs[n].asked.calm /\ prs[n].state # "OPEN"
    <2> SUFFICES ASSUME NEW p \in Pr
                 PROVE  /\ DisturbRequest(p) \in Pr
                        /\ DisturbRequest(p).state = p.state /\ DisturbRequest(p).merged = p.merged
                        /\ DisturbRequest(p).onto = p.onto
                        /\ DisturbRequest(p).asked.evaluated = p.asked.evaluated
                        /\ DisturbRequest(p).asked.base = p.asked.base
                        /\ DisturbRequest(p).asked.tip = p.asked.tip
                        /\ DisturbRequest(p).asked.calm => p.asked.calm /\ p.state # "OPEN"
      BY <1>1
    <2>1. p.asked \in Request
      BY DEF Pr
    <2>2. CASE p.state = "OPEN"
      <3> DEFINE a == [p.asked EXCEPT !.calm = FALSE]
                 r == [p EXCEPT !.asked = a]
      <3>1. DisturbRequest(p) = r
        BY <2>2 DEF DisturbRequest
      <3>2. a \in Request /\ a.evaluated = p.asked.evaluated /\ a.base = p.asked.base /\ a.tip = p.asked.tip /\ ~a.calm
        BY <2>1 DEF Request
      <3> HIDE DEF a
      <3>3. r \in Pr /\ r.state = p.state /\ r.merged = p.merged /\ r.onto = p.onto /\ r.asked = a
        BY <3>2 DEF Pr
      <3>. QED  BY <3>1, <3>2, <3>3
    <2>3. CASE p.state # "OPEN"
      BY <2>3 DEF DisturbRequest
    <2>. QED  BY <2>2, <2>3
  <1>3. DOMAIN prs' = DOMAIN prs /\ \A n \in DOMAIN prs : prs'[n] = DisturbRequest(prs[n])
    OBVIOUS
  <1>4. DOMAIN prs = 1..Len(prs) /\ Len(prs) \in Nat
    BY <1>1
  <1>5. prs' \in Seq(Pr) /\ Len(prs') = Len(prs)
    <2>1. prs' = [n \in 1..Len(prs) |-> DisturbRequest(prs[n])]
      BY <1>4
    <2>2. \A n \in 1..Len(prs) : DisturbRequest(prs[n]) \in Pr
      BY <1>2, <1>4
    <2>. QED  BY <1>4, <2>1, <2>2
  <1>6. \A n \in DOMAIN prs' : MergeKnown(prs'[n], local'.head, remote', main', passed')
    <2> SUFFICES ASSUME NEW n \in DOMAIN prs
                 PROVE  MergeKnown(DisturbRequest(prs[n]), local'.head, remote', main', passed')
      BY <1>3
    <2>1. MergeKnown(prs[n], local.head, remote, main, passed)
      BY <1>1 DEF PrsInv
    <2>. QED  BY <1>1, <1>2, <2>1, KnownStays
  <1>7. \A n \in DOMAIN prs' : prs'[n].merged \in IF prs'[n].state = "MERGED" THEN 1..commits' ELSE {0}
    <2>1. \A n \in DOMAIN prs : prs[n].merged \in IF prs[n].state = "MERGED" THEN 1..commits ELSE {0}
      BY <1>1 DEF PrsInv
    <2>2. 1..commits \subseteq 1..commits'
      BY <1>1
    <2>3. \A n \in DOMAIN prs : prs'[n].state = prs[n].state /\ prs'[n].merged = prs[n].merged
      BY <1>2, <1>3
    <2>. QED  BY <1>3, <2>1, <2>2, <2>3
  <1>8. Open' = Open /\ Merged' = Merged
    BY <1>2, <1>3 DEF Open, Merged
  <1>9. prs' # <<>> => remote' # 0
    BY <1>1, <1>4, <1>5 DEF PrsInv
  <1>. QED  BY <1>1, <1>3, <1>4, <1>5, <1>6, <1>7, <1>8, <1>9 DEF PrsInv, Grow

\* One pull request is edited, asked for, closed or merged; if it is merged,
\* it was the open one, so that the target branch moves for no other.
LEMMA PrsEdited ==
    ASSUME FinalizeInv, NEW k \in DOMAIN prs, NEW r \in Pr, prs' = [prs EXCEPT ![k] = r],
           UNCHANGED <<gitVars, passed>>, main' \in Nat, main <= main', main' = main \/ k \in Open,
           r.state = "OPEN" => prs[k].state = "OPEN", prs[k].state = "MERGED" => r.state = "MERGED",
           r.merged \in IF r.state = "MERGED" THEN 1..commits ELSE {0},
           MergeKnown(r, local.head, remote, main', passed)
    PROVE  PrsInv' /\ Grow
  <1>1. PrsInv /\ main \in Nat /\ commits \in Nat /\ prs \in Seq(Pr)
    BY DEF FinalizeInv, GitInv, PrsInv
  <1>2. UNCHANGED <<commits, local, remote, passed>>
    BY DEF gitVars
  <1>3. /\ prs' \in Seq(Pr) /\ Len(prs') = Len(prs) /\ Len(prs) \in Nat
        /\ DOMAIN prs' = DOMAIN prs /\ DOMAIN prs = 1..Len(prs)
        /\ prs'[k] = r /\ \A n \in DOMAIN prs : n # k => prs'[n] = prs[n]
    BY <1>1
  <1>4. Open' \subseteq Open /\ Merged \subseteq Merged'
    BY <1>3 DEF Open, Merged
  <1>5. \A n \in DOMAIN prs' : MergeKnown(prs'[n], local'.head, remote', main', passed')
    <2> SUFFICES ASSUME NEW n \in DOMAIN prs, n # k PROVE MergeKnown(prs[n], local.head, remote, main', passed)
      BY <1>2, <1>3
    <2>1. MergeKnown(prs[n], local.head, remote, main, passed) /\ prs[n] \in Pr
      BY <1>1 DEF PrsInv
    <2>2. prs[n].state = "OPEN" => main' = main
      BY <1>1 DEF PrsInv, Open
    <2>. QED  BY <1>1, <2>1, <2>2, KnownStays
  <1>6. \A n \in DOMAIN prs' : prs'[n].merged \in IF prs'[n].state = "MERGED" THEN 1..commits' ELSE {0}
    <2>1. \A n \in DOMAIN prs : prs[n].merged \in IF prs[n].state = "MERGED" THEN 1..commits ELSE {0}
      BY <1>1 DEF PrsInv
    <2>. QED  BY <1>2, <1>3, <2>1
  <1>7. \A m, n \in Open' : m = n
    BY <1>1, <1>4 DEF PrsInv
  <1>8. remote' # 0
    BY <1>1, <1>2 DEF PrsInv
  <1>. QED  BY <1>1, <1>2, <1>3, <1>4, <1>5, <1>6, <1>7, <1>8 DEF PrsInv, Grow

\* A pull request is added: it is the only open one, and nobody asked for it.
LEMMA PrsAppended ==
    ASSUME FinalizeInv, Open = {}, remote # 0, NEW d \in BOOLEAN, NEW l \in BOOLEAN,
           prs' = Append(prs, NewPr(d, l)), UNCHANGED <<gitVars, passed, main>>
    PROVE  PrsInv' /\ Grow /\ Len(prs') = Len(prs) + 1
  <1>1. PrsInv /\ main \in Nat /\ commits \in Nat /\ prs \in Seq(Pr)
    BY DEF FinalizeInv, GitInv, PrsInv
  <1>2. UNCHANGED <<commits, local, remote, passed, main>>
    BY DEF gitVars
  <1>3. /\ NewPr(d, l) \in Pr /\ NewPr(d, l).state = "OPEN" /\ NewPr(d, l).merged = 0
        /\ NewPr(d, l).asked = Unasked
    <2>1. Unasked \in Request
      BY DEF Unasked, Request
    <2>. QED  BY <2>1 DEF NewPr, Pr, PrState
  <1>4. /\ prs' \in Seq(Pr) /\ Len(prs) \in Nat /\ Len(prs') = Len(prs) + 1
        /\ DOMAIN prs = 1..Len(prs) /\ DOMAIN prs' = 1..Len(prs')
        /\ DOMAIN prs' = DOMAIN prs \cup {Len(prs) + 1}
        /\ prs'[Len(prs) + 1] = NewPr(d, l)
        /\ \A n \in DOMAIN prs : prs'[n] = prs[n]
    BY <1>1, <1>3
  <1>5. MergeKnown(NewPr(d, l), local.head, remote, main, passed)
    BY <1>1, <1>3 DEF MergeKnown, Unasked
  <1>6. \A n \in DOMAIN prs' : MergeKnown(prs'[n], local'.head, remote', main', passed')
    BY <1>1, <1>2, <1>4, <1>5 DEF PrsInv
  <1>7. \A n \in DOMAIN prs' : prs'[n].merged \in IF prs'[n].state = "MERGED" THEN 1..commits' ELSE {0}
    <2>1. \A n \in DOMAIN prs : prs[n].merged \in IF prs[n].state = "MERGED" THEN 1..commits ELSE {0}
      BY <1>1 DEF PrsInv
    <2>. QED  BY <1>2, <1>3, <1>4, <2>1
  <1>8. \A n \in Open' : n = Len(prs) + 1
    BY <1>4 DEF Open
  <1>9. Merged \subseteq Merged'
    BY <1>4 DEF Merged
  <1>. QED  BY <1>1, <1>2, <1>4, <1>6, <1>7, <1>8, <1>9 DEF PrsInv, Grow

-----------------------------------------------------------------------------
(* The run *)

\* Types of what the run knows grow with the state.
LEMMA TypesGrow ==
    ASSUME Grow, FinalizeInv
    PROVE  RunType \subseteq RunType' /\ ResultType \subseteq ResultType'
  <1>1. commits \in Nat /\ main \in Nat
    BY DEF FinalizeInv, GitInv
  <1>2. 0..commits \subseteq 0..commits' /\ 0..main \subseteq 0..main' /\ 0..Len(prs) \subseteq 0..Len(prs')
    BY <1>1 DEF Grow
  <1>. QED  BY <1>2 DEF RunType, ResultType

\* The run goes on to command q, and knows what q relies on.
LEMMA RunGoesOn ==
    ASSUME FinalizeInv, Grow, GoTo(pc') \/ UNCHANGED result,
           pc' \in Step, run' \in RunType',
           pc' \in Step \ {"clean", "evaluate", "push"} => remote' # 0,
           pc' \in Step \ {"clean", "evaluate", "push", "list", "create"} => run'.pr \in DOMAIN prs',
           pc' \in {"viewIssue", "closeIssue", "viewAgain"} => run'.pr \in Merged',
           pc' \in UntilMerge => <<run'.head, run'.base>> \in passed' /\ run'.base = run'.tip,
           run'.calm =>
              /\ run'.head = local'.head
              /\ pc' \in UntilMerge => run'.base = main'
              /\ pc' \in UntilMerge \ {"push"} => remote' = run'.head,
           issue' \in {issue, "CLOSED"}, issue' # issue => Merged' # {}
    PROVE  RunInv'
  <1>1. result' = result /\ result' \in ResultType' /\ Merged \subseteq Merged' /\ RunInv
    BY TypesGrow DEF FinalizeInv, RunInv, GoTo, Grow
  <1>2. RunKnowsItsPr'
    BY DEF RunKnowsItsPr
  <1>3. RunKnowsItsEvidence'
    BY DEF RunKnowsItsEvidence, UntilMerge
  <1>4. ClosedMeansMerged' /\ CompletedMeansDone'
    BY <1>1 DEF RunInv, ClosedMeansMerged, CompletedMeansDone
  <1>. QED  BY <1>1, <1>2, <1>3, <1>4 DEF RunInv

\* The run ends, with COMPLETED only when that is true.
LEMMA RunEnds ==
    ASSUME FinalizeInv, Grow, pc' = "idle", run' = NoRun, result' \in ResultType', UNCHANGED issue,
           result'.state = "COMPLETED" => result'.pr \in Merged' /\ issue = "CLOSED"
    PROVE  RunInv'
  <1>1. Merged \subseteq Merged' /\ ClosedMeansMerged
    BY DEF FinalizeInv, RunInv, Grow
  <1>2. run' \in RunType'
    BY DEF NoRun, RunType, Grow
  <1>3. RunKnowsItsPr' /\ RunKnowsItsEvidence'
    BY DEF RunKnowsItsPr, RunKnowsItsEvidence, UntilMerge, Step
  <1>4. ClosedMeansMerged' /\ CompletedMeansDone'
    BY <1>1 DEF ClosedMeansMerged, CompletedMeansDone
  <1>. QED  BY <1>2, <1>3, <1>4 DEF RunInv

\* Others act: they disturb the run or leave what it knows as it is.
LEMMA RunWatches ==
    ASSUME FinalizeInv, Grow, UNCHANGED <<pc, result, passed>>,
           issue' \in {issue, "CLOSED"}, issue' # issue => Merged' # {},
           remote # 0 => remote' # 0,
           \/ DisturbRun
           \/ run' = run /\ local'.head = local.head /\ remote' = remote /\ main' = main
    PROVE  RunInv'
  <1>1. RunInv /\ RunKnowsItsPr /\ RunKnowsItsEvidence /\ run \in RunType /\ result \in ResultType
        /\ Merged \subseteq Merged' /\ DOMAIN prs \subseteq DOMAIN prs'
    BY DEF FinalizeInv, RunInv, Grow
  <1>2. /\ run' \in RunType /\ run'.head = run.head /\ run'.base = run.base /\ run'.tip = run.tip /\ run'.pr = run.pr
        /\ pc # "idle" /\ run'.calm =>
              run.calm /\ local'.head = local.head /\ remote' = remote /\ main' = main
    <2>1. CASE DisturbRun /\ pc # "idle"
      <3> DEFINE r == [run EXCEPT !.calm = FALSE]
      <3>1. /\ r \in RunType /\ r.head = run.head /\ r.base = run.base /\ r.tip = run.tip
            /\ r.pr = run.pr /\ r.calm = FALSE
        BY <1>1 DEF RunType
      <3>2. run' = r
        BY <2>1 DEF DisturbRun
      <3> HIDE DEF r
      <3>. QED  BY <3>1, <3>2
    <2>2. CASE DisturbRun /\ pc = "idle"
      BY <1>1, <2>2 DEF DisturbRun
    <2>3. CASE run' = run /\ local'.head = local.head /\ remote' = remote /\ main' = main
      BY <1>1, <2>3
    <2>. QED  BY <2>1, <2>2, <2>3
  <1>3. run' \in RunType' /\ result' \in ResultType'
    BY <1>1, <1>2, TypesGrow
  <1>4. RunKnowsItsPr'
    BY <1>1, <1>2 DEF RunKnowsItsPr
  <1>5. RunKnowsItsEvidence'
    BY <1>1, <1>2 DEF RunKnowsItsEvidence, UntilMerge
  <1>6. ClosedMeansMerged' /\ CompletedMeansDone'
    BY <1>1 DEF RunInv, ClosedMeansMerged, CompletedMeansDone
  <1>. QED  BY <1>1, <1>3, <1>4, <1>5, <1>6 DEF RunInv

-----------------------------------------------------------------------------
(* The steps of finalize *)

\* A command that neither changes pull requests nor moves a branch.
LEMMA CommandKeeps ==
    ASSUME FinalizeInv, UNCHANGED <<gitVars, prs, main>>, passed \subseteq passed',
           passed' \subseteq (1..commits) \X (0..main), lock' \in 0..main,
           issue' \in {issue, "CLOSED"}, runs' \in Nat
    PROVE  GitInv' /\ PrsInv' /\ Grow /\ RunType' = RunType /\ ResultType' = ResultType /\ Merged' = Merged
  <1>1. PrsInv' /\ Grow
    BY PrsKept DEF FinalizeInv, GitInv, gitVars
  <1>2. GitInv'
    BY DEF FinalizeInv, GitInv, gitVars
  <1>. QED  BY <1>1, <1>2 DEF RunType, ResultType, Merged, gitVars

\* A run that ends with an error, or without merging, promises nothing.
LEMMA FinishInv ==
    ASSUME FinalizeInv, UNCHANGED <<gitVars, prs, main, issue>>, passed \subseteq passed',
           passed' \subseteq (1..commits) \X (0..main), lock' \in 0..main,
           NEW s \in Result, Finish(s),
           s = "COMPLETED" => run.pr \in Merged /\ issue = "CLOSED"
    PROVE  FinalizeInv'
  <1>1. runs' \in Nat
    BY DEF FinalizeInv, GitInv, Finish
  <1>2. GitInv' /\ PrsInv' /\ Grow /\ ResultType' = ResultType /\ Merged' = Merged
    BY <1>1, CommandKeeps
  <1>3. pc' = "idle" /\ run' = NoRun /\ result' = [state |-> s, pr |-> run.pr]
    BY DEF Finish
  <1>4. result' \in ResultType
    BY <1>3 DEF FinalizeInv, RunInv, RunType, ResultType
  <1>5. RunInv'
    BY <1>2, <1>3, <1>4, RunEnds
  <1>. QED  BY <1>2, <1>5 DEF FinalizeInv

\* Every step that fails ends the program.
LEMMA FailInv ==
    ASSUME FinalizeInv, UNCHANGED <<gitVars, prs, main, passed, issue>>, lock' \in {lock, 0}, Finish("FAIL")
    PROVE  FinalizeInv'
  <1>1. lock' \in 0..main /\ passed \subseteq (1..commits) \X (0..main)
    BY DEF FinalizeInv, GitInv
  <1>. QED  BY <1>1, FinishInv DEF Result

\* A command that succeeds and goes on: the run keeps what it knows.
LEMMA GoToInv ==
    ASSUME FinalizeInv, UNCHANGED <<gitVars, prs, main, passed, lock, run>>,
           issue' \in {issue, "CLOSED"}, issue' # issue => Merged # {},
           pc # "idle", NEW q \in Step, GoTo(q),
           q \in Step \ {"clean", "evaluate", "push"} => remote # 0,
           q \in Step \ {"clean", "evaluate", "push", "list", "create"} => run.pr \in DOMAIN prs,
           q \in {"viewIssue", "closeIssue", "viewAgain"} => run.pr \in Merged,
           q \in UntilMerge => pc \in UntilMerge,
           q \in UntilMerge \ {"push"} /\ run.calm => remote = run.head
    PROVE  FinalizeInv'
  <1>1. pc' = q /\ result' = result /\ runs' = runs
    BY DEF GoTo
  <1>2. GitInv' /\ PrsInv' /\ Grow /\ RunType' = RunType /\ Merged' = Merged
    <2>1. passed \subseteq (1..commits) \X (0..main) /\ lock \in 0..main /\ runs \in Nat
      BY DEF FinalizeInv, GitInv
    <2>. QED  BY <1>1, <2>1, CommandKeeps
  <1>3. /\ run \in RunType
        /\ pc \in UntilMerge => <<run.head, run.base>> \in passed /\ run.base = run.tip
        /\ run.calm => run.head = local.head /\ (pc \in UntilMerge => run.base = main)
    BY DEF FinalizeInv, RunInv, RunKnowsItsEvidence
  <1>4. RunInv'
    <2>1. UNCHANGED <<local, remote>>
      BY DEF gitVars
    <2>. QED  BY <1>1, <1>2, <1>3, <2>1, RunGoesOn
  <1>. QED  BY <1>2, <1>4 DEF FinalizeInv

\* The program starts on the current HEAD.
LEMMA StartInv ==
    ASSUME FinalizeInv, NEW merge \in BOOLEAN, Start(merge)
    PROVE  FinalizeInv'
  <1>1. /\ UNCHANGED <<gitVars, prs, main, passed, lock, issue, result>>
        /\ pc' = "clean" /\ runs' = runs + 1
        /\ run' = [head |-> local.head, merge |-> merge, pr |-> 0, base |-> 0, tip |-> 0, calm |-> TRUE]
    BY DEF Start, baseVars, NoRun
  <1>2. GitInv' /\ PrsInv' /\ Grow /\ RunType' = RunType
    <2>1. passed \subseteq (1..commits) \X (0..main) /\ lock \in 0..main /\ runs' \in Nat
      BY <1>1 DEF FinalizeInv, GitInv
    <2>. QED  BY <1>1, <2>1, CommandKeeps
  <1>3. run' \in RunType
    <2>1. local.head \in 0..commits /\ main \in Nat /\ Len(prs) \in Nat
      BY DEF FinalizeInv, GitInv, PrsInv
    <2>. QED  BY <1>1, <2>1 DEF RunType
  <1>4. RunInv'
    <2>1. "clean" \in Step /\ "clean" \notin UntilMerge /\ UNCHANGED local
      BY <1>1 DEF Step, UntilMerge, gitVars
    <2>. QED  BY <1>1, <1>2, <1>3, <2>1, RunGoesOn
  <1>. QED  BY <1>2, <1>4 DEF FinalizeInv

\* PASS evidence is for the HEAD of the run, on the locked tip, which is the
\* one at origin.
LEMMA EvaluateInv ==
    ASSUME FinalizeInv, EvaluateAndReadEvidence
    PROVE  FinalizeInv'
  <1>0. UNCHANGED <<gitVars, prs, issue, main>> /\ pc = "evaluate"
    BY DEF EvaluateAndReadEvidence
  <1>1. CASE Finish("FAIL") /\ lock' \in {lock, 0} /\ UNCHANGED passed
    BY <1>0, <1>1, FailInv
  <1>2. CASE local.clean /\ lock = main /\ passed' = passed \cup {<<local.head, main>>} /\ UNCHANGED lock
             /\ IF local.head = run.head
                  THEN run' = [run EXCEPT !.base = lock, !.tip = main] /\ GoTo("push")
                  ELSE Finish("FAIL")
    <2>1. /\ passed \subseteq passed' /\ passed' \subseteq (1..commits) \X (0..main)
          /\ lock' \in 0..main /\ main \in 0..main /\ runs \in Nat
      <3>1. local.head \in 1..commits /\ main \in 0..main /\ runs \in Nat /\ lock \in 0..main
        BY DEF FinalizeInv, GitInv
      <3>2. passed \subseteq (1..commits) \X (0..main)
        BY DEF FinalizeInv, GitInv
      <3>. QED  BY <1>2, <3>1, <3>2
    <2>2. CASE local.head = run.head
      <3> DEFINE r == [run EXCEPT !.base = lock, !.tip = main]
      <3>1. run \in RunType
        BY DEF FinalizeInv, RunInv
      <3>2. r \in RunType /\ r.head = run.head /\ r.base = main /\ r.tip = main
        BY <1>2, <2>1, <3>1 DEF RunType
      <3>3. run' = r /\ pc' = "push" /\ result' = result /\ runs' = runs
        BY <1>2, <2>2 DEF GoTo
      <3> HIDE DEF r
      <3>4. GitInv' /\ PrsInv' /\ Grow /\ RunType' = RunType
        BY <1>0, <2>1, <3>3, CommandKeeps
      <3>5. RunInv'
        <4>1. "push" \in Step /\ UNCHANGED local
          BY <1>0 DEF Step, gitVars
        <4>. QED  BY <1>0, <1>2, <2>2, <3>2, <3>3, <3>4, <4>1, RunGoesOn
      <3>. QED  BY <3>4, <3>5 DEF FinalizeInv
    <2>3. CASE local.head # run.head
      BY <1>0, <1>2, <2>1, <2>3, FinishInv DEF Result
    <2>. QED  BY <2>2, <2>3
  <1>. QED  BY <1>1, <1>2 DEF EvaluateAndReadEvidence

\* gh pr list names the open pull request, if the branch is the evaluated
\* commit at origin.
LEMMA ListPrsInv ==
    ASSUME FinalizeInv, ListPrs
    PROVE  FinalizeInv'
  <1>0. /\ UNCHANGED <<gitVars, prs, main, passed, lock, issue>> /\ pc = "list"
        /\ RunKnowsItsPr /\ RunKnowsItsEvidence /\ run \in RunType
    BY DEF ListPrs, baseVars, FinalizeInv, RunInv
  <1>1. CASE Open = {}
    <2>1. GoTo("create") /\ UNCHANGED run
      BY <1>1 DEF ListPrs
    <2>2. remote # 0 /\ (run.calm => remote = run.head)
      BY <1>0 DEF RunKnowsItsPr, RunKnowsItsEvidence, Step, UntilMerge
    <2>. QED  BY <1>0, <2>1, <2>2, GoToInv DEF Step, UntilMerge
  <1>2. CASE Open # {} /\ remote = run.head
    <2> DEFINE k == CHOOSE n \in Open : TRUE
               r == [run EXCEPT !.pr = k]
    <2>1. k \in DOMAIN prs /\ k \in 0..Len(prs)
      <3>1. k \in Open /\ Open \subseteq DOMAIN prs
        BY <1>2 DEF Open
      <3>2. DOMAIN prs = 1..Len(prs)
        BY DEF FinalizeInv, PrsInv
      <3>. QED  BY <3>1, <3>2
    <2> HIDE DEF k
    <2>2. /\ r \in RunType /\ r.pr = k /\ r.head = run.head /\ r.base = run.base /\ r.tip = run.tip
          /\ r.calm = run.calm
      BY <1>0, <2>1 DEF RunType
    <2>3. run' = r /\ pc' = "link" /\ result' = result /\ runs' = runs
      BY <1>2 DEF ListPrs, GoTo, k
    <2> HIDE DEF r
    <2>4. GitInv' /\ PrsInv' /\ Grow /\ RunType' = RunType
      <3>1. passed \subseteq (1..commits) \X (0..main) /\ lock \in 0..main /\ runs \in Nat
        BY DEF FinalizeInv, GitInv
      <3>. QED  BY <1>0, <2>3, <3>1, CommandKeeps
    <2>5. /\ <<run.head, run.base>> \in passed /\ run.base = run.tip /\ remote # 0
          /\ run.calm => run.head = local.head /\ run.base = main
      BY <1>0 DEF RunKnowsItsPr, RunKnowsItsEvidence, Step, UntilMerge
    <2>6. RunInv'
      <3>1. "link" \in Step /\ UNCHANGED <<local, remote>>
        BY <1>0 DEF Step, gitVars
      <3>. QED  BY <1>0, <1>2, <2>1, <2>2, <2>3, <2>4, <2>5, <3>1, RunGoesOn
    <2>. QED  BY <2>4, <2>6 DEF FinalizeInv
  <1>3. CASE Open # {} /\ remote # run.head
    BY <1>0, <1>3, FailInv DEF ListPrs
  <1>. QED  BY <1>1, <1>2, <1>3

\* The commands that only look, wait or end the run.
LEMMA LookInv ==
    ASSUME FinalizeInv,
           \/ AssertCleanWorktree \/ WatchChecks \/ AlreadyMerged \/ ViewPr
           \/ ViewIssue \/ CloseIssue \/ ViewIssueAgain \/ CommandFails
    PROVE  FinalizeInv'
  <1> USE DEF baseVars
  <1>0. /\ RunKnowsItsPr /\ RunKnowsItsEvidence /\ lock \in 0..main /\ issue \in {"OPEN", "CLOSED"}
        /\ passed \subseteq (1..commits) \X (0..main)
    BY DEF FinalizeInv, GitInv, RunInv
  <1>1. CASE AssertCleanWorktree
    <2>1. CASE local.clean
      BY <1>1, <2>1, GoToInv DEF AssertCleanWorktree, Step, UntilMerge
    <2>2. CASE ~local.clean
      BY <1>1, <2>2, FailInv DEF AssertCleanWorktree
    <2>. QED  BY <2>1, <2>2
  <1>2. CASE WatchChecks
    <2>1. remote # 0 /\ run.pr \in DOMAIN prs /\ (run.calm => remote = run.head)
      BY <1>0, <1>2 DEF WatchChecks, RunKnowsItsPr, RunKnowsItsEvidence, Step, UntilMerge
    <2>. QED  BY <1>2, <2>1, GoToInv DEF WatchChecks, Step, UntilMerge
  <1>3. CASE AlreadyMerged
    <2>1. remote # 0 /\ run.pr \in DOMAIN prs
      BY <1>0, <1>3 DEF AlreadyMerged, RunKnowsItsPr, Step
    <2>. QED  BY <1>3, <2>1, GoToInv DEF AlreadyMerged, Step, UntilMerge
  <1>4. CASE ViewPr
    <2>1. remote # 0 /\ run.pr \in DOMAIN prs
      BY <1>0, <1>4 DEF ViewPr, RunKnowsItsPr, Step
    <2>2. CASE prs[run.pr].state = "MERGED"
      <3>1. run.pr \in Merged
        BY <2>1, <2>2 DEF Merged
      <3>. QED  BY <1>4, <2>1, <2>2, <3>1, GoToInv DEF ViewPr, Step, UntilMerge
    <2>3. CASE prs[run.pr].state # "MERGED"
      BY <1>4, <2>3, FailInv DEF ViewPr
    <2>. QED  BY <2>2, <2>3
  <1>5. CASE ViewIssue
    <2>1. remote # 0 /\ run.pr \in DOMAIN prs /\ run.pr \in Merged
      BY <1>0, <1>5 DEF ViewIssue, RunKnowsItsPr, Step
    <2>2. CASE issue = "OPEN"
      BY <1>5, <2>1, <2>2, GoToInv DEF ViewIssue, Step, UntilMerge
    <2>3. CASE issue = "CLOSED"
      BY <1>0, <1>5, <2>1, <2>3, FinishInv DEF ViewIssue, Result
    <2>. QED  BY <1>0, <2>2, <2>3
  <1>6. CASE CloseIssue
    <2>1. remote # 0 /\ run.pr \in DOMAIN prs /\ run.pr \in Merged
      BY <1>0, <1>6 DEF CloseIssue, RunKnowsItsPr, Step
    <2>. QED  BY <1>6, <2>1, GoToInv DEF CloseIssue, Step, UntilMerge
  <1>7. CASE ViewIssueAgain
    <2>1. run.pr \in Merged
      BY <1>0, <1>7 DEF ViewIssueAgain, RunKnowsItsPr
    <2>. QED  BY <1>0, <1>7, <2>1, FinishInv DEF ViewIssueAgain, Result
  <1>8. CASE CommandFails
    BY <1>8, FailInv DEF CommandFails
  <1>. QED  BY <1>1, <1>2, <1>3, <1>4, <1>5, <1>6, <1>7, <1>8

\* The branch is pushed as it is now; a calm request waits for just that
\* commit.
LEMMA PushInv ==
    ASSUME FinalizeInv, Push
    PROVE  FinalizeInv'
  <1>1. /\ UNCHANGED <<commits, local, ahead, prs, issue, passed, run, main, lock, result, runs>>
        /\ remote' = local.head /\ pc = "push" /\ pc' = "list" /\ ~ahead
    BY DEF Push, baseVars, GoTo
  <1>2. local.head \in 1..commits /\ commits \in Nat /\ main \in Nat
    BY DEF FinalizeInv, GitInv
  <1>3. GitInv'
    BY <1>1, <1>2 DEF FinalizeInv, GitInv
  <1>4. PrsInv' /\ Grow
    BY <1>1, <1>2, PrsKept
  <1>5. RunInv'
    <2>1. /\ run \in RunType /\ <<run.head, run.base>> \in passed /\ run.base = run.tip
          /\ run.calm => run.head = local.head /\ run.base = main
      BY <1>1 DEF FinalizeInv, RunInv, RunKnowsItsEvidence, UntilMerge
    <2>2. run' \in RunType' /\ remote' # 0
      BY <1>1, <1>2, <1>4, <2>1, TypesGrow
    <2>. QED  BY <1>1, <1>4, <2>1, <2>2, RunGoesOn DEF Step, UntilMerge
  <1>. QED  BY <1>3, <1>4, <1>5 DEF FinalizeInv

\* GitHub opens the pull request finalize asks for.
LEMMA CreatePrInv ==
    ASSUME FinalizeInv, CreatePr
    PROVE  FinalizeInv'
  <1>1. /\ UNCHANGED <<gitVars, issue, passed, main, lock, runs>> /\ pc = "create" /\ Open = {}
        /\ prs' = Append(prs, NewPr(FALSE, TRUE)) /\ remote # 0
    BY DEF CreatePr, baseVars, GoTo, FinalizeInv, RunInv, RunKnowsItsPr, Step
  <1>2. PrsInv' /\ Grow /\ Len(prs') = Len(prs) + 1
    BY <1>1, PrsAppended
  <1>3. GitInv'
    BY <1>1 DEF FinalizeInv, GitInv, gitVars
  <1>4. CASE run.merge
    <2> DEFINE r == [run EXCEPT !.pr = Len(prs')]
    <2>1. run' = r /\ pc' = "checks" /\ result' = result
      BY <1>4 DEF CreatePr, GoTo
    <2>2. run \in RunType' /\ Len(prs') \in 0..Len(prs')
      BY <1>2, TypesGrow DEF FinalizeInv, RunInv, Grow
    <2>3. /\ r \in RunType' /\ r.pr = Len(prs') /\ r.head = run.head /\ r.base = run.base /\ r.tip = run.tip
          /\ r.calm = run.calm
      BY <2>2, SMTT(20) DEF RunType
    <2> HIDE DEF r
    <2>4. /\ <<run.head, run.base>> \in passed /\ run.base = run.tip /\ remote # 0
          /\ run.calm => run.head = local.head /\ run.base = main /\ remote = run.head
      BY <1>1 DEF FinalizeInv, RunInv, RunKnowsItsPr, RunKnowsItsEvidence, Step, UntilMerge
    <2>5. Len(prs') \in DOMAIN prs'
      BY <1>2 DEF Grow
    <2>6. RunInv'
      <3>1. UNCHANGED <<local, remote>>
        BY <1>1 DEF gitVars
      <3>. QED  BY <1>1, <1>2, <2>1, <2>3, <2>4, <2>5, <3>1, RunGoesOn DEF Step
    <2>. QED  BY <1>2, <1>3, <2>6 DEF FinalizeInv
  <1>5. CASE ~run.merge
    <2>1. pc' = "idle" /\ run' = NoRun /\ result' = [state |-> "READY_FOR_REVIEW", pr |-> Len(prs')]
      BY <1>5 DEF CreatePr
    <2>2. result' \in ResultType' /\ result'.state # "COMPLETED"
      BY <1>2, <2>1 DEF ResultType, Result, Grow
    <2>3. RunInv'
      BY <1>1, <1>2, <2>1, <2>2, RunEnds
    <2>. QED  BY <1>2, <1>3, <2>3 DEF FinalizeInv
  <1>. QED  BY <1>4, <1>5

\* Linking the issue and leaving draft state change nothing that is known of
\* the pull request.
LEMMA EditInv ==
    ASSUME FinalizeInv, LinkIssue \/ MakeReady
    PROVE  FinalizeInv'
  <1> DEFINE k == run.pr
             p == prs[k]
             r == IF LinkIssue THEN [p EXCEPT !.linked = TRUE] ELSE [p EXCEPT !.draft = FALSE]
  <1>1. /\ k \in DOMAIN prs /\ pc \in {"link", "ready"} /\ remote # 0
        /\ <<run.head, run.base>> \in passed /\ run.base = run.tip /\ run \in RunType
        /\ run.calm => run.head = local.head /\ run.base = main /\ remote = run.head
    BY DEF LinkIssue, MakeReady, FinalizeInv, RunInv, RunKnowsItsPr, RunKnowsItsEvidence, Step, UntilMerge
  <1>2. /\ p \in Pr /\ MergeKnown(p, local.head, remote, main, passed) /\ main \in Nat
        /\ p.merged \in IF p.state = "MERGED" THEN 1..commits ELSE {0}
    BY <1>1 DEF FinalizeInv, GitInv, PrsInv
  <1>3. r \in Pr /\ r.state = p.state /\ r.merged = p.merged /\ r.onto = p.onto /\ r.asked = p.asked
    BY <1>2 DEF Pr
  <1>4. prs' = [prs EXCEPT ![k] = r]
    BY <1>1 DEF LinkIssue, MakeReady
  <1>5. UNCHANGED <<gitVars, issue, passed, main, lock, runs>>
    BY DEF LinkIssue, MakeReady, baseVars, GoTo, Finish
  <1> HIDE DEF r
  <1>6. MergeKnown(r, local.head, remote, main, passed)
    BY <1>2, <1>3 DEF MergeKnown
  <1>7. PrsInv' /\ Grow
    <2>1. main' = main /\ main' \in Nat /\ main <= main'
      BY <1>2, <1>5
    <2>2. /\ r.state = "OPEN" => prs[k].state = "OPEN"
          /\ prs[k].state = "MERGED" => r.state = "MERGED"
          /\ r.merged \in IF r.state = "MERGED" THEN 1..commits ELSE {0}
      BY <1>2, <1>3
    <2>3. MergeKnown(r, local.head, remote, main', passed)
      BY <1>6, <2>1
    <2>. QED  BY <1>1, <1>3, <1>4, <1>5, <2>1, <2>2, <2>3, PrsEdited
  <1>8. GitInv'
    BY <1>5 DEF FinalizeInv, GitInv, gitVars
  <1>9. CASE run' = run /\ result' = result /\ pc' \in {"ready", "checks"}
    <2>1. run' \in RunType' /\ run'.pr \in DOMAIN prs' /\ UNCHANGED <<local, remote>>
      BY <1>1, <1>5, <1>7, <1>9, TypesGrow DEF Grow, gitVars
    <2>2. RunInv'
      BY <1>1, <1>5, <1>7, <1>9, <2>1, RunGoesOn DEF Step
    <2>. QED  BY <1>7, <1>8, <2>2 DEF FinalizeInv
  <1>10. CASE Finish("READY_FOR_REVIEW")
    <2>1. pc' = "idle" /\ run' = NoRun /\ result' = [state |-> "READY_FOR_REVIEW", pr |-> run.pr]
      BY <1>10 DEF Finish
    <2>2. run.pr \in 0..Len(prs')
      BY <1>1, <1>7 DEF RunType, Grow
    <2>3. result' \in ResultType' /\ result'.state # "COMPLETED"
      BY <2>1, <2>2 DEF ResultType, Result
    <2>4. RunInv'
      BY <1>5, <1>7, <2>1, <2>3, RunEnds
    <2>. QED  BY <1>7, <1>8, <2>4 DEF FinalizeInv
  <1>11. \/ run' = run /\ result' = result /\ pc' \in {"ready", "checks"}
         \/ Finish("READY_FOR_REVIEW")
    BY DEF LinkIssue, MakeReady, GoTo
  <1>. QED  BY <1>9, <1>10, <1>11

\* A run asks only for what it has evidence for.
LEMMA AskedForKnown ==
    ASSUME FinalizeInv, pc = "merge", run.pr \in DOMAIN prs, prs[run.pr].state = "OPEN"
    PROVE  LET p == prs[run.pr] r == AskedFor(p) IN
           /\ r \in Pr /\ r.state = "OPEN" /\ r.merged = p.merged
           /\ MergeKnown(r, local.head, remote, main, passed)
  <1> DEFINE p == prs[run.pr]
             a == [evaluated |-> run.head, base |-> run.base, tip |-> run.tip, calm |-> run.calm]
             r == [p EXCEPT !.asked = a]
  <1>1. p \in Pr /\ main \in Nat /\ commits \in Nat /\ run \in RunType /\ RunKnowsItsEvidence
    BY DEF FinalizeInv, GitInv, PrsInv, RunInv
  <1>2. run.base \in Nat /\ run.base <= main /\ run.head \in Nat /\ run.tip \in Nat /\ run.calm \in BOOLEAN
    BY <1>1 DEF RunType
  <1>3. /\ <<run.head, run.base>> \in passed /\ run.base = run.tip
        /\ run.calm => run.head = local.head /\ run.base = main /\ remote = run.head
    BY <1>1 DEF RunKnowsItsEvidence, UntilMerge
  <1>4. /\ a \in Request /\ a.evaluated = run.head /\ a.base = run.base /\ a.tip = run.tip
        /\ a.calm = run.calm
    BY <1>2 DEF Request
  <1> HIDE DEF a
  <1>5. r \in Pr /\ r.state = "OPEN" /\ r.merged = p.merged /\ r.asked = a
    BY <1>1, <1>4 DEF Pr
  <1>6. AskedFor(p) = r
    BY DEF AskedFor, a
  <1> HIDE DEF r
  <1>7. MergeKnown(r, local.head, remote, main, passed)
    BY <1>2, <1>3, <1>4, <1>5 DEF MergeKnown
  <1>. QED  BY <1>5, <1>6, <1>7

\* An open pull request that GitHub merges: a calm request gets the commit
\* and the tip that were evaluated.
LEMMA LandedKnown ==
    ASSUME FinalizeInv, remote # 0, NEW p \in Pr, p.state = "OPEN",
           MergeKnown(p, local.head, remote, main, passed)
    PROVE  /\ Landed(p) \in Pr /\ Landed(p).state = "MERGED" /\ Landed(p).merged \in 1..commits
           /\ MergeKnown(Landed(p), local.head, remote, main + 1, passed)
  <1> DEFINE r == Landed(p)
  <1>1. main \in Nat /\ commits \in Nat /\ remote \in 1..commits /\ p.asked \in Request
    BY DEF FinalizeInv, GitInv, Pr
  <1>2. r \in Pr /\ r.state = "MERGED" /\ r.merged = remote /\ r.onto = main /\ r.asked = p.asked
    <2>1. remote \in Nat
      BY <1>1
    <2>. QED  BY <1>1, <2>1 DEF Landed, Pr, PrState
  <1>3. p.asked.base \in Nat
    BY <1>1 DEF Request
  <1> HIDE DEF r
  <1>4. MergeKnown(r, local.head, remote, main + 1, passed)
    BY <1>1, <1>2, <1>3 DEF MergeKnown
  <1>. QED  BY <1>1, <1>2, <1>4 DEF r

\* gh pr merge: the pull request is merged at once, or GitHub keeps the
\* request.
LEMMA AskInv ==
    ASSUME FinalizeInv, MergePr \/ MergeDeferred
    PROVE  FinalizeInv'
  <1> DEFINE k == run.pr
             p == prs[k]
             r == AskedFor(p)
  <1>1. /\ pc = "merge" /\ pc' = "viewPr" /\ p.state = "OPEN"
        /\ UNCHANGED <<gitVars, issue, lock, passed, run, result, runs>>
    BY DEF MergePr, MergeDeferred, GoTo, baseVars
  <1>2. k \in DOMAIN prs /\ remote # 0 /\ k \in Open /\ run \in RunType
        /\ main \in Nat /\ commits \in Nat /\ (run.calm => run.head = local.head)
        /\ lock \in 0..main /\ passed \subseteq (1..commits) \X (0..main)
    BY <1>1 DEF FinalizeInv, GitInv, RunInv, RunKnowsItsPr, RunKnowsItsEvidence, Step, Open
  <1>3. r \in Pr /\ r.state = "OPEN" /\ r.merged = p.merged /\ MergeKnown(r, local.head, remote, main, passed)
    BY <1>1, <1>2, AskedForKnown
  <1>4. p.merged = 0
    BY <1>1, <1>2 DEF FinalizeInv, PrsInv
  <1> HIDE DEF r
  <1>5. PrsInv' /\ Grow /\ main' \in {main, main + 1}
    <2>1. CASE MergePr
      <3>1. prs' = [prs EXCEPT ![k] = Landed(r)] /\ main' = main + 1
        BY <2>1 DEF MergePr, r
      <3>2. /\ Landed(r) \in Pr /\ Landed(r).state = "MERGED" /\ Landed(r).merged \in 1..commits
            /\ MergeKnown(Landed(r), local.head, remote, main + 1, passed)
        BY <1>2, <1>3, LandedKnown
      <3>3. main' \in Nat /\ main <= main'
        BY <1>2, <3>1
      <3>. QED  BY <1>1, <1>2, <3>1, <3>2, <3>3, PrsEdited
    <2>2. CASE MergeDeferred
      <3>1. prs' = [prs EXCEPT ![k] = r] /\ main' = main
        BY <2>2 DEF MergeDeferred, r, baseVars
      <3>2. main' \in Nat /\ main <= main'
        BY <1>2, <3>1
      <3>. QED  BY <1>1, <1>2, <1>3, <1>4, <3>1, <3>2, PrsEdited
    <2>. QED  BY <2>1, <2>2
  <1>6. GitInv'
    <2>1. main' \in Nat \ {0} /\ 0..main \subseteq 0..main'
      BY <1>2, <1>5 DEF FinalizeInv, GitInv
    <2>2. passed' \subseteq (1..commits) \X (0..main')
      BY <1>1, <1>2, <2>1
    <2>. QED  BY <1>1, <1>2, <2>1, <2>2 DEF FinalizeInv, GitInv, gitVars
  <1>7. RunInv'
    <2>1. run' \in RunType' /\ run'.pr \in DOMAIN prs' /\ UNCHANGED <<local, remote>>
      BY <1>1, <1>2, <1>5, TypesGrow DEF Grow, gitVars
    <2>2. "viewPr" \in Step /\ "viewPr" \notin UntilMerge
      BY DEF Step, UntilMerge
    <2>. QED  BY <1>1, <1>2, <1>5, <2>1, <2>2, RunGoesOn
  <1>. QED  BY <1>5, <1>6, <1>7 DEF FinalizeInv

-----------------------------------------------------------------------------
(* The steps of others *)

\* GitHub, or somebody there, merges an open pull request.
LEMMA LandPrInv ==
    ASSUME FinalizeInv, NEW k \in DOMAIN prs, LandPr(k)
    PROVE  FinalizeInv'
  <1> DEFINE p == prs[k]
             r == Landed(p)
  <1>1. /\ k \in Open /\ p.state = "OPEN" /\ prs' = [prs EXCEPT ![k] = r] /\ main' = main + 1 /\ DisturbRun
        /\ UNCHANGED <<gitVars, issue, lock, passed, pc, result, runs>>
    BY DEF LandPr, Open
  <1>2. /\ p \in Pr /\ MergeKnown(p, local.head, remote, main, passed) /\ main \in Nat
        /\ lock \in 0..main /\ passed \subseteq (1..commits) \X (0..main)
    BY DEF FinalizeInv, GitInv, PrsInv
  <1>3. PrsInv' /\ Grow
    <2>1. remote # 0
      BY DEF FinalizeInv, PrsInv
    <2>2. /\ r \in Pr /\ r.state = "MERGED" /\ r.merged \in 1..commits
          /\ MergeKnown(r, local.head, remote, main + 1, passed)
      BY <1>1, <1>2, <2>1, LandedKnown
    <2> HIDE DEF r
    <2>3. main' \in Nat /\ main <= main'
      BY <1>1, <1>2
    <2>. QED  BY <1>1, <1>2, <2>2, <2>3, PrsEdited
  <1>4. GitInv'
    <2>1. main' \in Nat \ {0} /\ 0..main \subseteq 0..main'
      BY <1>1, <1>2
    <2>2. passed' \subseteq (1..commits) \X (0..main')
      BY <1>1, <1>2, <2>1
    <2>. QED  BY <1>1, <1>2, <2>1, <2>2 DEF FinalizeInv, GitInv, gitVars
  <1>5. RunInv'
    BY <1>1, <1>3, RunWatches DEF gitVars
  <1>. QED  BY <1>3, <1>4, <1>5 DEF FinalizeInv

\* What others do to the branch, the worktree, the lock and the target branch:
\* they either leave what the run evaluated as it is, or disturb the run and
\* the requests.
LEMMA OthersInv ==
    ASSUME FinalizeInv,
           CommitLocal \/ EditLocal \/ Prepare \/ MergeByOther \/ PushByOther \/ Pull
    PROVE  FinalizeInv'
  <1>0. /\ commits \in Nat \ {0} /\ local \in [head : 1..commits, clean : BOOLEAN]
        /\ remote \in 0..commits /\ ahead \in BOOLEAN
        /\ main \in Nat \ {0} /\ lock \in 0..main /\ passed \subseteq (1..commits) \X (0..main)
        /\ ahead => remote # 0
    BY DEF FinalizeInv, GitInv
  <1>1. UNCHANGED <<issue, passed, pc, result, runs>>
    BY DEF CommitLocal, EditLocal, Prepare, MergeByOther, PushByOther, Pull
  <1>2. /\ commits' \in Nat \ {0} /\ commits <= commits' /\ main' \in Nat \ {0} /\ main <= main'
        /\ lock' \in 0..main'
    BY <1>0 DEF CommitLocal, EditLocal, Prepare, MergeByOther, PushByOther, Pull, gitVars, baseVars
  <1>3. local' \in [head : 1..commits', clean : BOOLEAN]
    <2>1. CASE CommitLocal
      BY <1>0, <2>1 DEF CommitLocal
    <2>2. CASE EditLocal
      BY <1>0, <2>2 DEF EditLocal
    <2>3. CASE Prepare \/ MergeByOther
      BY <1>0, <2>3 DEF Prepare, MergeByOther, gitVars
    <2>4. CASE PushByOther
      BY <1>0, <2>4 DEF PushByOther
    <2>5. CASE Pull
      BY <1>0, <2>5 DEF Pull
    <2>. QED  BY <2>1, <2>2, <2>3, <2>4, <2>5
  <1>4. remote' \in 0..commits' /\ (remote # 0 => remote' # 0)
    BY <1>0 DEF CommitLocal, EditLocal, Prepare, MergeByOther, PushByOther, Pull, gitVars
  <1>5. ahead' \in BOOLEAN /\ (ahead' => remote' # 0)
    <2>1. CASE Pull
      <3>1. ahead' = FALSE
        BY <2>1 DEF Pull
      <3>. QED  BY <3>1, Zenon
    <2>2. CASE PushByOther
      <3>1. ahead' = TRUE /\ remote' = commits + 1
        BY <2>2 DEF PushByOther
      <3>2. remote' # 0
        BY <1>0, <3>1
      <3>. QED  BY <3>1, <3>2, Zenon
    <2>3. CASE CommitLocal \/ EditLocal \/ Prepare \/ MergeByOther
      BY <1>0, <2>3 DEF CommitLocal, EditLocal, Prepare, MergeByOther, gitVars
    <2>. QED  BY <2>1, <2>2, <2>3
  <1>6. \/ Disturb
        \/ UNCHANGED <<prs, run, remote, main>> /\ local'.head = local.head
    <2>1. CASE EditLocal
      <3>1. local'.head = local.head
        BY <1>0, <2>1 DEF EditLocal
      <3>. QED  BY <2>1, <3>1 DEF EditLocal, baseVars
    <2>2. CASE Prepare
      BY <2>2 DEF Prepare, gitVars
    <2>3. CASE CommitLocal \/ MergeByOther \/ PushByOther \/ Pull
      BY <2>3 DEF CommitLocal, MergeByOther, PushByOther, Pull
    <2>. QED  BY <2>1, <2>2, <2>3
  <1>7. PrsInv' /\ Grow
    <2>1. CASE Disturb
      BY <1>1, <1>2, <1>4, <2>1, PrsDisturbed DEF Disturb
    <2>2. CASE UNCHANGED <<prs, run, remote, main>> /\ local'.head = local.head
      BY <1>1, <1>2, <2>2, PrsKept
    <2>. QED  BY <1>6, <2>1, <2>2
  <1>8. GitInv'
    <2>1. passed' \subseteq (1..commits') \X (0..main')
      <3>1. 1..commits \subseteq 1..commits' /\ 0..main \subseteq 0..main'
        BY <1>0, <1>2
      <3>. QED  BY <1>0, <1>1, <3>1
    <2>. QED  BY <1>1, <1>2, <1>3, <1>4, <1>5, <2>1 DEF FinalizeInv, GitInv
  <1>9. RunInv'
    BY <1>1, <1>4, <1>6, <1>7, RunWatches DEF Disturb
  <1>. QED  BY <1>7, <1>8, <1>9 DEF FinalizeInv

\* Pull requests that others open and close, and the issue GitHub closes.
LEMMA GitHubInv ==
    ASSUME FinalizeInv,
           \/ OpenDraft \/ AutoClose
           \/ \E n \in DOMAIN prs : ClosePr(n)
    PROVE  FinalizeInv'
  <1> USE DEF baseVars
  <1>1. CASE OpenDraft
    <2>1. /\ prs' = Append(prs, NewPr(TRUE, FALSE)) /\ Open = {} /\ remote # 0
          /\ UNCHANGED <<gitVars, issue, main, lock, passed, runs, pc, run, result>>
      BY <1>1 DEF OpenDraft
    <2>2. PrsInv' /\ Grow
      BY <2>1, PrsAppended
    <2>3. GitInv'
      BY <2>1 DEF FinalizeInv, GitInv, gitVars
    <2>4. RunInv'
      BY <2>1, <2>2, RunWatches DEF gitVars
    <2>. QED  BY <2>2, <2>3, <2>4 DEF FinalizeInv
  <1>2. CASE AutoClose
    <2>1. /\ Merged # {} /\ issue' = "CLOSED"
          /\ UNCHANGED <<gitVars, prs, passed, pc, run, result, runs, main, lock>>
      BY <1>2 DEF AutoClose, Merged
    <2>2. /\ passed \subseteq (1..commits) \X (0..main) /\ lock \in 0..main /\ runs \in Nat
      BY DEF FinalizeInv, GitInv
    <2>3. GitInv' /\ PrsInv' /\ Grow /\ Merged' = Merged
      BY <2>1, <2>2, CommandKeeps
    <2>4. RunInv'
      BY <2>1, <2>3, RunWatches DEF gitVars
    <2>. QED  BY <2>3, <2>4 DEF FinalizeInv
  <1>3. ASSUME NEW k \in DOMAIN prs, ClosePr(k) PROVE FinalizeInv'
    <2> DEFINE p == prs[k]
               r == [p EXCEPT !.state = "CLOSED"]
    <2>1. /\ p \in Pr /\ p.state = "OPEN" /\ p.merged = 0 /\ main \in Nat
          /\ MergeKnown(p, local.head, remote, main, passed)
      BY <1>3 DEF FinalizeInv, GitInv, PrsInv, ClosePr, Open
    <2>2. r \in Pr /\ r.state = "CLOSED" /\ r.merged = p.merged /\ r.onto = p.onto /\ r.asked = p.asked
      BY <2>1 DEF Pr, PrState
    <2>3. prs' = [prs EXCEPT ![k] = r]
      BY <1>3 DEF ClosePr
    <2> HIDE DEF r
    <2>4. UNCHANGED <<gitVars, issue, main, lock, passed, runs, pc, run, result>>
      BY <1>3 DEF ClosePr
    <2>5. MergeKnown(r, local.head, remote, main', passed) /\ main' \in Nat /\ main <= main'
      BY <2>1, <2>2, <2>4 DEF MergeKnown
    <2>6. PrsInv' /\ Grow
      BY <1>3, <2>1, <2>2, <2>3, <2>4, <2>5, PrsEdited
    <2>7. GitInv'
      BY <2>4 DEF FinalizeInv, GitInv, gitVars
    <2>8. RunInv'
      BY <2>4, <2>6, RunWatches DEF gitVars
    <2>. QED  BY <2>6, <2>7, <2>8 DEF FinalizeInv
  <1>. QED  BY <1>1, <1>2, <1>3

\* Every step of finalize and of everyone else keeps the invariant.
LEMMA NextFinalize ==
    ASSUME FinalizeInv, [Next]_vars
    PROVE  FinalizeInv'
  <1>1. CASE Finalize
    BY <1>1, StartInv, EvaluateInv, ListPrsInv, LookInv, PushInv, CreatePrInv, EditInv, AskInv DEF Finalize
  <1>2. CASE CommitLocal \/ EditLocal \/ Prepare \/ MergeByOther \/ PushByOther \/ Pull
    BY <1>2, OthersInv
  <1>3. CASE \/ OpenDraft \/ AutoClose
             \/ \E n \in DOMAIN prs : ClosePr(n)
    BY <1>3, GitHubInv
  <1>4. CASE \E n \in DOMAIN prs : LandPr(n)
    BY <1>4, LandPrInv
  <1>5. CASE UNCHANGED vars
    <2>1. GitInv' /\ PrsInv'
      BY <1>5 DEF vars, FinalizeInv, GitInv, PrsInv, Open
    <2>2. RunInv'
      BY <1>5 DEF vars, FinalizeInv, RunInv, RunType, ResultType, RunKnowsItsPr, RunKnowsItsEvidence,
                  ClosedMeansMerged, CompletedMeansDone, Merged
    <2>. QED  BY <2>1, <2>2 DEF FinalizeInv
  <1>. QED  BY <1>1, <1>2, <1>3, <1>4, <1>5 DEF Next

\* finalize always knows its pull request and its evidence, what it asked
\* GitHub to merge rests on that evidence also after the run, and the issue is
\* closed only after a merge, for any number of commits, pull requests and
\* runs (agent-publish.py finalize, merge_and_verify).
THEOREM PublishInvariant == Spec => []PublishInv
  <1>. QED  BY InvariantMeans, InitFinalize, NextFinalize, PTL DEF Spec

\* merge_and_verify reports COMPLETED only for a merged pull request and a
\* closed issue, however gh pr merge and gh issue close behave.
THEOREM CompletedIsDone == Spec => []CompletedMeansDone
  <1>. QED  BY InvariantMeans, InitFinalize, NextFinalize, PTL DEF Spec

\* A merge that nobody disturbed is of the very commit that the run asking for
\* it has PASS evidence for, into the base tip the evidence is about, at once
\* or when GitHub completes it after the run (evaluate_and_read_evidence).
THEOREM UndisturbedMerge == Spec => []UndisturbedMergeIsEvaluated
  <1>. QED  BY InvariantMeans, InitFinalize, NextFinalize, PTL DEF Spec

\* A run that evaluates after a merge has landed needs a prepare of its own:
\* validate_plan_lock makes a lock worthless once its tip has moved.
THEOREM OnePreparePerMerge == Spec => []PreparedForEachMerge
  <1>. QED  BY InvariantSeparates, InitFinalize, NextFinalize, PTL DEF Spec
=============================================================================
