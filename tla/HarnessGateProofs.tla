-------------------------- MODULE HarnessGateProofs -------------------------
(***************************************************************************)
(* prepare and evaluate, for every plan, content, history and number of    *)
(* commands, changes by others and failing reads.                          *)
(***************************************************************************)
EXTENDS HarnessGate, TLAPS

USE GateAssumption, NoneAssumption

\* What holds of the running command, and what of the evidence on disk.
RunInv == CommandsKeepOrder /\ RoundsFound /\ TrackIsChecked /\ EndIsCurrent /\ RunIsCurrent
EvidenceInv == EvidenceNamesCommit /\ EvidenceDescribesHead /\ PassMeansTested

LEMMA GateInvParts == GateInv <=> TypeOK /\ RunInv /\ EvidenceInv
  BY DEF GateInv, RunInv, EvidenceInv

-----------------------------------------------------------------------------
(* The worst state *)

LEMMA WorstState ==
    ASSUME NEW checks \in SUBSET State
    PROVE  /\ AggregateState(checks) \in State
           /\ AggregateState(checks) = "PASS" <=> checks \subseteq {"PASS"}
  <1> DEFINE states == checks \cup {"PASS"}
             Worst(s) == \A r \in states : STATE_PRIORITY[r] <= STATE_PRIORITY[s]
  <1>1. \E s \in states : Worst(s)
    <2>1. CASE "REPLAN_REQUIRED" \in states
      <3>1. Worst("REPLAN_REQUIRED")
        BY DEF State, STATE_PRIORITY
      <3>. QED  BY <2>1, <3>1
    <2>2. CASE "REPLAN_REQUIRED" \notin states /\ "FAIL" \in states
      BY <2>2 DEF State, STATE_PRIORITY
    <2>3. CASE "REPLAN_REQUIRED" \notin states /\ "FAIL" \notin states /\ "BLOCKED" \in states
      BY <2>3 DEF State, STATE_PRIORITY
    <2>4. CASE "REPLAN_REQUIRED" \notin states /\ "FAIL" \notin states /\ "BLOCKED" \notin states
      BY <2>4 DEF State, STATE_PRIORITY
    <2>. QED  BY <2>1, <2>2, <2>3, <2>4
  <1>2. AggregateState(checks) = CHOOSE s \in states : Worst(s)
    BY DEF AggregateState
  <1>3. AggregateState(checks) \in states /\ Worst(AggregateState(checks))
    BY <1>1, <1>2
  <1>4. checks \subseteq {"PASS"} => AggregateState(checks) = "PASS"
    BY <1>3
  <1>5. ASSUME NEW r \in checks, r # "PASS" PROVE AggregateState(checks) # "PASS"
    BY <1>3, <1>5 DEF State, STATE_PRIORITY
  <1>. QED  BY <1>3, <1>4, <1>5 DEF State

-----------------------------------------------------------------------------
(* Steps that end a command or leave its track *)

LEMMA IdleRun == ASSUME pc' = "idle" PROVE RunInv'
  BY DEF RunInv, CommandsKeepOrder, RoundsFound, TrackIsChecked, EndIsCurrent, RunIsCurrent, OnTrack

LEMMA OffTrackRun ==
    ASSUME run'.cmd = "evaluate", ~(run'.checks \subseteq {"PASS"}), CommandsKeepOrder'
    PROVE  RunInv'
  BY DEF RunInv, RoundsFound, TrackIsChecked, EndIsCurrent, RunIsCurrent, OnTrack

\* Evidence stays true while it and the commits stay.
LEMMA EvidenceStays ==
    ASSUME EvidenceInv, commits' = commits, evaluation' = evaluation \/ evaluation' = None
    PROVE  EvidenceInv'
  <1>1. CASE evaluation' = evaluation
    BY <1>1 DEF EvidenceInv, EvidenceNamesCommit, EvidenceDescribesHead, PassMeansTested, Passed
  <1>2. CASE evaluation' = None
    BY <1>2 DEF EvidenceInv, EvidenceNamesCommit, EvidenceDescribesHead, PassMeansTested, Passed
  <1>. QED  BY <1>1, <1>2

LEMMA NewRunType == ASSUME NEW cmd \in {"prepare", "evaluate"} PROVE NewRun(cmd) \in Run
  BY DEF NewRun, Unread, Run, Reads

\* Locks that named a base still do: the tracked branch only moves forward.
LEMMA LockStays ==
    ASSUME TypeOK, NEW l \in {lock, run.lock, None}, tracked' \in tracked..origin
    PROVE  l \in LockFile \cup {None} /\ (l # None => l.mergeBase <= l.base /\ l.base <= tracked')
  <1>1. l \in LockFile \cup {None} /\ (l # None => l.mergeBase <= l.base /\ l.base <= tracked)
    BY DEF TypeOK, Run
  <1>2. tracked \in Nat /\ tracked' \in Nat /\ tracked <= tracked'
    BY DEF TypeOK
  <1>3. l # None => l.base \in Nat /\ l.mergeBase \in Nat
    BY <1>1 DEF LockFile
  <1>. QED  BY <1>1, <1>2, <1>3

\* Types that a step of the harness keeps.
LEMMA HarnessType ==
    ASSUME TypeOK, UNCHANGED repoVars, tracked' \in tracked..origin,
           lock' \in LockFile \cup {None}, evaluation' \in EvaluationFile \cup {None},
           pc' \in Step \cup {"idle"}, run' \in Run,
           run'.ended => run'.phase = "end" /\ run'.ids.end.hash # None,
           \A l \in {lock', run'.lock} : l # None => l.mergeBase <= l.base /\ l.base <= tracked'
    PROVE  TypeOK'
  <1>1. /\ commits' = commits /\ head' = head /\ work' = work /\ origin' = origin
        /\ commits \in Seq(Commit) /\ head \in DOMAIN commits /\ work \in Content /\ origin \in Nat
    BY DEF TypeOK, repoVars
  <1>2. tracked' \in 1..origin' /\ \A k \in DOMAIN commits : commits[k].fork <= tracked'
    <2>1. ASSUME NEW k \in DOMAIN commits PROVE commits[k].fork <= tracked'
      <3>1. commits[k] \in Commit
        BY <1>1
      <3>. QED  BY <3>1 DEF TypeOK, Commit
    <2>. QED  BY <1>1, <2>1 DEF TypeOK
  <1>. QED  BY <1>1, <1>2 DEF TypeOK

LEMMA FinishInv ==
    ASSUME GateInv, NEW state, Finish(state), UNCHANGED repoVars, UNCHANGED tracked,
           lock' \in LockFile \cup {None},
           lock' # None => lock'.mergeBase <= lock'.base /\ lock'.base <= tracked,
           evaluation' \in EvaluationFile \cup {None}, EvidenceInv'
    PROVE  GateInv'
  <1>1. /\ pc' = "idle" /\ run' = NewRun("prepare")
    BY DEF Finish, NoRun
  <1>2. /\ run' \in Run /\ run'.ended = FALSE /\ run'.lock = None
    BY <1>1, NewRunType DEF NewRun
  <1>3. TypeOK /\ tracked' \in tracked..origin
    BY DEF GateInv, TypeOK
  <1>4. TypeOK'
    <2>1. \A l \in {lock', run'.lock} : l # None => l.mergeBase <= l.base /\ l.base <= tracked'
      BY <1>2
    <2>. QED  BY <1>1, <1>2, <1>3, <2>1, HarnessType
  <1>. QED  BY <1>1, <1>4, IdleRun, GateInvParts, PTL

\* A violation ends prepare; it sends evaluate off its track.
LEMMA ViolationInv ==
    ASSUME GateInv, pc # "idle", NEW state \in State \ {"PASS"}, Violation(state),
           UNCHANGED repoVars, UNCHANGED files, tracked' \in tracked..origin
    PROVE  GateInv'
  <1>0. TypeOK /\ EvidenceInv /\ run \in Run /\ run.cmd \in {"prepare", "evaluate"}
    BY GateInvParts DEF TypeOK, Run
  <1>1. lock' = lock /\ evaluation' = evaluation /\ commits' = commits
    BY DEF files, repoVars
  <1>2. EvidenceInv'
    BY <1>0, <1>1, EvidenceStays
  <1>3. /\ lock' \in LockFile \cup {None} /\ evaluation' \in EvaluationFile \cup {None}
        /\ lock' # None => lock'.mergeBase <= lock'.base /\ lock'.base <= tracked'
        /\ run.lock # None => run.lock.mergeBase <= run.lock.base /\ run.lock.base <= tracked'
    BY <1>0, <1>1, LockStays DEF TypeOK
  <1>4. CASE run.cmd = "prepare"
    <2>1. pc' = "idle" /\ run' = NewRun("prepare")
      BY <1>4 DEF Violation, Finish, NoRun
    <2>2. /\ run' \in Run /\ run'.ended = FALSE /\ run'.lock = None
      BY <2>1, NewRunType DEF NewRun
    <2>3. \A l \in {lock', run'.lock} : l # None => l.mergeBase <= l.base /\ l.base <= tracked'
      BY <1>3, <2>2
    <2>4. TypeOK'
      BY <1>0, <1>3, <2>1, <2>2, <2>3, HarnessType
    <2>. QED  BY <1>2, <2>1, <2>4, IdleRun, GateInvParts, PTL
  <1>5. CASE run.cmd = "evaluate"
    <2> DEFINE r == [run EXCEPT !.checks = @ \cup {state}]
    <2>1. \/ run' = [r EXCEPT !.phase = "end", !.calmEnd = TRUE] /\ pc' = "clean"
          \/ run' = r /\ pc' = "restore"
      BY <1>5 DEF Violation, EnterEnd, GoTo
    <2>2. /\ run' \in Run /\ run'.cmd = "evaluate" /\ run'.checks = run.checks \cup {state}
          /\ run'.ended = run.ended /\ run'.ids = run.ids /\ run'.lock = run.lock
          /\ \/ run'.phase = "end" /\ pc' = "clean"
             \/ run'.phase = run.phase /\ pc' = "restore"
      <3>1. /\ r \in Run /\ r.cmd = "evaluate" /\ r.checks = run.checks \cup {state}
            /\ r.ended = run.ended /\ r.ids = run.ids /\ r.lock = run.lock /\ r.phase = run.phase
        BY <1>0, <1>5 DEF Run
      <3> HIDE DEF r
      <3>2. CASE run' = r /\ pc' = "restore"
        BY <3>1, <3>2
      <3>3. CASE run' = [r EXCEPT !.phase = "end", !.calmEnd = TRUE] /\ pc' = "clean"
        BY <3>1, <3>3 DEF Run
      <3>. QED  BY <2>1, <3>2, <3>3
    <2>3. TypeOK'
      <3>1. \A l \in {lock', run'.lock} : l # None => l.mergeBase <= l.base /\ l.base <= tracked'
        BY <1>3, <2>2
      <3>2. run'.ended => run'.phase = "end" /\ run'.ids.end.hash # None
        BY <1>0, <2>2 DEF TypeOK
      <3>3. pc' \in Step \cup {"idle"}
        BY <2>2 DEF Step
      <3>. QED  BY <1>0, <1>3, <2>2, <3>1, <3>2, <3>3, HarnessType
    <2>4. CommandsKeepOrder'
      BY <2>2 DEF CommandsKeepOrder, Stage, EvaluateOrder
    <2>5. ~(run'.checks \subseteq {"PASS"})
      BY <2>2
    <2>. QED  BY <1>2, <2>2, <2>3, <2>4, <2>5, OffTrackRun, GateInvParts, PTL
  <1>. QED  BY <1>0, <1>4, <1>5

-----------------------------------------------------------------------------
(* A command begins *)

LEMMA StartInv ==
    ASSUME GateInv, StartPrepare \/ StartEvaluate
    PROVE  GateInv'
  <1>0. TypeOK /\ EvidenceInv
    BY GateInvParts
  <1>1. PICK cmd \in {"prepare", "evaluate"} :
            run' = NewRun(cmd) /\ pc' = IF cmd = "prepare" THEN "plan" ELSE "clean"
    BY DEF StartPrepare, StartEvaluate
  <1>2. /\ UNCHANGED repoVars /\ tracked' = tracked
        /\ lock' = lock \/ lock' = None
        /\ evaluation' = evaluation \/ evaluation' = None
    BY DEF StartPrepare, StartEvaluate
  <1>3. /\ run' \in Run /\ run'.ended = FALSE /\ run'.lock = None /\ run'.cmd = cmd
        /\ run'.phase = "start" /\ run'.checks = {} /\ run'.calmEnd = FALSE
    BY <1>1, NewRunType DEF NewRun
  <1>4. TypeOK'
    <2>1. tracked' \in tracked..origin
      BY <1>0, <1>2 DEF TypeOK
    <2>2. /\ lock' \in LockFile \cup {None}
          /\ \A l \in {lock', run'.lock} : l # None => l.mergeBase <= l.base /\ l.base <= tracked'
      BY <1>0, <1>2, <1>3, <2>1, LockStays
    <2>3. pc' \in Step \cup {"idle"} /\ evaluation' \in EvaluationFile \cup {None}
      BY <1>0, <1>1, <1>2 DEF Step, TypeOK
    <2>. QED  BY <1>0, <1>2, <1>3, <2>1, <2>2, <2>3, HarnessType
  <1>5. EvidenceInv'
    BY <1>0, <1>2, EvidenceStays DEF repoVars
  <1>6. RunInv'
    <2>1. CASE cmd = "prepare"
      <3>1. pc' = "plan" /\ Stage' = 2
        BY <1>1, <1>3, <2>1 DEF Stage, PrepareOrder
      <3>. QED  BY <1>3, <2>1, <3>1 DEF RunInv, CommandsKeepOrder, PrepareOrder, RoundsFound, Found,
                  TrackIsChecked, EndIsCurrent, RunIsCurrent
    <2>2. CASE cmd = "evaluate"
      <3>1. pc' = "clean" /\ Stage' = 1
        BY <1>1, <1>3, <2>2 DEF Stage, EvaluateOrder
      <3>. QED  BY <1>3, <2>2, <3>1 DEF RunInv, CommandsKeepOrder, EvaluateOrder, RoundsFound, Found,
                  TrackIsChecked, EndIsCurrent, RunIsCurrent
    <2>. QED  BY <2>1, <2>2
  <1>. QED  BY <1>4, <1>5, <1>6, GateInvParts, PTL

LEMMA RefusedInv ==
    ASSUME GateInv, PrepareRefused \/ EvaluateRefused
    PROVE  GateInv'
  <1>1. UNCHANGED <<commits, head, work, origin, tracked, lock, evaluation, pc, run>>
    BY DEF PrepareRefused, EvaluateRefused, Refused, repoVars, files
  <1>2. TypeOK'
    BY <1>1 DEF GateInv, TypeOK
  <1>3. pc' = "idle"
    BY DEF PrepareRefused, EvaluateRefused, Refused
  <1>4. EvidenceInv'
    BY <1>1, EvidenceStays, GateInvParts
  <1>. QED  BY <1>2, <1>3, <1>4, IdleRun, GateInvParts, PTL

-----------------------------------------------------------------------------
(* The rounds of reads *)

\* A read changes what is known and nothing else of the run.
SameRun ==
    /\ run' \in Run /\ run'.cmd = run.cmd /\ run'.phase = run.phase /\ run'.lock = run.lock
    /\ run'.checks = run.checks /\ run'.tested = run.tested
    /\ run'.calmRun = run.calmRun /\ run'.calmEnd = run.calmEnd
    /\ run.phase = "end" => run'.ids.start = run.ids.start
    /\ run.phase = "start" => run'.ids.end = run.ids.end

LEMMA ReadFacts ==
    ASSUME run \in Run, NEW id \in Reads, run' = [run EXCEPT !.ids[run.phase] = id]
    PROVE  /\ SameRun /\ run'.ids[run.phase] = id
           /\ run'.ended = run.ended /\ run'.restore = run.restore
           /\ run'.ids.end.hash \in {run.ids.end.hash, id.hash}
           /\ run.phase = "start" => run'.ids.end.hash = run.ids.end.hash
  <1>1. CASE run.phase = "start"
    BY <1>1 DEF SameRun, Run
  <1>2. CASE run.phase = "end"
    BY <1>2 DEF SameRun, Run
  <1>. QED  BY <1>1, <1>2 DEF Run

\* What every step of a round keeps.
LEMMA RoundStep ==
    ASSUME GateInv, SameRun, UNCHANGED repoVars, UNCHANGED files, tracked' \in tracked..origin,
           pc' \in Step, run'.ended => run'.phase = "end" /\ run'.ids.end.hash # None
    PROVE  /\ TypeOK' /\ EvidenceInv' /\ Dirty' = Dirty /\ ChangedPaths' = ChangedPaths
           /\ \A id \in Reads : \A n \in Nat : Found(id, n) => Found(id, n)'
  <1>0. TypeOK /\ EvidenceInv
    BY GateInvParts
  <1>1. /\ commits' = commits /\ head' = head /\ work' = work
        /\ lock' = lock /\ evaluation' = evaluation
    BY DEF files, repoVars
  <1>2. TypeOK'
    <2>1. /\ lock' \in LockFile \cup {None} /\ evaluation' \in EvaluationFile \cup {None}
          /\ \A l \in {lock', run'.lock} : l # None => l.mergeBase <= l.base /\ l.base <= tracked'
      BY <1>0, <1>1, LockStays DEF TypeOK, SameRun
    <2>. QED  BY <1>0, <2>1, HarnessType DEF SameRun
  <1>3. EvidenceInv'
    BY <1>0, <1>1, EvidenceStays
  <1>4. Dirty' = Dirty /\ ChangedPaths' = ChangedPaths
    BY <1>1 DEF Dirty, ChangedPaths, Tree
  <1>5. ASSUME NEW id \in Reads, NEW n \in Nat, Found(id, n) PROVE Found(id, n)'
    <2>1. tracked \in Nat /\ tracked' \in Nat /\ tracked <= tracked'
      BY <1>0 DEF TypeOK
    <2>. QED  BY <1>1, <1>5, <2>1 DEF Found
  <1>. QED  BY <1>2, <1>3, <1>4, <1>5

LEMMA PrepareRun ==
    ASSUME run'.cmd = "prepare", CommandsKeepOrder', RoundsFound'
    PROVE  RunInv'
  BY DEF RunInv, TrackIsChecked, EndIsCurrent, RunIsCurrent

LEMMA CheckCleanInv ==
    ASSUME GateInv, CheckClean
    PROVE  GateInv'
  <1>0. TypeOK /\ RunInv /\ run \in Run /\ pc = "clean" /\ tracked' = tracked
    BY GateInvParts DEF TypeOK, CheckClean
  <1>1. CASE UNCHANGED run /\ GoTo(After("clean")) /\ Dirty \subseteq IF run.cmd = "prepare" THEN {"plan"} ELSE {}
    <2>1. UNCHANGED repoVars /\ UNCHANGED files /\ tracked' \in tracked..origin /\ SameRun
      BY <1>0, <1>1 DEF CheckClean, SameRun, TypeOK
    <2>2. pc' \in Step /\ pc' = After("clean")
      BY <1>0, <1>1 DEF GoTo, After, PrepareAfter, EvaluateAfter, Step, Run
    <2>3. TypeOK' /\ EvidenceInv' /\ Dirty' = Dirty /\ ChangedPaths' = ChangedPaths
      BY <1>0, <1>1, <2>1, <2>2, RoundStep DEF TypeOK
    <2>4. CASE run.cmd = "prepare"
      <3>1. /\ Stage = 6 /\ Stage' = 7
            /\ pc' = IF run.phase = "start" THEN "preflight" ELSE "writeLock"
        BY <1>0, <1>1, <2>2, <2>4 DEF Stage, PrepareOrder, After, PrepareAfter
      <3>2. RunInv'
        <4>1. CommandsKeepOrder'
          BY <1>0, <1>1, <2>4, <3>1 DEF CommandsKeepOrder, PrepareOrder, Run
        <4>2. RoundsFound'
          BY <1>0, <1>1, <2>1, <2>4, <3>1 DEF RunInv, RoundsFound, Found, OnTrack, repoVars
        <4>. QED  BY <1>1, <2>4, <4>1, <4>2, PrepareRun
      <3>. QED  BY <2>3, <3>2, GateInvParts, PTL
    <2>5. CASE run.cmd = "evaluate"
      <3>1. Stage = 1 /\ Stage' = 2 /\ pc' = "plan" /\ Dirty = {}
        BY <1>0, <1>1, <2>2, <2>5 DEF Stage, EvaluateOrder, After, EvaluateAfter
      <3>2. RunInv'
        <4>1. CommandsKeepOrder'
          BY <1>0, <1>1, <2>1, <2>3, <2>5, <3>1 DEF RunInv, EvaluateOrder, CommandsKeepOrder
        <4>2. RoundsFound'
          BY <1>0, <1>1, <2>1, <2>3, <2>5, <3>1 DEF RunInv, repoVars, RoundsFound, Found, OnTrack
        <4>3. TrackIsChecked'
          BY <1>0, <1>1, <2>1, <2>3, <2>5, <3>1 DEF RunInv, TrackIsChecked, OnTrack
        <4>4. EndIsCurrent'
          BY <1>0, <1>1, <2>1, <2>3, <2>5, <3>1 DEF RunInv, repoVars, EndIsCurrent, OnTrack
        <4>5. RunIsCurrent'
          BY <1>0, <1>1, <2>1, <2>3, <2>5, <3>1 DEF RunInv, repoVars, RunIsCurrent, OnTrack
        <4>. QED  BY <4>1, <4>2, <4>3, <4>4, <4>5 DEF RunInv
      <3>. QED  BY <2>3, <3>2, GateInvParts, PTL
    <2>. QED  BY <1>0, <2>4, <2>5 DEF Run
  <1>2. CASE Violation("REPLAN_REQUIRED")
    <2>1. UNCHANGED repoVars /\ UNCHANGED files /\ tracked' \in tracked..origin
      BY <1>0 DEF CheckClean, TypeOK
    <2>2. "REPLAN_REQUIRED" \in State \ {"PASS"}
      BY DEF State
    <2>. QED  BY <1>0, <1>2, <2>1, <2>2, ViolationInv
  <1>. QED  BY <1>1, <1>2 DEF CheckClean

LEMMA LoadPlanInv ==
    ASSUME GateInv, LoadPlan
    PROVE  GateInv'
  <1>0. TypeOK /\ RunInv /\ run \in Run /\ pc = "plan" /\ tracked' = tracked
    BY GateInvParts DEF TypeOK, LoadPlan
  <1>a. UNCHANGED repoVars /\ UNCHANGED files /\ tracked' \in tracked..origin
    BY <1>0 DEF LoadPlan, TypeOK
  <1>1. CASE work.plan \in ValidPlan /\ Read("plan", work.plan) /\ GoTo("fetch")
    <2>1. /\ SameRun /\ run'.ids[run.phase].plan = work.plan /\ run'.ended = run.ended
          /\ run'.ids.end.hash = run.ids.end.hash
      <3> DEFINE id == [run.ids[run.phase] EXCEPT !.plan = work.plan]
      <3>1. run.ids[run.phase] \in Reads /\ work.plan \in Plan
        BY <1>0 DEF Run, TypeOK, Content
      <3>2. id \in Reads /\ id.plan = work.plan /\ id.hash = run.ids[run.phase].hash
        BY <3>1 DEF Reads
      <3>3. run' = [run EXCEPT !.ids[run.phase] = id]
        BY <1>1 DEF Read
      <3> HIDE DEF id
      <3>. QED  BY <1>0, <3>2, <3>3, ReadFacts DEF Run
    <2>2. pc' = "fetch" /\ pc' \in Step
      BY <1>1 DEF GoTo, Step
    <2>3. TypeOK' /\ EvidenceInv' /\ Dirty' = Dirty /\ ChangedPaths' = ChangedPaths
      BY <1>0, <1>a, <2>1, <2>2, RoundStep DEF TypeOK, SameRun
    <2>4. Stage = 2 /\ Stage' = 3
      BY <1>0, <2>1, <2>2 DEF Stage, PrepareOrder, EvaluateOrder, SameRun
    <2>5. RunInv'
      <3>1. CommandsKeepOrder'
        BY <1>0, <1>a, <1>1, <2>1, <2>2, <2>3, <2>4 DEF SameRun, RunInv, PrepareOrder, EvaluateOrder, Run, CommandsKeepOrder
      <3>2. RoundsFound'
        BY <1>0, <1>a, <1>1, <2>1, <2>2, <2>3, <2>4 DEF SameRun, RunInv, repoVars, Run, RoundsFound, Found, OnTrack
      <3>3. TrackIsChecked'
        BY <1>0, <1>a, <1>1, <2>1, <2>2, <2>3, <2>4 DEF SameRun, RunInv, Run, TrackIsChecked, OnTrack
      <3>4. EndIsCurrent'
        BY <1>0, <1>a, <1>1, <2>1, <2>2, <2>3, <2>4 DEF SameRun, RunInv, repoVars, Run, EndIsCurrent, OnTrack
      <3>5. RunIsCurrent'
        BY <1>0, <1>a, <1>1, <2>1, <2>2, <2>3, <2>4 DEF SameRun, RunInv, repoVars, Run, RunIsCurrent, OnTrack
      <3>. QED  BY <3>1, <3>2, <3>3, <3>4, <3>5 DEF RunInv
    <2>. QED  BY <2>3, <2>5, GateInvParts, PTL
  <1>2. CASE Violation(PlanViolation)
    <2>1. PlanViolation \in State \ {"PASS"}
      BY DEF PlanViolation, State
    <2>. QED  BY <1>0, <1>a, <1>2, <2>1, ViolationInv
  <1>. QED  BY <1>1, <1>2 DEF LoadPlan

LEMMA FetchInv ==
    ASSUME GateInv, Fetch
    PROVE  GateInv'
  <1>0. TypeOK /\ RunInv /\ run \in Run /\ pc = "fetch" /\ tracked' = origin
    BY GateInvParts DEF TypeOK, Fetch
  <1>a. UNCHANGED repoVars /\ UNCHANGED files /\ tracked' \in tracked..origin
    BY <1>0 DEF Fetch, TypeOK
  <1>1. CASE commits[head].branch = IssueBranch /\ Read("branch", commits[head].branch) /\ GoTo("mergeBase")
    <2>1. /\ SameRun /\ run'.ids[run.phase].branch = IssueBranch /\ run'.ended = run.ended
          /\ run'.ids[run.phase].plan = run.ids[run.phase].plan
          /\ run'.ids.end.hash = run.ids.end.hash
      <3> DEFINE id == [run.ids[run.phase] EXCEPT !.branch = commits[head].branch]
      <3>1. run.ids[run.phase] \in Reads
        BY <1>0 DEF Run
      <3>2. /\ id \in Reads /\ id.branch = IssueBranch /\ id.plan = run.ids[run.phase].plan
            /\ id.hash = run.ids[run.phase].hash
        BY <1>1, <3>1 DEF Reads
      <3>3. run' = [run EXCEPT !.ids[run.phase] = id]
        BY <1>1 DEF Read
      <3> HIDE DEF id
      <3>. QED  BY <1>0, <3>2, <3>3, ReadFacts DEF Run
    <2>2. pc' = "mergeBase" /\ pc' \in Step
      BY <1>1 DEF GoTo, Step
    <2>3. TypeOK' /\ EvidenceInv' /\ Dirty' = Dirty /\ ChangedPaths' = ChangedPaths
      BY <1>0, <1>a, <2>1, <2>2, RoundStep DEF TypeOK, SameRun
    <2>4. Stage = 3 /\ Stage' = 4
      BY <1>0, <2>1, <2>2 DEF Stage, PrepareOrder, EvaluateOrder, SameRun
    <2>a. ASSUME NEW id \in Reads, Found(id, 6) PROVE Found(id, 6)'
      BY <1>0, <1>a, <2>1, <2>2, <2>a, RoundStep DEF TypeOK, SameRun
    <2>b. ASSUME run.phase = "end", OnTrack PROVE Found(run.ids.start, 6)'
      <3>1. PICK id \in Reads : id = run.ids.start
        BY <1>0 DEF Run
      <3>2. Found(id, 6)
        BY <1>0, <2>b, <3>1 DEF RunInv, RoundsFound
      <3>3. id = run'.ids.start
        BY <2>1, <2>b, <3>1 DEF SameRun
      <3>. QED  BY <2>a, <3>2, <3>3
    <2>5. RunInv'
      <3>1. CommandsKeepOrder'
        BY <2>b, <1>0, <1>a, <1>1, <2>1, <2>2, <2>3, <2>4 DEF SameRun, RunInv, PrepareOrder, EvaluateOrder, Run, CommandsKeepOrder
      <3>2. RoundsFound'
        BY <2>b, <1>0, <1>a, <1>1, <2>1, <2>2, <2>3, <2>4 DEF SameRun, RunInv, repoVars, Run, RoundsFound, Found, OnTrack
      <3>3. TrackIsChecked'
        BY <2>b, <1>0, <1>a, <1>1, <2>1, <2>2, <2>3, <2>4 DEF SameRun, RunInv, Run, TrackIsChecked, OnTrack
      <3>4. EndIsCurrent'
        BY <2>b, <1>0, <1>a, <1>1, <2>1, <2>2, <2>3, <2>4 DEF SameRun, RunInv, repoVars, Run, EndIsCurrent, OnTrack
      <3>5. RunIsCurrent'
        BY <2>b, <1>0, <1>a, <1>1, <2>1, <2>2, <2>3, <2>4 DEF SameRun, RunInv, repoVars, Run, RunIsCurrent, OnTrack
      <3>. QED  BY <3>1, <3>2, <3>3, <3>4, <3>5 DEF RunInv
    <2>. QED  BY <2>3, <2>5, GateInvParts, PTL
  <1>2. CASE Violation("REPLAN_REQUIRED")
    <2>1. "REPLAN_REQUIRED" \in State \ {"PASS"}
      BY DEF State
    <2>. QED  BY <1>0, <1>a, <1>2, <2>1, ViolationInv
  <1>. QED  BY <1>1, <1>2 DEF Fetch

LEMMA ReadFailsInv ==
    ASSUME GateInv, ReadFails
    PROVE  GateInv'
  <1>1. PICK state \in {"BLOCKED", "FAIL"} : Violation(state)
    BY DEF ReadFails
  <1>2. UNCHANGED repoVars /\ UNCHANGED files /\ tracked' \in tracked..origin /\ pc # "idle"
    BY DEF ReadFails, GateInv, TypeOK
  <1>3. state \in State \ {"PASS"}
    BY DEF State
  <1>. QED  BY <1>1, <1>2, <1>3, ViolationInv

LEMMA ReadMergeBaseInv ==
    ASSUME GateInv, ReadMergeBase
    PROVE  GateInv'
  <1>0. TypeOK /\ RunInv /\ run \in Run /\ pc = "mergeBase" /\ tracked' = tracked /\ tracked \in Nat
    BY GateInvParts DEF TypeOK, ReadMergeBase
  <1>a. UNCHANGED repoVars /\ UNCHANGED files /\ tracked' \in tracked..origin
    BY <1>0 DEF ReadMergeBase, TypeOK
  <1>b. commits[head].fork \in Nat /\ commits[head].fork <= tracked
    <2>1. commits[head] \in Commit
      BY <1>0 DEF TypeOK
    <2>. QED  BY <1>0, <2>1 DEF TypeOK, Commit
  <1>1. /\ SameRun /\ run'.ids[run.phase].base = tracked /\ run'.ids[run.phase].mergeBase = commits[head].fork
        /\ run'.ended = run.ended /\ run'.ids.end.hash = run.ids.end.hash
        /\ run'.ids[run.phase].plan = run.ids[run.phase].plan
        /\ run'.ids[run.phase].branch = run.ids[run.phase].branch
    <2> DEFINE id == [run.ids[run.phase] EXCEPT !.base = tracked, !.mergeBase = commits[head].fork]
    <2>1. run.ids[run.phase] \in Reads
      BY <1>0 DEF Run
    <2>2. /\ id \in Reads /\ id.base = tracked /\ id.mergeBase = commits[head].fork
          /\ id.plan = run.ids[run.phase].plan /\ id.branch = run.ids[run.phase].branch
          /\ id.hash = run.ids[run.phase].hash
      BY <1>0, <1>b, <2>1 DEF Reads
    <2>3. run' = [run EXCEPT !.ids[run.phase] = id]
      BY <1>0 DEF ReadMergeBase, Run
    <2> HIDE DEF id
    <2>. QED  BY <1>0, <2>2, <2>3, ReadFacts DEF Run
  <1>2. pc' = "head" /\ pc' \in Step
    BY DEF ReadMergeBase, GoTo, Step
  <1>3. TypeOK' /\ EvidenceInv' /\ Dirty' = Dirty /\ ChangedPaths' = ChangedPaths
    BY <1>0, <1>a, <1>1, <1>2, RoundStep DEF TypeOK, SameRun
  <1>4. Stage = 4 /\ Stage' = 5
    BY <1>0, <1>1, <1>2 DEF Stage, PrepareOrder, EvaluateOrder, SameRun
  <1>5. RunInv'
    <2>1. CommandsKeepOrder'
      BY <1>0, <1>a, <1>b, <1>1, <1>2, <1>3, <1>4 DEF SameRun, RunInv, PrepareOrder, EvaluateOrder, Run, CommandsKeepOrder
    <2>2. RoundsFound'
      BY <1>0, <1>a, <1>b, <1>1, <1>2, <1>3, <1>4 DEF SameRun, RunInv, repoVars, Run, RoundsFound, Found, OnTrack
    <2>3. TrackIsChecked'
      BY <1>0, <1>a, <1>b, <1>1, <1>2, <1>3, <1>4 DEF SameRun, RunInv, Run, TrackIsChecked, OnTrack
    <2>4. EndIsCurrent'
      BY <1>0, <1>a, <1>b, <1>1, <1>2, <1>3, <1>4 DEF SameRun, RunInv, repoVars, Run, EndIsCurrent, OnTrack
    <2>5. RunIsCurrent'
      BY <1>0, <1>a, <1>b, <1>1, <1>2, <1>3, <1>4 DEF SameRun, RunInv, repoVars, Run, RunIsCurrent, OnTrack
    <2>. QED  BY <2>1, <2>2, <2>3, <2>4, <2>5 DEF RunInv
  <1>. QED  BY <1>3, <1>5, GateInvParts, PTL

LEMMA ReadHeadInv ==
    ASSUME GateInv, ReadHead
    PROVE  GateInv'
  <1>0. TypeOK /\ RunInv /\ run \in Run /\ pc = "head" /\ tracked' = tracked
    BY GateInvParts DEF TypeOK, ReadHead
  <1>a. UNCHANGED repoVars /\ UNCHANGED files /\ tracked' \in tracked..origin
    BY <1>0 DEF ReadHead, TypeOK
  <1>1. /\ SameRun /\ run'.ids[run.phase].head = head
        /\ run'.ended = run.ended /\ run'.ids.end.hash = run.ids.end.hash
        /\ run'.ids[run.phase].plan = run.ids[run.phase].plan
        /\ run'.ids[run.phase].branch = run.ids[run.phase].branch
        /\ run'.ids[run.phase].base = run.ids[run.phase].base
        /\ run'.ids[run.phase].mergeBase = run.ids[run.phase].mergeBase
    <2> DEFINE id == [run.ids[run.phase] EXCEPT !.head = head]
    <2>1. run.ids[run.phase] \in Reads /\ head \in Nat
      BY <1>0 DEF Run, TypeOK
    <2>2. /\ id \in Reads /\ id.head = head
          /\ id.plan = run.ids[run.phase].plan /\ id.branch = run.ids[run.phase].branch
          /\ id.base = run.ids[run.phase].base /\ id.mergeBase = run.ids[run.phase].mergeBase
          /\ id.hash = run.ids[run.phase].hash
      BY <2>1 DEF Reads
    <2>3. run' = [run EXCEPT !.ids[run.phase] = id]
      BY DEF ReadHead, Read
    <2> HIDE DEF id
    <2>. QED  BY <1>0, <2>2, <2>3, ReadFacts DEF Run
  <1>2. /\ pc' = IF run.cmd = "prepare" THEN "clean" ELSE IF run.phase = "start" THEN "lock" ELSE "paths"
        /\ pc' \in Step
    BY DEF ReadHead, GoTo, After, PrepareAfter, EvaluateAfter, Step
  <1>3. TypeOK' /\ EvidenceInv' /\ Dirty' = Dirty /\ ChangedPaths' = ChangedPaths
    BY <1>0, <1>a, <1>1, <1>2, RoundStep DEF TypeOK, SameRun
  <1>4. Stage = 5 /\ Stage' = IF run.cmd = "evaluate" /\ run.phase = "end" THEN 7 ELSE 6
    BY <1>0, <1>1, <1>2 DEF Stage, PrepareOrder, EvaluateOrder, SameRun, Run
  <1>5. CommandsKeepOrder'
    BY <1>0, <1>1, <1>2, <1>4 DEF SameRun, RunInv, CommandsKeepOrder, PrepareOrder, EvaluateOrder, Run
  <1>6. RoundsFound'
    BY <1>0, <1>a, <1>1, <1>2, <1>4 DEF SameRun, RunInv, RoundsFound, Found, OnTrack, repoVars, Run, TypeOK
  <1>7. TrackIsChecked'
    BY <1>0, <1>a, <1>1, <1>2, <1>4 DEF SameRun, RunInv, TrackIsChecked, OnTrack, repoVars, Run, TypeOK
  <1>8. EndIsCurrent' /\ RunIsCurrent'
    BY <1>0, <1>a, <1>1, <1>2, <1>3, <1>4 DEF SameRun, RunInv, EndIsCurrent, RunIsCurrent, OnTrack, repoVars, Run
  <1>9. RunInv'
    BY <1>5, <1>6, <1>7, <1>8 DEF RunInv
  <1>. QED  BY <1>3, <1>9, GateInvParts, PTL

LEMMA CollectChangedPathsInv ==
    ASSUME GateInv, CollectChangedPaths
    PROVE  GateInv'
  <1>0. /\ TypeOK /\ RunInv /\ run \in Run /\ pc = "paths" /\ tracked' = tracked
        /\ run.cmd = "evaluate"
    BY GateInvParts DEF TypeOK, CollectChangedPaths, RunInv, CommandsKeepOrder, PrepareOrder, Run
  <1>a. UNCHANGED repoVars /\ UNCHANGED files /\ tracked' \in tracked..origin
    BY <1>0 DEF CollectChangedPaths, TypeOK
  <1>1. /\ SameRun /\ run'.ids[run.phase].paths = ChangedPaths
        /\ run'.ended = run.ended /\ run'.ids.end.hash = run.ids.end.hash
        /\ run'.ids[run.phase].plan = run.ids[run.phase].plan
        /\ run'.ids[run.phase].branch = run.ids[run.phase].branch
        /\ run'.ids[run.phase].base = run.ids[run.phase].base
        /\ run'.ids[run.phase].mergeBase = run.ids[run.phase].mergeBase
        /\ run'.ids[run.phase].head = run.ids[run.phase].head
    <2> DEFINE id == [run.ids[run.phase] EXCEPT !.paths = ChangedPaths]
    <2>0. ChangedPaths \in SUBSET Path
      <3>1. commits[head] \in Commit
        BY <1>0 DEF TypeOK
      <3>. QED  BY <1>0, <3>1 DEF TypeOK, ChangedPaths, Tree, Content, Commit
    <2>1. run.ids[run.phase] \in Reads
      BY <1>0 DEF Run
    <2>2. /\ id \in Reads /\ id.paths = ChangedPaths /\ id.head = run.ids[run.phase].head
          /\ id.plan = run.ids[run.phase].plan /\ id.branch = run.ids[run.phase].branch
          /\ id.base = run.ids[run.phase].base /\ id.mergeBase = run.ids[run.phase].mergeBase
          /\ id.hash = run.ids[run.phase].hash
      BY <2>0, <2>1 DEF Reads
    <2>3. run' = [run EXCEPT !.ids[run.phase] = id]
      BY DEF CollectChangedPaths, Read
    <2> HIDE DEF id
    <2>. QED  BY <1>0, <2>2, <2>3, ReadFacts DEF Run
  <1>2. pc' = "hash" /\ pc' \in Step
    BY DEF CollectChangedPaths, GoTo, Step
  <1>3. TypeOK' /\ EvidenceInv' /\ Dirty' = Dirty /\ ChangedPaths' = ChangedPaths
    BY <1>0, <1>a, <1>1, <1>2, RoundStep DEF TypeOK, SameRun
  <1>4. Stage = 7 /\ Stage' = 8
    BY <1>0, <1>1, <1>2 DEF Stage, EvaluateOrder, SameRun
  <1>b. run.phase = "start" => PlanLock(run'.ids.start) = PlanLock(run.ids.start)
    BY <1>1 DEF PlanLock
  <1>5. RunInv'
    <2>1. CommandsKeepOrder'
      BY <1>0, <1>a, <1>b, <1>1, <1>2, <1>3, <1>4 DEF SameRun, RunInv, EvaluateOrder, Run, CommandsKeepOrder
    <2>2. RoundsFound'
      BY <1>0, <1>a, <1>b, <1>1, <1>2, <1>3, <1>4 DEF SameRun, RunInv, repoVars, Run, RoundsFound, Found, OnTrack
    <2>3. TrackIsChecked'
      BY <1>0, <1>a, <1>b, <1>1, <1>2, <1>3, <1>4 DEF SameRun, RunInv, Run, TrackIsChecked, OnTrack
    <2>4. EndIsCurrent'
      BY <1>0, <1>a, <1>b, <1>1, <1>2, <1>3, <1>4 DEF SameRun, RunInv, repoVars, Run, EndIsCurrent, OnTrack
    <2>5. RunIsCurrent'
      BY <1>0, <1>a, <1>b, <1>1, <1>2, <1>3, <1>4 DEF SameRun, RunInv, repoVars, Run, RunIsCurrent, OnTrack
    <2>. QED  BY <2>1, <2>2, <2>3, <2>4, <2>5 DEF RunInv
  <1>. QED  BY <1>3, <1>5, GateInvParts, PTL

LEMMA PreflightInv ==
    ASSUME GateInv, Preflight
    PROVE  GateInv'
  <1>0. /\ TypeOK /\ RunInv /\ EvidenceInv /\ run \in Run /\ pc = "preflight" /\ tracked' = tracked
        /\ run.cmd = "prepare" /\ run.phase = "start"
    BY GateInvParts DEF TypeOK, Preflight, RunInv, CommandsKeepOrder, EvaluateOrder, Run
  <1>a. UNCHANGED repoVars /\ UNCHANGED files /\ tracked' \in tracked..origin
    BY <1>0 DEF Preflight, TypeOK
  <1>1. CASE Finish("BLOCKED")
    BY <1>0, <1>a, <1>1, EvidenceStays, FinishInv DEF files, repoVars, TypeOK
  <1>2. CASE run' = EnterEnd(run) /\ GoTo("plan")
    <2>1. /\ run' \in Run /\ run'.cmd = "prepare" /\ run'.phase = "end" /\ run'.ids = run.ids
          /\ run'.ended = run.ended /\ run'.lock = run.lock
      BY <1>0, <1>2 DEF EnterEnd, Run
    <2>2. pc' = "plan" /\ pc' \in Step /\ Stage = 7 /\ Stage' = 2
      BY <1>0, <1>2, <2>1 DEF GoTo, Step, Stage, PrepareOrder
    <2>3. TypeOK'
      BY <1>0, <1>a, <2>1, <2>2, HarnessType DEF TypeOK, files
    <2>4. EvidenceInv'
      BY <1>0, <1>a, EvidenceStays DEF files, repoVars
    <2>5. CommandsKeepOrder'
      BY <2>1, <2>2 DEF CommandsKeepOrder, PrepareOrder
    <2>6. RoundsFound'
      BY <1>0, <1>a, <2>1, <2>2 DEF RunInv, RoundsFound, Found, OnTrack, repoVars
    <2>. QED  BY <2>1, <2>3, <2>4, <2>5, <2>6, PrepareRun, GateInvParts, PTL
  <1>. QED  BY <1>1, <1>2 DEF Preflight

LEMMA LoadPlanLockInv ==
    ASSUME GateInv, LoadPlanLock
    PROVE  GateInv'
  <1>0. /\ TypeOK /\ RunInv /\ EvidenceInv /\ run \in Run /\ pc = "lock" /\ tracked' = tracked
        /\ run.cmd = "evaluate" /\ run.phase = "start"
    BY GateInvParts DEF TypeOK, LoadPlanLock, RunInv, CommandsKeepOrder, PrepareOrder, Run
  <1>a. UNCHANGED repoVars /\ UNCHANGED files /\ tracked' \in tracked..origin
    BY <1>0 DEF LoadPlanLock, TypeOK
  <1>b. Stage = 6 /\ Dirty' = Dirty /\ ChangedPaths' = ChangedPaths
    BY <1>0, <1>a DEF Stage, EvaluateOrder, Dirty, ChangedPaths, Tree, repoVars
  <1>c. EvidenceInv'
    BY <1>0, <1>a, EvidenceStays DEF files, repoVars
  <1>1. CASE Violation("REPLAN_REQUIRED")
    <2>1. "REPLAN_REQUIRED" \in State \ {"PASS"}
      BY DEF State
    <2>. QED  BY <1>0, <1>a, <1>1, <2>1, ViolationInv
  <1>2. CASE lock # None /\ lock = PlanLock(run.ids.start) /\ run' = [run EXCEPT !.lock = lock] /\ GoTo("paths")
    <2>1. /\ run' \in Run /\ run'.cmd = "evaluate" /\ run'.phase = "start" /\ run'.ids = run.ids
          /\ run'.ended = run.ended /\ run'.lock = lock /\ run'.checks = run.checks
          /\ run'.calmRun = run.calmRun
      BY <1>0, <1>2 DEF Run, TypeOK
    <2>2. pc' = "paths" /\ pc' \in Step /\ Stage' = 7
      BY <1>2, <2>1 DEF GoTo, Step, Stage, EvaluateOrder
    <2>3. TypeOK'
      BY <1>0, <1>a, <2>1, <2>2, HarnessType DEF TypeOK, files
    <2>4. CommandsKeepOrder' /\ EndIsCurrent'
      BY <1>0, <1>b, <2>1, <2>2 DEF RunInv, CommandsKeepOrder, EvaluateOrder, EndIsCurrent
    <2>5. RoundsFound'
      BY <1>0, <1>a, <1>b, <2>1, <2>2 DEF RunInv, RoundsFound, Found, OnTrack, repoVars
    <2>6. TrackIsChecked' /\ RunIsCurrent'
      BY <1>0, <1>a, <1>b, <1>2, <2>1, <2>2 DEF RunInv, TrackIsChecked, RunIsCurrent, OnTrack, repoVars
    <2>7. RunInv'
      BY <2>4, <2>5, <2>6 DEF RunInv
    <2>. QED  BY <1>c, <2>3, <2>7, GateInvParts, PTL
  <1>3. CASE /\ lock # None /\ GoTo("restore")
             /\ run' = [run EXCEPT !.lock = lock, !.checks = @ \cup {"REPLAN_REQUIRED"}]
    <2>1. /\ run' \in Run /\ run'.cmd = "evaluate" /\ run'.phase = "start" /\ run'.ids = run.ids
          /\ run'.ended = run.ended /\ run'.lock = lock /\ run'.checks = run.checks \cup {"REPLAN_REQUIRED"}
      BY <1>0, <1>3 DEF Run, TypeOK, State
    <2>2. pc' = "restore" /\ pc' \in Step /\ Stage' = 12
      BY <1>3, <2>1 DEF GoTo, Step, Stage, EvaluateOrder
    <2>3. TypeOK'
      BY <1>0, <1>a, <2>1, <2>2, HarnessType DEF TypeOK, files
    <2>4. CommandsKeepOrder'
      BY <2>1, <2>2 DEF CommandsKeepOrder, EvaluateOrder
    <2>5. ~(run'.checks \subseteq {"PASS"})
      <3>1. "REPLAN_REQUIRED" \in run'.checks
        BY <2>1
      <3>. QED  BY <3>1
    <2>. QED  BY <1>c, <2>1, <2>3, <2>4, <2>5, OffTrackRun, GateInvParts, PTL
  <1>. QED  BY <1>1, <1>2, <1>3 DEF LoadPlanLock

\* The end of the start reads, or of the end reads and the comparison.
LEMMA ComputeDiffHashInv ==
    ASSUME GateInv, ComputeDiffHash
    PROVE  GateInv'
  <1> DEFINE h == <<run.ids[run.phase].mergeBase, work>>
  <1>0. /\ TypeOK /\ RunInv /\ EvidenceInv /\ run \in Run /\ pc = "hash" /\ tracked' = tracked
        /\ run.cmd = "evaluate"
    BY GateInvParts DEF TypeOK, ComputeDiffHash, RunInv, CommandsKeepOrder, PrepareOrder, Run
  <1>a. UNCHANGED repoVars /\ UNCHANGED files /\ tracked' \in tracked..origin
    BY <1>0 DEF ComputeDiffHash, TypeOK
  <1>b. Stage = 8 /\ Dirty' = Dirty /\ ChangedPaths' = ChangedPaths
    BY <1>0, <1>a DEF Stage, EvaluateOrder, Dirty, ChangedPaths, Tree, repoVars
  <1>c. EvidenceInv'
    BY <1>0, <1>a, EvidenceStays DEF files, repoVars
  <1>d. h \in Hash /\ h # None
    <2>1. run.ids[run.phase] \in Reads /\ work \in Content
      BY <1>0 DEF Run, TypeOK
    <2>2. h \in Hash
      BY <2>1 DEF Reads, Hash
    <2> HIDE DEF h
    <2>. QED  BY <2>2
  <1>1. CASE run.phase = "start"
    <2>0. Read("hash", h) /\ GoTo("static")
      BY <1>1 DEF ComputeDiffHash
    <2> HIDE DEF h
    <2>1. /\ SameRun /\ run'.ended = run.ended /\ run'.ids.end.hash = run.ids.end.hash
          /\ run'.ids.start.plan = run.ids.start.plan
          /\ run'.ids.start.branch = run.ids.start.branch
          /\ run'.ids.start.base = run.ids.start.base
          /\ run'.ids.start.mergeBase = run.ids.start.mergeBase
          /\ run'.ids.start.head = run.ids.start.head
          /\ run'.ids.start.paths = run.ids.start.paths
      <3> DEFINE id == [run.ids[run.phase] EXCEPT !.hash = h]
      <3>1. run.ids[run.phase] \in Reads
        BY <1>0 DEF Run
      <3>2. /\ id \in Reads /\ id.head = run.ids[run.phase].head /\ id.paths = run.ids[run.phase].paths
            /\ id.plan = run.ids[run.phase].plan /\ id.branch = run.ids[run.phase].branch
            /\ id.base = run.ids[run.phase].base /\ id.mergeBase = run.ids[run.phase].mergeBase
        BY <1>d, <3>1 DEF Reads
      <3>3. run' = [run EXCEPT !.ids[run.phase] = id]
        BY <2>0 DEF Read
      <3> HIDE DEF id
      <3>. QED  BY <1>0, <1>1, <3>2, <3>3, ReadFacts DEF Run
    <2>2. pc' = "static" /\ pc' \in Step /\ Stage' = 9
      BY <1>0, <2>0, <2>1 DEF GoTo, Step, Stage, EvaluateOrder, SameRun
    <2>3. TypeOK'
      BY <1>0, <1>a, <2>1, <2>2, RoundStep DEF TypeOK, SameRun
    <2>4. PlanLock(run'.ids.start) = PlanLock(run.ids.start)
      BY <2>1 DEF PlanLock
    <2>5. RunInv'
      <3>1. CommandsKeepOrder'
        BY <1>0, <1>a, <1>b, <1>1, <2>1, <2>2, <2>4 DEF SameRun, RunInv, EvaluateOrder, CommandsKeepOrder
      <3>2. RoundsFound'
        BY <1>0, <1>a, <1>b, <1>1, <2>1, <2>2, <2>4 DEF SameRun, RunInv, repoVars, RoundsFound, Found, OnTrack
      <3>3. TrackIsChecked'
        BY <1>0, <1>a, <1>b, <1>1, <2>1, <2>2, <2>4 DEF SameRun, RunInv, TrackIsChecked, OnTrack
      <3>4. EndIsCurrent'
        BY <1>0, <1>a, <1>b, <1>1, <2>1, <2>2, <2>4 DEF SameRun, RunInv, repoVars, EndIsCurrent, OnTrack
      <3>5. RunIsCurrent'
        BY <1>0, <1>a, <1>b, <1>1, <2>1, <2>2, <2>4 DEF SameRun, RunInv, repoVars, RunIsCurrent, OnTrack
      <3>. QED  BY <3>1, <3>2, <3>3, <3>4, <3>5 DEF RunInv
    <2>. QED  BY <1>c, <2>3, <2>5, GateInvParts, PTL
  <1>2. CASE run.phase = "end"
    <2> DEFINE end == [run.ids.end EXCEPT !.hash = h]
               same == Identity(run.ids.start) = Identity(end)
               checks == IF same THEN run.checks ELSE run.checks \cup {"REPLAN_REQUIRED"}
    <2>0. run' = [run EXCEPT !.ids.end = end, !.ended = TRUE, !.checks = checks] /\ GoTo("restore")
      BY <1>0, <1>2 DEF ComputeDiffHash, Run
    <2> HIDE DEF h
    <2>1. /\ end \in Reads /\ end.hash # None /\ end.paths = run.ids.end.paths /\ end.head = run.ids.end.head
          /\ end.plan = run.ids.end.plan /\ end.branch = run.ids.end.branch
          /\ end.base = run.ids.end.base /\ end.mergeBase = run.ids.end.mergeBase
      <3>1. run.ids.end \in Reads
        BY <1>0 DEF Run
      <3>. QED  BY <1>d, <3>1 DEF Reads
    <2>2. checks \in SUBSET State /\ run.checks \subseteq checks /\ (checks \subseteq {"PASS"} => same)
      BY <1>0 DEF Run, State
    <2> HIDE DEF end, same, checks
    <2>3. /\ run' \in Run /\ run'.cmd = "evaluate" /\ run'.phase = "end" /\ run'.lock = run.lock
          /\ run'.checks = checks /\ run'.tested = run.tested /\ run'.ended = TRUE
          /\ run'.calmRun = run.calmRun /\ run'.calmEnd = run.calmEnd
          /\ run'.ids.start = run.ids.start /\ run'.ids.end = end
      BY <1>0, <1>2, <2>0, <2>1, <2>2 DEF Run
    <2>4. pc' = "restore" /\ pc' \in Step /\ Stage' = 12
      BY <2>0, <2>3 DEF GoTo, Step, Stage, EvaluateOrder
    <2>5. TypeOK'
      BY <1>0, <1>a, <2>1, <2>3, <2>4, HarnessType DEF TypeOK, files
    <2>6. OnTrack' => OnTrack /\ Identity(run'.ids.start) = Identity(run'.ids.end)
      BY <1>0, <2>2, <2>3, <2>4 DEF OnTrack, same
    <2>7. CommandsKeepOrder'
      BY <2>3, <2>4 DEF CommandsKeepOrder, EvaluateOrder
    <2>8. RoundsFound'
      BY <1>0, <1>a, <1>b, <1>2, <2>1, <2>3, <2>4, <2>6 DEF RunInv, RoundsFound, Found, repoVars
    <2>9. TrackIsChecked'
      BY <1>0, <1>b, <1>2, <2>3, <2>4, <2>6 DEF RunInv, TrackIsChecked
    <2>10. EndIsCurrent'
      BY <1>0, <1>a, <1>b, <1>2, <2>1, <2>3, <2>4, <2>6 DEF RunInv, EndIsCurrent, repoVars
    <2>11. RunIsCurrent'
      BY <1>0, <1>a, <1>b, <1>2, <2>3, <2>4, <2>6 DEF RunInv, RunIsCurrent, repoVars
    <2>12. RunInv'
      BY <2>7, <2>8, <2>9, <2>10, <2>11 DEF RunInv
    <2>. QED  BY <1>c, <2>5, <2>12, GateInvParts, PTL
  <1>. QED  BY <1>0, <1>1, <1>2 DEF Run

-----------------------------------------------------------------------------
(* The checks *)

LEMMA StaticChecksInv ==
    ASSUME GateInv, StaticChecks
    PROVE  GateInv'
  <1>0. /\ TypeOK /\ RunInv /\ EvidenceInv /\ run \in Run /\ pc = "static" /\ tracked' = tracked
        /\ run.cmd = "evaluate" /\ run.phase = "start"
    BY GateInvParts DEF TypeOK, StaticChecks, RunInv, CommandsKeepOrder, PrepareOrder, Run
  <1>a. UNCHANGED repoVars /\ UNCHANGED files /\ tracked' \in tracked..origin
    BY <1>0 DEF StaticChecks, TypeOK
  <1>b. Stage = 9 /\ Dirty' = Dirty /\ ChangedPaths' = ChangedPaths
    BY <1>0, <1>a DEF Stage, EvaluateOrder, Dirty, ChangedPaths, Tree, repoVars
  <1>1. CASE Violation("FAIL") \/ Violation("REPLAN_REQUIRED")
    <2>1. "REPLAN_REQUIRED" \in State \ {"PASS"} /\ "FAIL" \in State \ {"PASS"}
      BY DEF State
    <2>. QED  BY <1>0, <1>a, <1>1, <2>1, ViolationInv
  <1>2. CASE /\ \E untracked \in SUBSET (MigrationDir \ Migration) :
                  ~MigrationViolation(run.ids.start.paths, untracked)
             /\ run.ids.start.paths \subseteq Allowed[run.ids.start.plan]
             /\ UNCHANGED run /\ GoTo("gradle")
    <2>1. pc' = "gradle" /\ pc' \in Step /\ Stage' = 10 /\ run' = run
      BY <1>0, <1>2 DEF GoTo, Step, Stage, EvaluateOrder
    <2>2. SameRun
      BY <1>0, <2>1 DEF SameRun
    <2>3. TypeOK' /\ EvidenceInv'
      BY <1>0, <1>a, <2>1, <2>2, RoundStep DEF TypeOK
    <2>4. ChangedPaths \cap Migration = {}
      <3>1. PICK untracked \in SUBSET (MigrationDir \ Migration) : ActualMutations(untracked) \cap Migration = {}
        BY <1>2 DEF MigrationViolation
      <3>. QED  BY <3>1, GateAssumption DEF ActualMutations, ChangedPaths
    <2>5. RunInv'
      <3>1. CommandsKeepOrder'
        BY <1>0, <1>a, <1>b, <1>2, <2>1, <2>4 DEF RunInv, EvaluateOrder, CommandsKeepOrder
      <3>2. RoundsFound'
        BY <1>0, <1>a, <1>b, <1>2, <2>1, <2>4 DEF RunInv, repoVars, RoundsFound, Found, OnTrack
      <3>3. TrackIsChecked'
        BY <1>0, <1>a, <1>b, <1>2, <2>1, <2>4 DEF RunInv, TrackIsChecked, OnTrack
      <3>4. EndIsCurrent'
        BY <1>0, <1>a, <1>b, <1>2, <2>1, <2>4 DEF RunInv, repoVars, EndIsCurrent, OnTrack
      <3>5. RunIsCurrent'
        BY <1>0, <1>a, <1>b, <1>2, <2>1, <2>4 DEF RunInv, repoVars, RunIsCurrent, OnTrack
      <3>. QED  BY <3>1, <3>2, <3>3, <3>4, <3>5 DEF RunInv
    <2>. QED  BY <2>3, <2>5, GateInvParts, PTL
  <1>. QED  BY <1>1, <1>2 DEF StaticChecks

LEMMA RunGradleInv ==
    ASSUME GateInv, RunGradle
    PROVE  GateInv'
  <1>0. /\ TypeOK /\ RunInv /\ EvidenceInv /\ run \in Run /\ pc = "gradle" /\ tracked' = tracked
        /\ run.cmd = "evaluate" /\ run.phase = "start"
    BY GateInvParts DEF TypeOK, RunGradle, RunInv, CommandsKeepOrder, PrepareOrder, Run
  <1>a. UNCHANGED repoVars /\ tracked' \in tracked..origin
    BY <1>0 DEF RunGradle, TypeOK
  <1>b. Stage = 10 /\ Dirty' = Dirty /\ ChangedPaths' = ChangedPaths
    BY <1>0, <1>a DEF Stage, EvaluateOrder, Dirty, ChangedPaths, Tree, repoVars
  <1>1. /\ lock' = lock \/ lock' = None
        /\ evaluation' = evaluation \/ evaluation' = None
        /\ \E states \in {{}, {"BLOCKED"}, {"FAIL"}} : run' = [run EXCEPT !.checks = @ \cup states]
        /\ GoTo("checks")
    BY DEF RunGradle, files
  <1>2. /\ run' \in Run /\ run'.cmd = "evaluate" /\ run'.phase = "start" /\ run'.ids = run.ids
        /\ run'.ended = run.ended /\ run'.lock = run.lock /\ run.checks \subseteq run'.checks
        /\ run'.calmRun = run.calmRun
    BY <1>0, <1>1 DEF Run, State
  <1>3. pc' = "checks" /\ pc' \in Step /\ Stage' = 11
    BY <1>1, <1>2 DEF GoTo, Step, Stage, EvaluateOrder
  <1>4. TypeOK'
    BY <1>0, <1>a, <1>1, <1>2, <1>3, HarnessType DEF TypeOK
  <1>5. EvidenceInv'
    BY <1>0, <1>a, <1>1, EvidenceStays DEF repoVars
  <1>6. RunInv'
    <2>1. CommandsKeepOrder'
      BY <1>0, <1>a, <1>b, <1>2, <1>3 DEF RunInv, EvaluateOrder, CommandsKeepOrder
    <2>2. RoundsFound'
      BY <1>0, <1>a, <1>b, <1>2, <1>3 DEF RunInv, repoVars, RoundsFound, Found, OnTrack
    <2>3. TrackIsChecked'
      BY <1>0, <1>a, <1>b, <1>2, <1>3 DEF RunInv, TrackIsChecked, OnTrack
    <2>4. EndIsCurrent'
      BY <1>0, <1>a, <1>b, <1>2, <1>3 DEF RunInv, repoVars, EndIsCurrent, OnTrack
    <2>5. RunIsCurrent'
      BY <1>0, <1>a, <1>b, <1>2, <1>3 DEF RunInv, repoVars, RunIsCurrent, OnTrack
    <2>. QED  BY <2>1, <2>2, <2>3, <2>4, <2>5 DEF RunInv
  <1>. QED  BY <1>4, <1>5, <1>6, GateInvParts, PTL

LEMMA FinishChecksInv ==
    ASSUME GateInv, FinishChecks
    PROVE  GateInv'
  <1> DEFINE verdict == IF work.code \in Passing THEN "PASS" ELSE "FAIL"
             tested == IF "BLOCKED" \in run.checks THEN None ELSE work.code
  <1>0. /\ TypeOK /\ RunInv /\ EvidenceInv /\ run \in Run /\ pc = "checks" /\ tracked' = tracked
        /\ run.cmd = "evaluate" /\ run.phase = "start"
    BY GateInvParts DEF TypeOK, FinishChecks, RunInv, CommandsKeepOrder, PrepareOrder, Run
  <1>a. UNCHANGED repoVars /\ UNCHANGED files /\ tracked' \in tracked..origin
    BY <1>0 DEF FinishChecks, TypeOK
  <1>b. Stage = 11 /\ Dirty' = Dirty /\ ChangedPaths' = ChangedPaths
    BY <1>0, <1>a DEF Stage, EvaluateOrder, Dirty, ChangedPaths, Tree, repoVars
  <1>c. EvidenceInv'
    BY <1>0, <1>a, EvidenceStays DEF files, repoVars
  <1>1. /\ verdict \in State /\ tested \in Code \cup {None}
        /\ (run.checks \cup {verdict}) \subseteq {"PASS"} =>
             run.checks \subseteq {"PASS"} /\ tested = work.code /\ work.code \in Passing
    <2>1. work.code \in Code
      BY <1>0 DEF TypeOK, Content
    <2>. QED  BY <2>1 DEF State
  <1>2. /\ run' = EnterEnd([run EXCEPT !.tested = tested, !.checks = run.checks \cup {verdict}])
        /\ GoTo("clean")
    BY <1>0 DEF FinishChecks, Run
  <1> HIDE DEF verdict, tested
  <1>3. /\ run' \in Run /\ run'.cmd = "evaluate" /\ run'.phase = "end" /\ run'.ids = run.ids
        /\ run'.ended = run.ended /\ run'.lock = run.lock /\ run'.checks = run.checks \cup {verdict}
        /\ run'.calmRun = run.calmRun /\ run'.tested = tested
    BY <1>0, <1>1, <1>2 DEF EnterEnd, Run
  <1>4. pc' = "clean" /\ pc' \in Step /\ Stage' = 1
    BY <1>2, <1>3 DEF GoTo, Step, Stage, EvaluateOrder
  <1>5. TypeOK'
    BY <1>0, <1>a, <1>3, <1>4, HarnessType DEF TypeOK, files
  <1>6. OnTrack' => OnTrack /\ tested = work.code /\ work.code \in Passing
    BY <1>0, <1>1, <1>3 DEF OnTrack
  <1>7. RunInv'
    <2>1. CommandsKeepOrder'
      BY <1>0, <1>a, <1>b, <1>3, <1>4, <1>6 DEF RunInv, EvaluateOrder, CommandsKeepOrder
    <2>2. RoundsFound'
      BY <1>0, <1>a, <1>b, <1>3, <1>4, <1>6 DEF RunInv, repoVars, RoundsFound, Found
    <2>3. TrackIsChecked'
      BY <1>0, <1>a, <1>b, <1>3, <1>4, <1>6 DEF RunInv, TrackIsChecked
    <2>4. EndIsCurrent'
      BY <1>0, <1>a, <1>b, <1>3, <1>4, <1>6 DEF RunInv, repoVars, EndIsCurrent
    <2>5. RunIsCurrent'
      BY <1>0, <1>a, <1>b, <1>3, <1>4, <1>6 DEF RunInv, repoVars, RunIsCurrent
    <2>. QED  BY <2>1, <2>2, <2>3, <2>4, <2>5 DEF RunInv
  <1>. QED  BY <1>5, <1>7, <1>c, GateInvParts, PTL

-----------------------------------------------------------------------------
(* The files are written *)

\* A complete round names what a lock holds.
LEMMA FoundLock ==
    ASSUME NEW id \in Reads, Found(id, 6)
    PROVE  /\ PlanLock(id) \in LockFile /\ PlanLock(id) # None
           /\ PlanLock(id).mergeBase <= PlanLock(id).base /\ PlanLock(id).base <= tracked
  <1>1. PlanLock(id) \in LockFile
    BY DEF Found, PlanLock, LockFile
  <1>. QED  BY <1>1 DEF Found, PlanLock

LEMMA DecideRestoreInv ==
    ASSUME GateInv, DecideRestore
    PROVE  GateInv'
  <1>0. /\ TypeOK /\ RunInv /\ EvidenceInv /\ run \in Run /\ pc = "restore" /\ tracked' = tracked
        /\ run.cmd = "evaluate"
    BY GateInvParts DEF TypeOK, DecideRestore, RunInv, CommandsKeepOrder, PrepareOrder, Run
  <1>a. UNCHANGED repoVars /\ UNCHANGED files /\ tracked' \in tracked..origin
    BY <1>0 DEF DecideRestore, TypeOK
  <1>b. Stage = 12 /\ Dirty' = Dirty /\ ChangedPaths' = ChangedPaths
    BY <1>0, <1>a DEF Stage, EvaluateOrder, Dirty, ChangedPaths, Tree, repoVars
  <1>c. EvidenceInv'
    BY <1>0, <1>a, EvidenceStays DEF files, repoVars
  <1>1. ASSUME OnTrack PROVE run.lock # None /\ run.ended /\ run.phase = "end" /\ run.lock = PlanLock(run.ids.end)
    <2>1. /\ run.ended /\ run.phase = "end" /\ Identity(run.ids.start) = Identity(run.ids.end)
          /\ run.lock = PlanLock(run.ids.start)
      BY <1>0, <1>1, <1>b DEF RunInv, TrackIsChecked, TypeOK
    <2>2. Found(run.ids.start, 6) /\ run.ids.end.branch = IssueBranch
      BY <1>0, <1>1, <1>b, <2>1 DEF RunInv, RoundsFound, Found
    <2>3. run.lock # None
      BY <1>0, <2>1, <2>2, FoundLock DEF Run
    <2>4. PlanLock(run.ids.start) = PlanLock(run.ids.end)
      BY <2>1, <2>2 DEF Identity, PlanLock, Found
    <2>. QED  BY <2>1, <2>3, <2>4
  <1>2. CASE /\ run.lock = None \/ ~run.ended \/ run.lock # PlanLock(run.ids.end)
             /\ run' = run \/ \E state \in {"BLOCKED", "REPLAN_REQUIRED"} : run' = [run EXCEPT !.checks = @ \cup {state}]
             /\ GoTo("writeEvaluation")
    <2>1. ~(run.checks \subseteq {"PASS"})
      BY <1>0, <1>1, <1>2 DEF OnTrack
    <2>2. /\ run' \in Run /\ run'.cmd = "evaluate" /\ run'.phase = run.phase /\ run'.ids = run.ids
          /\ run'.ended = run.ended /\ run'.lock = run.lock /\ run.checks \subseteq run'.checks
      BY <1>0, <1>2 DEF Run, State
    <2>3. pc' = "writeEvaluation" /\ pc' \in Step /\ Stage' = 14
      BY <1>2, <2>2 DEF GoTo, Step, Stage, EvaluateOrder
    <2>4. TypeOK'
      BY <1>0, <1>a, <2>2, <2>3, HarnessType DEF TypeOK, files
    <2>5. CommandsKeepOrder'
      BY <2>2, <2>3 DEF CommandsKeepOrder, EvaluateOrder
    <2>6. ~(run'.checks \subseteq {"PASS"})
      BY <2>1, <2>2
    <2>. QED  BY <1>c, <2>2, <2>4, <2>5, <2>6, OffTrackRun, GateInvParts, PTL
  <1>3. CASE /\ run.lock # None /\ run.ended /\ run.lock = PlanLock(run.ids.end)
             /\ run' = [run EXCEPT !.restore = TRUE] /\ GoTo("writeLock")
    <2>1. /\ run' \in Run /\ run'.cmd = "evaluate" /\ run'.phase = run.phase /\ run'.ids = run.ids
          /\ run'.ended = run.ended /\ run'.lock = run.lock /\ run'.checks = run.checks
          /\ run'.tested = run.tested /\ run'.calmRun = run.calmRun /\ run'.calmEnd = run.calmEnd
      BY <1>0, <1>3 DEF Run
    <2>2. pc' = "writeLock" /\ pc' \in Step /\ Stage' = 13
      BY <1>3, <2>1 DEF GoTo, Step, Stage, EvaluateOrder
    <2>3. TypeOK'
      BY <1>0, <1>a, <2>1, <2>2, HarnessType DEF TypeOK, files
    <2>4. RunInv'
      <3>1. CommandsKeepOrder'
        BY <1>0, <1>a, <1>b, <1>3, <2>1, <2>2 DEF RunInv, EvaluateOrder, TypeOK, CommandsKeepOrder
      <3>2. RoundsFound'
        BY <1>0, <1>a, <1>b, <1>3, <2>1, <2>2 DEF RunInv, repoVars, TypeOK, RoundsFound, Found, OnTrack
      <3>3. TrackIsChecked'
        BY <1>0, <1>a, <1>b, <1>3, <2>1, <2>2 DEF RunInv, TypeOK, TrackIsChecked, OnTrack
      <3>4. EndIsCurrent'
        BY <1>0, <1>a, <1>b, <1>3, <2>1, <2>2 DEF RunInv, repoVars, TypeOK, EndIsCurrent, OnTrack
      <3>5. RunIsCurrent'
        BY <1>0, <1>a, <1>b, <1>3, <2>1, <2>2 DEF RunInv, repoVars, TypeOK, RunIsCurrent, OnTrack
      <3>. QED  BY <3>1, <3>2, <3>3, <3>4, <3>5 DEF RunInv
    <2>. QED  BY <1>c, <2>3, <2>4, GateInvParts, PTL
  <1>. QED  BY <1>2, <1>3 DEF DecideRestore

LEMMA GiveUpInv ==
    ASSUME GateInv, WriteFails \/ Killed
    PROVE  GateInv'
  <1>1. PICK state : Finish(state)
    BY DEF WriteFails, Killed
  <1>2. UNCHANGED repoVars /\ UNCHANGED tracked /\ lock' = lock /\ evaluation' = evaluation
    BY DEF WriteFails, Killed, files
  <1>3. EvidenceInv'
    BY <1>2, EvidenceStays, GateInvParts DEF repoVars
  <1>4. /\ lock' \in LockFile \cup {None} /\ evaluation' \in EvaluationFile \cup {None}
        /\ lock' # None => lock'.mergeBase <= lock'.base /\ lock'.base <= tracked
    BY <1>2 DEF GateInv, TypeOK
  <1>. QED  BY <1>1, <1>2, <1>3, <1>4, FinishInv

LEMMA WriteLockInv ==
    ASSUME GateInv, WriteLock
    PROVE  GateInv'
  <1>0. /\ TypeOK /\ RunInv /\ EvidenceInv /\ run \in Run /\ pc = "writeLock" /\ run.phase = "end"
    BY GateInvParts DEF TypeOK, WriteLock, RunInv, CommandsKeepOrder
  <1>a. UNCHANGED repoVars /\ UNCHANGED tracked /\ evaluation' = evaluation
    BY DEF WriteLock
  <1>b. EvidenceInv'
    BY <1>0, <1>a, EvidenceStays DEF repoVars
  <1>1. CASE run.cmd = "prepare"
    <2>1. lock' = PlanLock(run.ids.end) /\ Finish("PASS")
      BY <1>1 DEF WriteLock
    <2>2. Found(run.ids.end, 6) /\ run.ids.end \in Reads
      <3>1. Stage = 7
        BY <1>0, <1>1 DEF Stage, PrepareOrder
      <3>. QED  BY <1>0, <1>1, <3>1 DEF RunInv, RoundsFound, OnTrack, Found, Run
    <2>3. /\ lock' \in LockFile \cup {None}
          /\ lock' # None => lock'.mergeBase <= lock'.base /\ lock'.base <= tracked
      BY <2>1, <2>2, FoundLock
    <2>4. evaluation' \in EvaluationFile \cup {None}
      BY <1>0, <1>a DEF TypeOK
    <2>. QED  BY <1>a, <1>b, <2>1, <2>3, <2>4, FinishInv
  <1>2. CASE run.cmd = "evaluate"
    <2>1. lock' = run.lock /\ run' = run /\ pc' = "writeEvaluation" /\ pc' \in Step
      BY <1>2 DEF WriteLock, GoTo, Step
    <2>2. Stage = 13 /\ Stage' = 14 /\ Dirty' = Dirty /\ ChangedPaths' = ChangedPaths
      BY <1>0, <1>2, <1>a, <2>1 DEF Stage, EvaluateOrder, Dirty, ChangedPaths, Tree, repoVars
    <2>3. TypeOK'
      <3>1. tracked' \in tracked..origin /\ run.lock \in LockFile \cup {None}
        BY <1>0, <1>a DEF TypeOK, Run
      <3>. QED  BY <1>0, <1>a, <2>1, <3>1, HarnessType DEF TypeOK
    <2>4. RunInv'
      <3>1. CommandsKeepOrder'
        BY <1>0, <1>2, <1>a, <2>1, <2>2 DEF RunInv, EvaluateOrder, CommandsKeepOrder
      <3>2. RoundsFound'
        BY <1>0, <1>2, <1>a, <2>1, <2>2 DEF RunInv, repoVars, RoundsFound, Found, OnTrack
      <3>3. TrackIsChecked'
        BY <1>0, <1>2, <1>a, <2>1, <2>2 DEF RunInv, TrackIsChecked, OnTrack
      <3>4. EndIsCurrent'
        BY <1>0, <1>2, <1>a, <2>1, <2>2 DEF RunInv, repoVars, EndIsCurrent, OnTrack
      <3>5. RunIsCurrent'
        BY <1>0, <1>2, <1>a, <2>1, <2>2 DEF RunInv, repoVars, RunIsCurrent, OnTrack
      <3>. QED  BY <3>1, <3>2, <3>3, <3>4, <3>5 DEF RunInv
    <2>. QED  BY <1>b, <2>3, <2>4, GateInvParts, PTL
  <1>. QED  BY <1>0, <1>1, <1>2 DEF Run

\* PASS is written at the end of a run that stayed on track.
LEMMA WriteEvaluationInv ==
    ASSUME GateInv, WriteEvaluation
    PROVE  GateInv'
  <1>0. /\ TypeOK /\ RunInv /\ run \in Run /\ pc = "writeEvaluation" /\ run.cmd = "evaluate"
    BY GateInvParts DEF TypeOK, WriteEvaluation, RunInv, CommandsKeepOrder, PrepareOrder, Run
  <1>1. /\ UNCHANGED repoVars /\ UNCHANGED tracked /\ lock' = lock /\ evaluation' = Evaluation
        /\ Finish(AggregateState(run.checks))
    BY DEF WriteEvaluation
  <1>2. /\ AggregateState(run.checks) \in State
        /\ AggregateState(run.checks) = "PASS" <=> run.checks \subseteq {"PASS"}
    BY <1>0, WorstState DEF Run
  <1>3. /\ evaluation'.state = AggregateState(run.checks) /\ evaluation'.id = run.ids.start
        /\ evaluation'.tested = run.tested /\ evaluation'.calmRun = run.calmRun
        /\ evaluation'.calmEnd = run.calmEnd /\ evaluation' \in EvaluationFile
    BY <1>0, <1>1, <1>2 DEF Evaluation, EvaluationFile, Run
  <1>4. ASSUME Passed' PROVE OnTrack /\ Stage = 14
    BY <1>0, <1>2, <1>3, <1>4 DEF Passed, OnTrack, Stage, EvaluateOrder
  <1>5. ASSUME Passed'
        PROVE  /\ run.phase = "end" /\ Identity(run.ids.start) = Identity(run.ids.end)
               /\ run.ids.start.paths \subseteq Allowed[run.ids.start.plan] /\ run.tested \in Passing
               /\ run.ids.start.head \in DOMAIN commits
    <2>1. run.phase = "end" /\ Identity(run.ids.start) = Identity(run.ids.end)
      BY <1>0, <1>4, <1>5 DEF RunInv, TrackIsChecked, TypeOK
    <2>2. run.ids.start.paths \subseteq Allowed[run.ids.start.plan] /\ run.tested \in Passing
      BY <1>0, <1>4, <1>5, <2>1 DEF RunInv, TrackIsChecked
    <2>3. run.ids.start.head \in DOMAIN commits
      BY <1>0, <1>4, <1>5, <2>1 DEF RunInv, RoundsFound, Found
    <2>. QED  BY <2>1, <2>2, <2>3
  <1>6. Dirty = {} => work.plan = commits[head].plan /\ work.code = commits[head].code
    BY DEF Dirty, Tree
  <1>7. commits' = commits
    BY <1>1 DEF repoVars
  <1>8. EvidenceNamesCommit'
    BY <1>3, <1>5, <1>7 DEF EvidenceNamesCommit
  <1>9. EvidenceDescribesHead'
    <2>. SUFFICES ASSUME Passed', run.calmEnd
                  PROVE  /\ commits[run.ids.start.head].branch = IssueBranch
                         /\ run.ids.start.plan = commits[run.ids.start.head].plan
                         /\ run.ids.start.mergeBase = commits[run.ids.start.head].fork
                         /\ run.ids.start.paths = Touches[commits[run.ids.start.head].code]
                         /\ Touches[commits[run.ids.start.head].code]
                               \subseteq Allowed[commits[run.ids.start.head].plan]
      BY <1>3, <1>7 DEF EvidenceDescribesHead
    <2>1. /\ Dirty = {} /\ run.ids.end.plan = work.plan /\ commits[head].branch = IssueBranch
          /\ run.ids.end.mergeBase = commits[head].fork /\ run.ids.end.head = head
          /\ run.ids.end.paths = ChangedPaths
      BY <1>0, <1>4, <1>5 DEF RunInv, EndIsCurrent
    <2>2. /\ run.ids.start.plan = run.ids.end.plan /\ run.ids.start.mergeBase = run.ids.end.mergeBase
          /\ run.ids.start.head = run.ids.end.head /\ run.ids.start.paths = run.ids.end.paths
      BY <1>5 DEF Identity
    <2>3. ChangedPaths = Touches[commits[head].code]
      BY <1>6, <2>1 DEF ChangedPaths, Tree
    <2>. QED  BY <1>5, <1>6, <2>1, <2>2, <2>3
  <1>10. PassMeansTested'
    <2>1. ASSUME Passed', run.calmRun
          PROVE  /\ run.tested = commits[run.ids.start.head].code
                 /\ Touches[commits[run.ids.start.head].code] \cap Migration = {}
      <3>1. /\ Dirty = {} /\ run.ids.start.head = head /\ run.tested = work.code
            /\ ChangedPaths \cap Migration = {}
        BY <1>0, <1>4, <1>5, <2>1 DEF RunInv, RunIsCurrent
      <3>. QED  BY <1>6, <3>1 DEF ChangedPaths, Tree
    <2>. QED  BY <1>3, <1>5, <1>7, <2>1 DEF PassMeansTested
  <1>11. /\ lock' \in LockFile \cup {None} /\ evaluation' \in EvaluationFile \cup {None}
         /\ lock' # None => lock'.mergeBase <= lock'.base /\ lock'.base <= tracked
    BY <1>0, <1>1, <1>3 DEF TypeOK
  <1>. QED  BY <1>1, <1>8, <1>9, <1>10, <1>11, FinishInv DEF EvidenceInv

-----------------------------------------------------------------------------
(* What others do *)

\* A change of HEAD or worktree only ends the calm; no commit is lost.
LEMMA DisturbInv ==
    ASSUME GateInv, Edit, Disturb, origin' = origin,
           commits' \in Seq(Commit), DOMAIN commits \subseteq DOMAIN commits',
           \A k \in DOMAIN commits : commits'[k] = commits[k],
           head' \in DOMAIN commits', work' \in Content,
           \A k \in DOMAIN commits' : commits'[k].fork <= tracked
    PROVE  GateInv'
  <1>0. /\ TypeOK /\ RunInv /\ EvidenceInv /\ run \in Run
        /\ pc' = pc /\ tracked' = tracked /\ lock' = lock /\ evaluation' = evaluation
    BY GateInvParts DEF TypeOK, Edit, files
  <1>1. EvidenceInv'
    BY <1>0 DEF EvidenceInv, EvidenceNamesCommit, EvidenceDescribesHead, PassMeansTested, Passed
  <1>2. /\ run' \in Run /\ run'.cmd = run.cmd /\ run'.phase = run.phase /\ run'.lock = run.lock
        /\ run'.ended = run.ended /\ run'.ids = run.ids /\ run'.checks = run.checks
        /\ run'.tested = run.tested
        /\ pc # "idle" => ~run'.calmRun /\ ~run'.calmEnd
    <2>1. CASE pc = "idle"
      BY <1>0, <2>1 DEF Disturb
    <2>2. CASE pc # "idle"
      BY <1>0, <2>2 DEF Disturb, Run
    <2>. QED  BY <2>1, <2>2
  <1>3. TypeOK'
    BY <1>0, <1>2 DEF TypeOK
  <1>4. RunInv'
    <2>1. Stage' = Stage
      BY <1>0, <1>2 DEF Stage
    <2>. QED  BY <1>0, <1>2, <2>1 DEF RunInv, CommandsKeepOrder, RoundsFound, Found, OnTrack,
                TrackIsChecked, EndIsCurrent, RunIsCurrent
  <1>. QED  BY <1>1, <1>3, <1>4, GateInvParts, PTL

LEMMA OthersInv ==
    ASSUME GateInv, Others
    PROVE  GateInv'
  <1>0. /\ TypeOK /\ commits \in Seq(Commit) /\ head \in DOMAIN commits /\ work \in Content
        /\ tracked \in Nat /\ \A k \in DOMAIN commits : commits[k].fork <= tracked
    BY DEF GateInv, TypeOK
  <1>a. commits[head] \in Commit
    BY <1>0
  <1>1. ASSUME NEW w \in Content, EditWorktree(w) PROVE GateInv'
    BY <1>0, <1>1, DisturbInv DEF EditWorktree
  <1>2. ASSUME NEW k \in DOMAIN commits, Checkout(k) PROVE GateInv'
    <2>1. commits[k] \in Commit
      BY <1>0
    <2>2. work' \in Content /\ head' = k /\ commits' = commits /\ origin' = origin /\ Edit /\ Disturb
      BY <1>2, <2>1 DEF Checkout, Content, Commit
    <2>. QED  BY <1>0, <2>2, DisturbInv
  <1>3. ASSUME NEW c \in Commit, c.fork <= tracked, commits' = Append(commits, c), head' = Len(commits) + 1,
               UNCHANGED <<work, origin>>, Edit, Disturb
        PROVE  GateInv'
    <2>1. /\ commits' \in Seq(Commit) /\ DOMAIN commits \subseteq DOMAIN commits'
          /\ \A k \in DOMAIN commits : commits'[k] = commits[k]
          /\ head' \in DOMAIN commits'
      BY <1>0, <1>3
    <2>2. \A k \in DOMAIN commits' : commits'[k].fork <= tracked
      BY <1>0, <1>3
    <2>. QED  BY <1>0, <1>3, <2>1, <2>2, DisturbInv
  <1>4. CASE CommitWork
    <2> DEFINE c == [commits[head] EXCEPT !.plan = work.plan, !.code = work.code]
    <2>1. c \in Commit /\ c.fork <= tracked
      BY <1>0, <1>a DEF Commit, Content
    <2>2. commits' = Append(commits, c) /\ head' = Len(commits) + 1 /\ UNCHANGED <<work, origin>> /\ Edit /\ Disturb
      BY <1>4 DEF CommitWork
    <2> HIDE DEF c
    <2>. QED  BY <1>3, <2>1, <2>2
  <1>5. CASE Rebase
    <2> DEFINE c == [commits[head] EXCEPT !.fork = tracked]
    <2>0. c \in Commit /\ c.fork = tracked
      BY <1>0, <1>a DEF Commit
    <2>1. c \in Commit /\ c.fork <= tracked
      BY <1>0, <2>0
    <2>2. commits' = Append(commits, c) /\ head' = Len(commits) + 1 /\ UNCHANGED <<work, origin>> /\ Edit /\ Disturb
      BY <1>5 DEF Rebase
    <2> HIDE DEF c
    <2>. QED  BY <1>3, <2>1, <2>2
  <1>6. CASE MergeToOrigin
    <2>1. /\ UNCHANGED <<commits, head, work, tracked, lock, evaluation, pc, run>>
          /\ origin' = origin + 1
      BY <1>6 DEF MergeToOrigin, Edit, files
    <2>2. TypeOK'
      BY <1>0, <2>1 DEF TypeOK
    <2>3. RunInv' /\ EvidenceInv'
      <3>1. RunInv /\ EvidenceInv
        BY GateInvParts
      <3>2. EvidenceInv'
        BY <2>1, <3>1, EvidenceStays
      <3>. QED  BY <2>1, <3>1, <3>2 DEF RunInv, CommandsKeepOrder, RoundsFound, Found, OnTrack, Stage,
                  TrackIsChecked, EndIsCurrent, RunIsCurrent, Dirty, ChangedPaths, Tree
    <2>. QED  BY <2>2, <2>3, GateInvParts, PTL
  <1>. QED  BY <1>1, <1>2, <1>4, <1>5, <1>6 DEF Others

-----------------------------------------------------------------------------
(* The theorems *)

LEMMA InitInv == Init => GateInv
  <1>. SUFFICES ASSUME Init PROVE GateInv
    OBVIOUS
  <1>1. /\ commits = InitialCommits /\ head = 1 /\ origin = 1 /\ tracked = 1 /\ lock = None
        /\ evaluation = None /\ pc = "idle" /\ run = NewRun("prepare")
        /\ work = [plan |-> commits[head].plan, code |-> commits[head].code]
    BY DEF Init, NoRun, Tree
  <1>2. commits \in Seq(Commit) /\ head \in DOMAIN commits /\ commits[head] \in Commit
    BY <1>1
  <1>3. run \in Run /\ run.ended = FALSE /\ run.lock = None
    BY <1>1, NewRunType DEF NewRun
  <1>4. TypeOK
    BY <1>1, <1>2, <1>3 DEF TypeOK, Content, Commit, Step
  <1>5. RunInv
    BY <1>1 DEF RunInv, CommandsKeepOrder, RoundsFound, TrackIsChecked, EndIsCurrent, RunIsCurrent, OnTrack
  <1>6. EvidenceInv
    BY <1>1 DEF EvidenceInv, EvidenceNamesCommit, EvidenceDescribesHead, PassMeansTested, Passed
  <1>. QED  BY <1>4, <1>5, <1>6, GateInvParts

LEMMA NextInv == GateInv /\ [Next]_vars => GateInv'
  <1>. SUFFICES ASSUME GateInv, [Next]_vars PROVE GateInv'
    OBVIOUS
  <1>1. CASE Harness
    BY <1>1, StartInv, RefusedInv, CheckCleanInv, LoadPlanInv, FetchInv, ReadMergeBaseInv, ReadHeadInv,
       PreflightInv, LoadPlanLockInv, CollectChangedPathsInv, ComputeDiffHashInv, StaticChecksInv,
       RunGradleInv, FinishChecksInv, DecideRestoreInv, WriteLockInv, WriteEvaluationInv, GiveUpInv
       DEF Harness
  <1>2. CASE ReadFails \/ Others
    BY <1>2, ReadFailsInv, OthersInv
  <1>3. CASE UNCHANGED vars
    <2>1. UNCHANGED <<commits, head, work, origin, tracked, lock, evaluation, pc, run>>
      BY <1>3 DEF vars
    <2>2. TypeOK /\ RunInv /\ EvidenceInv
      BY GateInvParts
    <2>3. TypeOK'
      BY <2>1, <2>2 DEF TypeOK
    <2>4. EvidenceInv'
      BY <2>1, <2>2, EvidenceStays
    <2>5. /\ Stage' = Stage /\ OnTrack' = OnTrack /\ Dirty' = Dirty /\ ChangedPaths' = ChangedPaths
      BY <2>1 DEF OnTrack, Stage, Dirty, ChangedPaths, Tree
    <2>6. CommandsKeepOrder' /\ RoundsFound' /\ TrackIsChecked'
      BY <2>1, <2>2, <2>5 DEF RunInv, CommandsKeepOrder, RoundsFound, Found, TrackIsChecked
    <2>7. EndIsCurrent' /\ RunIsCurrent'
      BY <2>1, <2>2, <2>5 DEF RunInv, EndIsCurrent, RunIsCurrent
    <2>. QED  BY <2>2, <2>3, <2>4, <2>6, <2>7, GateInvParts, PTL DEF RunInv
  <1>. QED  BY <1>1, <1>2, <1>3 DEF Next

\* However prepare and evaluate interleave with edits, commits, check-outs,
\* rebases, merges, failing reads and kills, every command keeps its order and
\* a run in which nothing failed has established what PASS will say.
THEOREM GateInvariant == Spec => []GateInv
  BY InitInv, NextInv, PTL DEF Spec

\* PASS evidence is about the commit it names, if the last reads of evaluate
\* (_freshness_check) were not disturbed.
THEOREM EvidenceIsAboutHead == Spec => []EvidenceDescribesHead
  <1>1. GateInv => EvidenceDescribesHead
    BY DEF GateInv
  <1>. QED  BY <1>1, GateInvariant, PTL

\* evaluate gives no PASS without the check commands (run_required_checks), and
\* in an undisturbed run they passed on the commit that the evidence names.
THEOREM PassIsTested == Spec => []PassMeansTested
  <1>1. GateInv => PassMeansTested
    BY DEF GateInv
  <1>. QED  BY <1>1, GateInvariant, PTL

-----------------------------------------------------------------------------
(* prepare and evaluate implement Gate *)

\* evaluate removes the evidence before it begins (remove_stale_evaluation).
EvidenceRemoved == pc # "idle" /\ run.cmd = "evaluate" => evaluation = None
SimInv == GateInv /\ EvidenceRemoved

\* A step that Gate does not see.
Quiet ==
    /\ pc' = "idle" <=> pc = "idle"
    /\ run'.cmd = run.cmd /\ UNCHANGED <<lock, evaluation, result>>
    /\ pc # "idle" => run'.lock = run.lock \/ (run.lock = None /\ run'.lock = lock)

\* A step that ends a command without its file.
Ends(state) == pc # "idle" /\ Finish(state) /\ state # "PASS" /\ UNCHANGED files

LEMMA QuietGate ==
    ASSUME SimInv, Quiet
    PROVE  UNCHANGED (G!gateVars) /\ EvidenceRemoved'
  <1>1. Running' = Running /\ Evidence' = Evidence /\ lock' = lock /\ result' = result
    BY DEF Quiet, Running, Evidence
  <1>2. Taken' = Taken
    BY DEF Quiet, Taken
  <1>3. EvidenceRemoved'
    BY DEF Quiet, EvidenceRemoved, SimInv
  <1>. QED  BY <1>1, <1>2, <1>3 DEF G!gateVars

LEMMA EndsGate ==
    ASSUME SimInv, NEW state \in State \cup {None}, Ends(state)
    PROVE  G!GateNext /\ EvidenceRemoved'
  <1>1. run.cmd \in {"prepare", "evaluate"}
    BY DEF SimInv, GateInv, TypeOK, Run
  <1>2. Running = run.cmd /\ Running # None /\ Running' = None /\ Taken' = None
    BY <1>1 DEF Ends, Finish, Running, Taken
  <1>3. result' = [cmd |-> run.cmd, state |-> state]
    BY DEF Ends, Finish
  <1>4. lock' = lock /\ evaluation' = evaluation /\ Evidence' = Evidence
    BY DEF Ends, files, Evidence
  <1>5. G!GiveUp(state)
    BY <1>2, <1>3, <1>4 DEF G!GiveUp, G!End, Ends
  <1>6. EvidenceRemoved'
    BY DEF EvidenceRemoved, Ends, Finish
  <1>. QED  BY <1>5, <1>6 DEF G!GateNext

LEMMA ViolationSim ==
    ASSUME SimInv, pc # "idle", NEW state \in State \ {"PASS"}, Violation(state), UNCHANGED files
    PROVE  Quiet \/ Ends(state)
  <1>1. CASE run.cmd = "prepare"
    BY <1>1 DEF Violation, Ends
  <1>2. CASE run.cmd # "prepare"
    <2>0. run \in Run
      BY DEF SimInv, GateInv, TypeOK
    <2> DEFINE r == [run EXCEPT !.checks = @ \cup {state}]
    <2>1. r.cmd = run.cmd /\ r.lock = run.lock /\ r \in Run
      BY <2>0 DEF Run
    <2>2. /\ run' = r \/ run' = [r EXCEPT !.phase = "end", !.calmEnd = TRUE]
          /\ pc' \in {"clean", "restore"} /\ result' = result
      BY <1>2 DEF Violation, EnterEnd, GoTo
    <2> HIDE DEF r
    <2>3. run'.cmd = run.cmd /\ run'.lock = run.lock
      BY <2>1, <2>2 DEF Run
    <2>. QED  BY <2>2, <2>3 DEF Quiet, files
  <1>. QED  BY <1>1, <1>2

\* The reads and checks of a command are its own business, or end it.
LEMMA ReadsSim ==
    ASSUME SimInv,
           \/ CheckClean \/ LoadPlan \/ Fetch \/ ReadMergeBase \/ ReadHead \/ Preflight
           \/ LoadPlanLock \/ CollectChangedPaths \/ ComputeDiffHash \/ StaticChecks
           \/ FinishChecks \/ DecideRestore \/ ReadFails
    PROVE  Quiet \/ \E state \in State : Ends(state)
  <1>0. /\ run \in Run /\ run.phase \in {"start", "end"} /\ pc # "idle" /\ UNCHANGED files
        /\ lock' = lock /\ evaluation' = evaluation
    BY DEF SimInv, GateInv, TypeOK, Run, CheckClean, LoadPlan, Fetch, ReadMergeBase, ReadHead, Preflight,
         LoadPlanLock, CollectChangedPaths, ComputeDiffHash, StaticChecks, FinishChecks, DecideRestore,
         ReadFails, files
  <1>1. ASSUME NEW state \in {"FAIL", "BLOCKED", "REPLAN_REQUIRED"}, Violation(state)
        PROVE  Quiet \/ \E st \in State : Ends(st)
    <2>1. state \in State \ {"PASS"} /\ state \in State
      BY DEF State
    <2>. QED  BY <1>0, <1>1, <2>1, ViolationSim
  <1>2. ASSUME NEW step \in Step, GoTo(step), run'.cmd = run.cmd,
               run'.lock = run.lock \/ (run.lock = None /\ run'.lock = lock)
        PROVE  Quiet
    BY <1>0, <1>2 DEF GoTo, Quiet, Step
  <1>3. ASSUME NEW f, NEW v, NEW step \in Step, Read(f, v), GoTo(step) PROVE Quiet
    <2>1. run'.cmd = run.cmd /\ run'.lock = run.lock
      BY <1>0, <1>3 DEF Read, Run
    <2>. QED  BY <1>2, <1>3, <2>1
  <1>4. CASE CheckClean
    <2>1. After("clean") \in Step
      BY DEF After, PrepareAfter, EvaluateAfter, Step
    <2>. QED  BY <1>1, <1>2, <1>4, <2>1 DEF CheckClean
  <1>5. CASE LoadPlan
    <2>1. PlanViolation \in {"FAIL", "BLOCKED", "REPLAN_REQUIRED"} /\ "fetch" \in Step
      BY DEF PlanViolation, Step
    <2>. QED  BY <1>1, <1>3, <1>5, <2>1 DEF LoadPlan
  <1>6. CASE Fetch
    <2>1. "mergeBase" \in Step
      BY DEF Step
    <2>. QED  BY <1>1, <1>3, <1>6, <2>1 DEF Fetch
  <1>7. CASE ReadMergeBase
    <2>1. run'.cmd = run.cmd /\ run'.lock = run.lock /\ GoTo("head") /\ "head" \in Step
      BY <1>0, <1>7 DEF ReadMergeBase, Run, Step
    <2>. QED  BY <1>2, <2>1
  <1>8. CASE ReadHead
    <2>1. After("head") \in Step
      BY DEF After, PrepareAfter, EvaluateAfter, Step
    <2>. QED  BY <1>3, <1>8, <2>1 DEF ReadHead
  <1>9. CASE Preflight
    <2>1. CASE Finish("BLOCKED")
      <3>1. Ends("BLOCKED") /\ "BLOCKED" \in State
        BY <1>0, <2>1 DEF Ends, State
      <3>. QED  BY <3>1
    <2>2. CASE run' = EnterEnd(run) /\ GoTo("plan")
      <3>1. run'.cmd = run.cmd /\ run'.lock = run.lock /\ "plan" \in Step
        BY <1>0, <2>2 DEF EnterEnd, Run, Step
      <3>. QED  BY <1>2, <2>2, <3>1
    <2>. QED  BY <1>9, <2>1, <2>2 DEF Preflight
  <1>10. CASE LoadPlanLock
    <2>1. run.lock = None
      <3>1. /\ run.cmd = "evaluate" /\ run.phase = "start"
        BY <1>0, <1>10 DEF SimInv, GateInv, CommandsKeepOrder, LoadPlanLock, PrepareOrder, Run
      <3>2. Stage = 6 /\ pc = "lock"
        BY <1>10, <3>1 DEF LoadPlanLock, Stage, EvaluateOrder
      <3>3. OnTrack
        BY <1>0, <3>1, <3>2 DEF SimInv, GateInv, CommandsKeepOrder, OnTrack
      <3>. QED  BY <3>1, <3>2, <3>3 DEF SimInv, GateInv, TrackIsChecked
    <2>2. CASE run' = [run EXCEPT !.lock = lock] /\ GoTo("paths")
      <3>1. run'.cmd = run.cmd /\ run'.lock = lock /\ "paths" \in Step
        BY <1>0, <2>2 DEF Run, Step
      <3>. QED  BY <1>2, <2>1, <2>2, <3>1
    <2>3. CASE run' = [run EXCEPT !.lock = lock, !.checks = @ \cup {"REPLAN_REQUIRED"}] /\ GoTo("restore")
      <3>1. run'.cmd = run.cmd /\ run'.lock = lock /\ "restore" \in Step
        BY <1>0, <2>3 DEF Run, Step
      <3>. QED  BY <1>2, <2>1, <2>3, <3>1
    <2>. QED  BY <1>1, <1>10, <2>2, <2>3 DEF LoadPlanLock
  <1>11. CASE CollectChangedPaths
    <2>1. "hash" \in Step
      BY DEF Step
    <2>. QED  BY <1>3, <1>11, <2>1 DEF CollectChangedPaths
  <1>12. CASE ComputeDiffHash
    <2>1. \E step \in Step : GoTo(step)
      BY <1>12 DEF ComputeDiffHash, Step
    <2>2. run'.cmd = run.cmd /\ run'.lock = run.lock
      BY <1>0, <1>12 DEF ComputeDiffHash, Read, Run
    <2>. QED  BY <1>2, <2>1, <2>2
  <1>13. CASE StaticChecks
    <2>1. "gradle" \in Step
      BY DEF Step
    <2>. QED  BY <1>1, <1>2, <1>13, <2>1 DEF StaticChecks
  <1>14. CASE FinishChecks
    <2>1. run'.cmd = run.cmd /\ run'.lock = run.lock /\ GoTo("clean") /\ "clean" \in Step
      BY <1>0, <1>14 DEF FinishChecks, EnterEnd, Run, Step
    <2>. QED  BY <1>2, <2>1
  <1>15. CASE DecideRestore
    <2>1. \E step \in Step : GoTo(step)
      BY <1>15 DEF DecideRestore, Step
    <2>2. run'.cmd = run.cmd /\ run'.lock = run.lock
      BY <1>0, <1>15 DEF DecideRestore, Run
    <2>. QED  BY <1>2, <2>1, <2>2
  <1>16. CASE ReadFails
    BY <1>1, <1>16 DEF ReadFails
  <1>. QED  BY <1>4, <1>5, <1>6, <1>7, <1>8, <1>9, <1>10, <1>11, <1>12, <1>13, <1>14, <1>15, <1>16

LEMMA OthersSim == ASSUME SimInv, Others PROVE Quiet
  <1>1. run \in Run
    BY DEF SimInv, GateInv, TypeOK
  <1>2. UNCHANGED <<pc, files, result>> /\ (Disturb \/ UNCHANGED run)
    BY DEF Others, Edit, EditWorktree, Checkout, CommitWork, Rebase, MergeToOrigin
  <1>3. run'.cmd = run.cmd /\ run'.lock = run.lock
    <2>1. CASE Disturb
      BY <1>1, <2>1 DEF Disturb, Run
    <2>2. CASE UNCHANGED run
      BY <2>2
    <2>. QED  BY <1>2, <2>1, <2>2
  <1>. QED  BY <1>2, <1>3 DEF Quiet, files

LEMMA StartSim ==
    ASSUME SimInv, StartPrepare \/ StartEvaluate \/ PrepareRefused \/ EvaluateRefused
    PROVE  G!GateNext /\ EvidenceRemoved'
  <1>0. Running = None /\ Taken = None /\ pc = "idle"
    BY DEF StartPrepare, StartEvaluate, PrepareRefused, EvaluateRefused, Refused, Running, Taken
  <1>1. CASE StartPrepare
    <2>1. /\ pc' = "plan" /\ run'.cmd = "prepare" /\ lock' = None /\ evaluation' = evaluation /\ result' = result
      BY <1>1 DEF StartPrepare, NewRun
    <2>2. Running' = "prepare" /\ Taken' = None /\ Evidence' = Evidence
      BY <2>1 DEF Running, Taken, Evidence
    <2>3. G!BeginPrepare
      BY <1>0, <2>1, <2>2 DEF G!BeginPrepare
    <2>4. EvidenceRemoved'
      BY <2>1 DEF EvidenceRemoved
    <2>. QED  BY <2>3, <2>4 DEF G!GateNext
  <1>2. CASE StartEvaluate
    <2>1. /\ pc' = "clean" /\ run'.cmd = "evaluate" /\ run'.lock = None /\ lock' = lock
          /\ evaluation' = None /\ result' = result
      BY <1>2 DEF StartEvaluate, NewRun
    <2>2. Running' = "evaluate" /\ Taken' = lock /\ Evidence' = None
      BY <2>1 DEF Running, Taken, Evidence
    <2>3. G!BeginEvaluate
      BY <1>0, <2>1, <2>2 DEF G!BeginEvaluate
    <2>4. EvidenceRemoved'
      BY <2>1 DEF EvidenceRemoved
    <2>. QED  BY <2>3, <2>4 DEF G!GateNext
  <1>3. ASSUME NEW cmd \in {"prepare", "evaluate"}, Refused(cmd)
        PROVE  G!GateNext /\ EvidenceRemoved'
    <2>1. /\ UNCHANGED <<lock, evaluation, pc, run>>
          /\ \E state \in {"FAIL", "BLOCKED"} : result' = [cmd |-> cmd, state |-> state]
      BY <1>3 DEF Refused, files
    <2>2. Running' = Running /\ Taken' = Taken /\ Evidence' = Evidence
      BY <2>1 DEF Running, Taken, Evidence
    <2>3. G!Refuse(cmd)
      BY <1>0, <2>1, <2>2 DEF G!Refuse
    <2>4. EvidenceRemoved'
      BY <1>0, <2>1 DEF EvidenceRemoved
    <2>. QED  BY <2>3, <2>4 DEF G!GateNext
  <1>. QED  BY <1>1, <1>2, <1>3 DEF PrepareRefused, EvaluateRefused

\* "gradlew clean" loses the lock that the run has taken.
LEMMA RunGradleSim ==
    ASSUME SimInv, RunGradle
    PROVE  [G!GateNext]_(G!gateVars) /\ EvidenceRemoved'
  <1>0. /\ run \in Run /\ pc = "gradle" /\ run.cmd = "evaluate" /\ run.phase = "start" /\ evaluation = None
    BY DEF SimInv, EvidenceRemoved, GateInv, TypeOK, RunGradle, CommandsKeepOrder, PrepareOrder, Run
  <1>1. run.lock # None /\ run.ids.start \in Reads
    <2>1. Stage = 10 /\ OnTrack
      <3>1. Stage = 10
        BY <1>0 DEF Stage, EvaluateOrder
      <3>. QED  BY <1>0, <3>1 DEF SimInv, GateInv, CommandsKeepOrder, OnTrack
    <2>2. Found(run.ids.start, 6) /\ run.lock = PlanLock(run.ids.start)
      BY <1>0, <2>1 DEF SimInv, GateInv, RoundsFound, TrackIsChecked, Found
    <2>. QED  BY <1>0, <2>2, FoundLock DEF Run
  <1>2. /\ run'.cmd = run.cmd /\ run'.lock = run.lock /\ pc' = "checks" /\ result' = result
        /\ lock' \in {None, lock} /\ evaluation' = None
    BY <1>0 DEF RunGradle, GoTo, files, Run
  <1>3. Running' = Running /\ Running = "evaluate" /\ Taken' = Taken /\ Evidence' = Evidence
    BY <1>0, <1>1, <1>2 DEF Running, Taken, Evidence
  <1>4. CASE lock' = None
    <2>1. G!LoseOrRestore
      BY <1>2, <1>3, <1>4 DEF G!LoseOrRestore
    <2>. QED  BY <1>2, <2>1 DEF G!GateNext, EvidenceRemoved
  <1>5. CASE lock' = lock
    BY <1>2, <1>3, <1>5 DEF G!gateVars, EvidenceRemoved
  <1>. QED  BY <1>2, <1>4, <1>5

LEMMA WriteLockSim ==
    ASSUME SimInv, WriteLock
    PROVE  G!GateNext /\ EvidenceRemoved'
  <1>0. /\ run \in Run /\ pc = "writeLock" /\ run.phase = "end" /\ evaluation' = evaluation
        /\ run.cmd = "evaluate" => run.lock # None
    BY DEF SimInv, GateInv, TypeOK, WriteLock, CommandsKeepOrder
  <1>1. CASE run.cmd = "prepare"
    <2>1. Found(run.ids.end, 6) /\ run.ids.end \in Reads
      <3>1. Stage = 7
        BY <1>0, <1>1 DEF Stage, PrepareOrder
      <3>. QED  BY <1>0, <1>1, <3>1 DEF SimInv, GateInv, RoundsFound, OnTrack, Found, Run
    <2>2. lock' \in LockFile
      BY <1>1, <2>1, FoundLock DEF WriteLock
    <2>3. pc' = "idle" /\ result' = [cmd |-> "prepare", state |-> "PASS"]
      BY <1>1 DEF WriteLock, Finish
    <2>4. Running = "prepare" /\ Running' = None /\ Taken' = None /\ Evidence' = Evidence
      BY <1>0, <1>1, <2>3 DEF Running, Taken, Evidence
    <2>5. G!Prepared
      BY <2>2, <2>3, <2>4 DEF G!Prepared, G!End
    <2>. QED  BY <2>3, <2>5 DEF G!GateNext, EvidenceRemoved
  <1>2. CASE run.cmd = "evaluate"
    <2>1. lock' = run.lock /\ run' = run /\ pc' = "writeEvaluation" /\ result' = result
      BY <1>2 DEF WriteLock, GoTo
    <2>2. Running = "evaluate" /\ Running' = Running /\ Taken = run.lock /\ Taken' = Taken /\ Evidence' = Evidence
      BY <1>0, <1>2, <2>1 DEF Running, Taken, Evidence
    <2>3. G!LoseOrRestore
      BY <2>1, <2>2 DEF G!LoseOrRestore
    <2>4. EvidenceRemoved'
      BY <1>0, <1>2, <2>1 DEF SimInv, EvidenceRemoved
    <2>. QED  BY <2>3, <2>4 DEF G!GateNext
  <1>. QED  BY <1>0, <1>1, <1>2 DEF Run

LEMMA WriteEvaluationSim ==
    ASSUME SimInv, WriteEvaluation
    PROVE  G!GateNext /\ EvidenceRemoved'
  <1> DEFINE s == AggregateState(run.checks)
  <1>0. /\ run \in Run /\ pc = "writeEvaluation" /\ run.cmd = "evaluate"
    BY DEF SimInv, GateInv, TypeOK, WriteEvaluation, CommandsKeepOrder, PrepareOrder, Run
  <1>1. s \in State /\ (s = "PASS" <=> run.checks \subseteq {"PASS"})
    BY <1>0, WorstState DEF Run
  <1>2. /\ lock' = lock /\ evaluation' = Evaluation /\ pc' = "idle"
        /\ result' = [cmd |-> "evaluate", state |-> s]
    BY <1>0 DEF WriteEvaluation, Finish
  <1>3. /\ evaluation'.state = s /\ evaluation'.id = run.ids.start /\ evaluation' \in EvaluationFile
    BY <1>0, <1>1, <1>2 DEF Evaluation, EvaluationFile, Run
  <1>4. Evidence' = [state |-> s, lock |-> IF s = "PASS" THEN PlanLock(run.ids.start) ELSE None]
    BY <1>3 DEF Evidence, PlanLock
  <1>5. ASSUME s = "PASS"
        PROVE  PlanLock(run.ids.start) \in LockFile /\ lock = PlanLock(run.ids.start) /\ lock # None
    <2>1. OnTrack /\ Stage = 14
      BY <1>0, <1>1, <1>5 DEF OnTrack, Stage, EvaluateOrder
    <2>2. run.phase = "end"
      BY <1>0, <2>1 DEF SimInv, GateInv, TrackIsChecked, TypeOK
    <2>3. Found(run.ids.start, 6) /\ run.lock = PlanLock(run.ids.start) /\ lock = run.lock
      BY <1>0, <2>1, <2>2 DEF SimInv, GateInv, RoundsFound, TrackIsChecked
    <2>. QED  BY <1>0, <2>3, FoundLock DEF Run
  <1>6. Running = "evaluate" /\ Running' = None /\ Taken' = None
    BY <1>0, <1>2 DEF Running, Taken
  <1> HIDE DEF s
  <1>7. Evidence' \in [state : {s}, lock : LockFile \cup {None}]
    BY <1>4, <1>5
  <1>8. s = "PASS" => lock # None /\ Evidence'.lock = lock
    BY <1>4, <1>5
  <1>9. G!Conclude(s)
    BY <1>2, <1>6, <1>7, <1>8 DEF G!Conclude, G!End
  <1>. QED  BY <1>1, <1>2, <1>9 DEF G!GateNext, EvidenceRemoved

LEMMA GiveUpSim ==
    ASSUME SimInv, WriteFails \/ Killed
    PROVE  \E state \in State \cup {None} : Ends(state)
  <1>1. CASE Killed
    <2>1. Ends(None)
      BY <1>1 DEF Killed, Ends, State
    <2>. QED  BY <2>1
  <1>2. CASE WriteFails
    <2> DEFINE checks == run.checks \cup {"FAIL"}
    <2>1. checks \in SUBSET State /\ "FAIL" \in checks
      BY DEF SimInv, GateInv, TypeOK, Run, State
    <2>2. Finish(AggregateState(checks)) /\ UNCHANGED files /\ pc # "idle"
      BY <1>2 DEF WriteFails
    <2> HIDE DEF checks
    <2>3. AggregateState(checks) \in State /\ AggregateState(checks) # "PASS"
      <3>1. ~(checks \subseteq {"PASS"})
        BY <2>1
      <3>. QED  BY <2>1, <3>1, WorstState
    <2>. QED  BY <2>2, <2>3 DEF Ends
  <1>. QED  BY <1>1, <1>2

\* prepare and evaluate implement Gate: evidence is written as the last act of
\* the evaluate it describes and never outlives the next one, the exit state is
\* the one in the file, and a PASS leaves the very lock it was checked against
\* (remove_stale_plan_lock, remove_stale_evaluation, write_json_atomic).
THEOREM ImplementsGate == Spec => GateRefinement
  <1>1. Init => G!GateInit /\ EvidenceRemoved
    BY DEF Init, G!GateInit, Running, Taken, Evidence, EvidenceRemoved
  <1>2. SimInv /\ [Next]_vars => [G!GateNext]_(G!gateVars) /\ EvidenceRemoved'
    <2> SUFFICES ASSUME SimInv, [Next]_vars
                 PROVE  [G!GateNext]_(G!gateVars) /\ EvidenceRemoved'
      OBVIOUS
    <2>1. ASSUME Quiet \/ \E state \in State \cup {None} : Ends(state)
          PROVE  [G!GateNext]_(G!gateVars) /\ EvidenceRemoved'
      BY <2>1, QuietGate, EndsGate
    <2>2. CASE StartPrepare \/ StartEvaluate \/ PrepareRefused \/ EvaluateRefused
      BY <2>2, StartSim
    <2>3. CASE \/ CheckClean \/ LoadPlan \/ Fetch \/ ReadMergeBase \/ ReadHead \/ Preflight
               \/ LoadPlanLock \/ CollectChangedPaths \/ ComputeDiffHash \/ StaticChecks
               \/ FinishChecks \/ DecideRestore \/ ReadFails
      BY <2>1, <2>3, ReadsSim
    <2>4. CASE RunGradle \/ WriteLock \/ WriteEvaluation
      BY <2>4, RunGradleSim, WriteLockSim, WriteEvaluationSim
    <2>5. CASE WriteFails \/ Killed
      BY <2>1, <2>5, GiveUpSim
    <2>6. CASE Others
      BY <2>1, <2>6, OthersSim
    <2>7. CASE UNCHANGED vars
      <3>1. Quiet
        BY <2>7 DEF vars, Quiet
      <3>. QED  BY <2>1, <3>1
    <2>. QED  BY <2>2, <2>3, <2>4, <2>5, <2>6, <2>7 DEF Next, Harness
  <1>. QED  BY <1>1, <1>2, GateInvariant, PTL DEF Spec, SimInv, GateRefinement, G!GateSpec
=============================================================================
