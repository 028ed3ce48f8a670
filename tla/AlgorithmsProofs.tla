-------------------------- MODULE AlgorithmsProofs --------------------------
(***************************************************************************)
(* The pure algorithms against their reference definitions: the gate's     *)
(* rules, the parsers and the two rankings, for every input.  The theorems *)
(* on all inputs come first; from them follow the invariants of            *)
(* MCAlgorithms, which say the same of the inputs TLC enumerates.          *)
(***************************************************************************)
EXTENDS MCAlgorithms, RankingProofs, SequenceTheorems, WellFoundedInduction

-----------------------------------------------------------------------------
(* Popular menus *)

\* The rows behind the counts are counted as many times as the counts say.
LEMMA RowsAreCounted ==
    ASSUME NEW M, NEW counts \in [M -> Nat], NEW m \in M
    PROVE  CountInWindow(RowsOf(counts), m, 0, 1) = counts[m]
  <1> DEFINE c == counts[m]
             row(n, k) == [menu |-> n, at |-> 0, n |-> k]
             own == {r \in RowsOf(counts) : r.menu = m /\ 0 <= r.at /\ r.at < 1}
             f == [k \in 1..c |-> row(m, k)]
  <1>1. c \in Nat
    OBVIOUS
  <1>2. RowsOf(counts) = UNION {{row(n, k) : k \in 1..counts[n]} : n \in M}
    BY DEF RowsOf
  <1>3. \A r : r \in RowsOf(counts) <=> \E n \in M : \E k \in 1..counts[n] : r = row(n, k)
    BY <1>2
  <1>4. \A r : r \in own <=> \E k \in 1..c : r = row(m, k)
    <2>1. ASSUME NEW r \in own PROVE \E k \in 1..c : r = row(m, k)
      <3>1. PICK n \in M : \E k \in 1..counts[n] : r = row(n, k)
        BY <1>3
      <3>2. n = m
        BY <3>1
      <3>. QED  BY <3>1, <3>2
    <2>2. ASSUME NEW k \in 1..c PROVE row(m, k) \in own
      BY <1>3
    <2>. QED  BY <2>1, <2>2
  <1>5. f \in Bijection(1..c, own)
    <2> HIDE DEF own
    <2>1. f \in [1..c -> own] /\ \A k \in 1..c : f[k] = row(m, k)
      BY <1>4
    <2>2. \A a, b \in 1..c : f[a] = f[b] => a = b
      OBVIOUS
    <2>3. \A r \in own : \E k \in 1..c : f[k] = r
      BY <1>4, <2>1
    <2> HIDE DEF f, c
    <2>. QED  BY <2>1, <2>2, <2>3 DEF Bijection, Injection, Surjection, IsInjective
  <1> HIDE DEF own, f, c
  <1>6. IsFiniteSet(1..c) /\ Cardinality(1..c) = c
    BY <1>1, FS_Interval
  <1>7. Cardinality(own) = c
    BY <1>5, <1>6, FS_Bijection DEF ExistsBijection
  <1>. QED  BY <1>7 DEF CountInWindow, own, c

\* For any finitely many menus and any counts, the service's list is the best
\* of the menus that were ordered, and the query of the fallback, on rows with
\* these counts, gives the same list (getFromRedis, findPopularMenus).
THEOREM BothRankingsAreRight ==
    ASSUME NEW M \in SUBSET Nat, IsFiniteSet(M), NEW counts \in [M -> Nat]
    PROVE  RanksBoth(counts)
  <1> DEFINE rows == RowsOf(counts)
  <1>1. [m \in M |-> CountInWindow(rows, m, 0, 1)] = counts
    <2>1. \A m \in M : CountInWindow(rows, m, 0, 1) = counts[m]
      BY RowsAreCounted
    <2> HIDE DEF rows
    <2>. QED  BY <2>1
  <1> HIDE DEF rows
  <1>2. FindPopularMenus(rows, M, 0, 1) = PopularFromCounts(counts)
    BY <1>1, DatabaseRanking
  <1>3. IsRanking(PopularFromCounts(counts), counts)
    BY RedisRanking
  <1>. QED  BY <1>2, <1>3 DEF RanksBoth, rows

-----------------------------------------------------------------------------
(* Changed paths against plan and policy *)

\* Whatever changed and whatever the plan and the policy say, evaluate accepts
\* a change set exactly when every path of it fits the plan by itself
\* (scope_violations, classify_risks, validate_risk_declarations,
\* validate_contract_changes).
THEOREM GateJudgesPathwise ==
    ASSUME NEW changed, NEW plan, NEW policy
    PROVE  JudgedPathwise(changed, plan, policy)
  <1> DEFINE paths == changed \ {plan.path}
             rules == policy.rules
             matching(path) == {i \in DOMAIN rules : MatchesAny(rules[i].patterns, path)}
             class == ClassifyRisks(changed, policy, plan.path)
  <1>1. ScopeViolations(changed, plan) = {} <=> \A path \in paths : MatchesAny(plan.allowed, path)
    BY DEF ScopeViolations
  <1>2. class.unclassified = {} <=> \A path \in paths : \E i \in DOMAIN rules : MatchesAny(rules[i].patterns, path)
    BY DEF ClassifyRisks
  <1>3. UndeclaredRisks(plan, class) = {} <=>
          \A path \in paths : \A i \in DOMAIN rules :
             MatchesAny(rules[i].patterns, path) => rules[i].risks \subseteq plan.declaredRisks
    <2>1. class.detected = UNION {UNION {rules[i].risks : i \in matching(path)} : path \in paths}
      BY DEF ClassifyRisks
    <2>2. \A r : r \in class.detected <=> \E path \in paths : \E i \in matching(path) : r \in rules[i].risks
      BY <2>1
    <2> HIDE DEF class
    <2>3. UndeclaredRisks(plan, class) = {} <=> \A r : r \in class.detected => r \in plan.declaredRisks
      BY DEF UndeclaredRisks
    <2>. QED  BY <2>2, <2>3
  <1>4. UndeclaredContracts(changed, plan, policy) = {} <=>
          \A path \in paths : MatchesAny(policy.protected, path) => path \in plan.contractChanges
    BY DEF UndeclaredContracts
  <1>. QED  BY <1>1, <1>2, <1>3, <1>4 DEF GateAccepts, JudgedPathwise, Fits

\* Whatever changed and whatever the plan declares, the checks of every risk of
\* every changed path are requested, and harness.unit and gradle.test always
\* are (required_check_ids).
THEOREM RisksBringChecks ==
    ASSUME NEW changed, NEW plan, NEW policy
    PROVE  RisksAreChecked(changed, plan, policy)
  <1> DEFINE class == ClassifyRisks(changed, policy, plan.path)
             requested == RequestedBy(changed, plan, policy)
  <1>1. \A c : c \in requested <=>
            \/ c \in {HarnessUnit, GradleTest}
            \/ c \notin Inline /\ \E r \in plan.declaredRisks \cup class.detected : c \in policy.riskChecks[r]
    <2> DEFINE risks == plan.declaredRisks \cup class.detected
               lists == {policy.riskChecks[r] : r \in risks}
    <2>1. requested = ((UNION lists) \ Inline) \cup {HarnessUnit, GradleTest}
      BY DEF RequestedBy, RequiredCheckIds
    <2>2. \A c : c \in UNION lists <=> \E r \in risks : c \in policy.riskChecks[r]
      <3> HIDE DEF risks
      <3>. QED  OBVIOUS
    <2> HIDE DEF requested, lists, risks
    <2>3. \A c : c \in requested <=>
             c \in {HarnessUnit, GradleTest} \/ (c \notin Inline /\ c \in UNION lists)
      BY <2>1
    <2>. QED  BY <2>2, <2>3 DEF risks
  <1>2. ASSUME NEW path \in changed \ {plan.path}, NEW i \in DOMAIN policy.rules,
               MatchesAny(policy.rules[i].patterns, path), NEW r \in policy.rules[i].risks
        PROVE  r \in class.detected
    BY <1>2 DEF ClassifyRisks
  <1> HIDE DEF class, requested
  <1>3. ASSUME NEW path \in changed \ {plan.path}, NEW i \in DOMAIN policy.rules,
               MatchesAny(policy.rules[i].patterns, path), NEW r \in policy.rules[i].risks
        PROVE  policy.riskChecks[r] \subseteq requested \cup Inline
    BY <1>1, <1>2, <1>3
  <1>4. {HarnessUnit, GradleTest} \subseteq requested
    BY <1>1
  <1>. QED  BY <1>3, <1>4 DEF RisksAreChecked, requested

-----------------------------------------------------------------------------
(* Results of the checks *)

\* The worst state is PASS exactly when every state is (aggregate_state).
LEMMA AggregatePass ==
    ASSUME NEW checks, \A i \in DOMAIN checks : checks[i].state \in State
    PROVE  Aggregate(checks) = "PASS" <=> \A i \in DOMAIN checks : checks[i].state = "PASS"
  <1> DEFINE states == {checks[i].state : i \in DOMAIN checks} \cup {"PASS"}
             Worst(s) == \A r \in states : Severity[r] <= Severity[s]
  <1>0. states \subseteq State /\ "PASS" \in states
    BY DEF State
  <1>a. Aggregate(checks) = CHOOSE s \in states : Worst(s)
    BY DEF Aggregate
  <1>b. (\A i \in DOMAIN checks : checks[i].state = "PASS") <=> states = {"PASS"}
    OBVIOUS
  <1> HIDE DEF states
  <1>1. \E s \in states : Worst(s)
    <2>1. CASE "REPLAN_REQUIRED" \in states
      <3>1. Worst("REPLAN_REQUIRED")
        BY <1>0 DEF State, Severity
      <3>. QED  BY <2>1, <3>1
    <2>2. CASE "REPLAN_REQUIRED" \notin states /\ "FAIL" \in states
      <3>1. Worst("FAIL")
        BY <1>0, <2>2 DEF State, Severity
      <3>. QED  BY <2>2, <3>1
    <2>3. CASE "REPLAN_REQUIRED" \notin states /\ "FAIL" \notin states /\ "BLOCKED" \in states
      <3>1. Worst("BLOCKED")
        BY <1>0, <2>3 DEF State, Severity
      <3>. QED  BY <2>3, <3>1
    <2>4. CASE "REPLAN_REQUIRED" \notin states /\ "FAIL" \notin states /\ "BLOCKED" \notin states
      <3>1. Worst("PASS")
        BY <1>0, <2>4 DEF State, Severity
      <3>. QED  BY <1>0, <3>1
    <2>. QED  BY <2>1, <2>2, <2>3, <2>4
  <1>2. Aggregate(checks) \in states /\ Worst(Aggregate(checks))
    BY <1>a, <1>1
  <1>3. states = {"PASS"} => Aggregate(checks) = "PASS"
    BY <1>2
  <1>4. ASSUME NEW r \in states, r # "PASS" PROVE Aggregate(checks) # "PASS"
    <2>1. r \in State
      BY <1>0
    <2>. QED  BY <1>2, <1>4, <2>1 DEF State, Severity
  <1>. QED  BY <1>b, <1>0, <1>3, <1>4

\* A runner's list is PASS exactly when it is complete and all its results are
\* PASS.
LEMMA RunnerPass ==
    ASSUME NEW Id, NEW results \in Seq([id : Id, state : State]), NEW requested
    PROVE  RunnerVerdict(results, requested) = "PASS" <=>
             /\ RunnerResultsValid(results, requested)
             /\ \A i \in DOMAIN results : results[i].state = "PASS"
  <1> DEFINE failed == <<[id |-> "checks.runner", state |-> "FAIL"]>>
             n == Len(results)
  <1>1. n \in Nat /\ DOMAIN results = 1..n /\ \A i \in 1..n : results[i] \in [id : Id, state : State]
    BY SeqElements
  <1>2. \A i \in 1..n : results[i].state \in State
    BY <1>1
  <1>3. CASE RunnerResultsValid(results, requested)
    <2>1. results \o <<>> = results
      BY Zenon, ConcatEmptySeq
    <2>2. RunnerVerdict(results, requested) = Aggregate(results)
      BY <1>3, <2>1 DEF RunnerVerdict
    <2>. QED  BY <1>1, <1>2, <1>3, <2>2, AggregatePass
  <1>4. CASE ~RunnerResultsValid(results, requested)
    <2> DEFINE all == results \o failed
    <2>1. RunnerVerdict(results, requested) = Aggregate(all)
      BY <1>4 DEF RunnerVerdict
    <2>2. DOMAIN all = 1..(n + 1) /\ all[n + 1] = failed[1] /\ \A i \in 1..n : all[i] = results[i]
      BY <1>1
    <2>3. all[n + 1].state = "FAIL" /\ \A i \in 1..(n + 1) : all[i].state \in State
      <3>1. all[n + 1].state = "FAIL"
        BY <2>2
      <3>2. ASSUME NEW i \in 1..(n + 1), i # n + 1 PROVE all[i].state \in State
        <4>1. i \in 1..n
          BY <1>1, <3>2
        <4>. QED  BY <1>2, <2>2, <4>1
      <3>. QED  BY <3>1, <3>2 DEF State
    <2> HIDE DEF all, failed
    <2>4. Aggregate(all) # "PASS"
      BY <1>1, <2>2, <2>3, AggregatePass
    <2>. QED  BY <1>4, <2>1, <2>4
  <1>. QED  BY <1>3, <1>4

\* Whatever list of results a check runner hands over, for whatever was
\* requested: it is PASS only with one passing result for each requested check
\* and each environment check, and no other (validate_check_runner_results).
THEOREM PassesAreComplete ==
    ASSUME NEW Id, NEW results \in Seq([id : Id, state : State]), NEW requested
    PROVE  PassIsComplete(results, requested)
  <1> SUFFICES ASSUME RunnerVerdict(results, requested) = "PASS"
               PROVE  /\ Len(results) = Cardinality(NeededIds(requested))
                      /\ \A id \in NeededIds(requested) :
                           \E i \in DOMAIN results : results[i] = [id |-> id, state |-> "PASS"]
    BY DEF PassIsComplete
  <1> DEFINE ids == {results[i].id : i \in DOMAIN results}
  <1>1. RunnerResultsValid(results, requested) /\ \A i \in DOMAIN results : results[i].state = "PASS"
    BY RunnerPass
  <1>2. Cardinality(ids) = Len(results) /\ ids = NeededIds(requested)
    BY <1>1 DEF RunnerResultsValid
  <1>3. ASSUME NEW id \in NeededIds(requested)
        PROVE  \E i \in DOMAIN results : results[i] = [id |-> id, state |-> "PASS"]
    <2>1. PICK i \in DOMAIN results : results[i].id = id
      BY <1>2
    <2>2. results[i] \in [id : Id, state : State] /\ results[i].state = "PASS"
      BY <1>1, SeqElements
    <2>. QED  BY <2>1, <2>2
  <1>. QED  BY <1>2, <1>3

\* The list of a finite set holds each of its elements once.
LEMMA SetToSeqFacts ==
    ASSUME NEW S, IsFiniteSet(S)
    PROVE  /\ SetToSeq(S) \in Seq(S) /\ Len(SetToSeq(S)) = Cardinality(S)
           /\ DOMAIN SetToSeq(S) = 1..Cardinality(S) /\ Cardinality(S) \in Nat
           /\ \A e \in S : \E i \in DOMAIN SetToSeq(S) : SetToSeq(S)[i] = e
  <1> DEFINE N == Cardinality(S)
             list == SetToSeq(S)
  <1>1. N \in Nat /\ ExistsBijection(1..N, S)
    BY FS_CardinalityType
  <1>2. \E f \in [1..N -> S] : IsInjective(f)
    BY <1>1 DEF ExistsBijection, Bijection, Injection, IsInjective
  <1>3. list \in [1..N -> S] /\ IsInjective(list)
    BY <1>2 DEF SetToSeq
  <1>4. list \in Surjection(1..N, S)
    <2>1. list \in Injection(1..N, S)
      BY <1>3 DEF Injection
    <2>2. IsFiniteSet(1..N) /\ Cardinality(1..N) = N
      BY <1>1, FS_Interval
    <2> HIDE DEF list
    <2>. QED  BY <2>1, <2>2, FS_Injection
  <1>5. \A e \in S : \E i \in 1..N : list[i] = e
    BY <1>4 DEF Surjection
  <1> HIDE DEF list
  <1>6. list \in Seq(S) /\ Len(list) = N
    <2> HIDE DEF N
    <2>. QED  BY <1>1, <1>3, SeqOfLength
  <1>. QED  BY <1>1, <1>3, <1>5, <1>6 DEF list

\* Whatever is requested and whatever the commands report: the results that
\* run_required_checks makes are complete, and they are PASS only if every
\* command passed, the environment checks included; a check without an
\* implementation is never PASS.
THEOREM RunnersFailClosed ==
    ASSUME NEW requested, IsFiniteSet(requested), GradleTest \in requested,
           requested \cap Preflight = {},
           NEW outcome, \A id \in (requested \cap (Oracles \cup {HarnessUnit, GradleTest})) \cup Preflight :
                           outcome[id] \in State
    PROVE  FailsClosed(requested, outcome)
  <1> DEFINE run(id) ==
                 IF id = HarnessUnit \/ id \in Oracles THEN outcome[id]
                 ELSE IF id = GradleTest
                   THEN IF \A e \in Preflight : outcome[e] = "PASS" THEN outcome[id] ELSE "BLOCKED"
                 ELSE "BLOCKED"
             needed == NeededIds(requested)
             state(id) == IF id \in requested THEN run(id) ELSE outcome[id]
             results == RunRequiredChecks(requested, outcome)
             list == SetToSeq(results)
             Result == [id : needed, state : State]
  <1>1. needed = requested \cup Preflight
    BY DEF NeededIds
  <1>2. \A id \in needed : state(id) \in State
    <2>1. \A id \in requested : run(id) \in State
      BY DEF State
    <2>. QED  BY <1>1, <2>1
  <1>3. results = {[id |-> id, state |-> run(id)] : id \in requested}
                    \cup {[id |-> e, state |-> outcome[e]] : e \in Preflight}
    BY DEF RunRequiredChecks
  <1>4. /\ \A r \in results : r \in Result /\ r.state = state(r.id)
        /\ \A id \in needed : [id |-> id, state |-> state(id)] \in results
    <2>1. ASSUME NEW r \in results PROVE r \in Result /\ r.state = state(r.id)
      BY <1>1, <1>2, <1>3
    <2>2. ASSUME NEW id \in needed PROVE [id |-> id, state |-> state(id)] \in results
      BY <1>1, <1>3
    <2>. QED  BY <2>1, <2>2
  <1> HIDE DEF results, needed
  <1>5. IsFiniteSet(needed)
    BY <1>1, FS_Union, GateRulesAssumption
  <1>6. IsFiniteSet(results) /\ Cardinality(results) = Cardinality(needed)
    <2> DEFINE f == [id \in needed |-> [id |-> id, state |-> state(id)]]
    <2>1. f \in [needed -> results]
      BY <1>4
    <2>2. \A a, b \in needed : f[a] = f[b] => a = b
      OBVIOUS
    <2>3. ASSUME NEW r \in results PROVE \E id \in needed : f[id] = r
      BY <1>4
    <2> HIDE DEF f
    <2>4. f \in Bijection(needed, results)
      BY <2>1, <2>2, <2>3 DEF Bijection, Injection, Surjection, IsInjective
    <2>. QED  BY <1>5, <2>4, FS_Bijection DEF ExistsBijection
  <1>7. /\ list \in Seq(results) /\ Len(list) = Cardinality(results) /\ DOMAIN list = 1..Len(list)
        /\ \A r \in results : \E i \in DOMAIN list : list[i] = r
        /\ \A i \in DOMAIN list : list[i] \in results
    BY <1>6, SetToSeqFacts
  <1> HIDE DEF list, state
  <1>8. {list[i].id : i \in DOMAIN list} = needed
    <2>1. \A i \in DOMAIN list : list[i].id \in needed
      BY <1>4, <1>7
    <2>2. ASSUME NEW id \in needed PROVE \E i \in DOMAIN list : list[i].id = id
      <3>1. PICK i \in DOMAIN list : list[i] = [id |-> id, state |-> state(id)]
        BY <1>4, <1>7
      <3>. QED  BY <3>1
    <2>. QED  BY <2>1, <2>2
  <1>9. RunnerResultsValid(list, requested)
    BY <1>6, <1>7, <1>8 DEF RunnerResultsValid, needed
  <1>10. ASSUME RunnerVerdict(list, requested) = "PASS", NEW id \in needed PROVE state(id) = "PASS"
    <2>1. list \in Seq(Result)
      <3> DEFINE n == Len(list)
      <3>1. n \in Nat /\ list \in [1..n -> results]
        BY <1>7
      <3> HIDE DEF n
      <3>2. list \in [1..n -> Result]
        BY <1>4, <3>1
      <3>. QED  BY <3>1, <3>2, SeqOfLength
    <2>2. \A i \in DOMAIN list : list[i].state = "PASS"
      BY <1>10, <2>1, RunnerPass
    <2>3. PICK i \in DOMAIN list : list[i] = [id |-> id, state |-> state(id)]
      BY <1>4, <1>7
    <2>. QED  BY <2>2, <2>3
  <1>11. ASSUME RunnerVerdict(list, requested) = "PASS", NEW id \in requested
         PROVE  id \in Oracles \cup {HarnessUnit, GradleTest} /\ outcome[id] = "PASS"
    <2>1. state(id) = "PASS"
      BY <1>1, <1>10, <1>11
    <2>. QED  BY <2>1 DEF state
  <1>12. ASSUME RunnerVerdict(list, requested) = "PASS", NEW id \in Preflight
         PROVE  outcome[id] = "PASS"
    <2>1. state(id) = "PASS" /\ id \notin requested
      BY <1>1, <1>10, <1>12
    <2>. QED  BY <2>1 DEF state
  <1>. QED  BY <1>9, <1>11, <1>12 DEF FailsClosed, list, results

-----------------------------------------------------------------------------
(* Recursion along a sequence *)

\* A non-empty set of numbers has a least element.
LEMMA LeastNumber ==
    ASSUME NEW S, S \in SUBSET Nat, S # {}
    PROVE  \E x \in S : \A y \in S : x <= y
  <1>. DEFINE R == {ss \in Nat \X Nat : ss[1] < ss[2]}
  <1>0. OpToRel(<, Nat) = R
    BY Zenon DEF OpToRel
  <1>1. IsWellFoundedOn(R, Nat)
    BY NatLessThanWellFounded, <1>0, Zenon
  <1>2. PICK x \in S : \A y \in S : ~(<<y, x>> \in R)
    BY <1>1, WFMin, Zenon
  <1>3. ASSUME NEW y \in S PROVE x <= y
    <2>1. y \in Nat /\ x \in Nat
      OBVIOUS
    <2>2. <<y, x>> \in R <=> y < x
      BY <2>1, Zenon
    <2>. QED  BY <1>2, <2>1, <2>2, SMT
  <1>. QED  BY <1>3

\* So a set that holds 0 and with each number the next one holds them all.
LEMMA AllNumbers ==
    ASSUME NEW S, 0 \in S, \A n \in Nat : n \in S => n + 1 \in S
    PROVE  \A n \in Nat : n \in S
  <1> SUFFICES ASSUME Nat \ S # {} PROVE FALSE
    OBVIOUS
  <1>1. PICK x \in Nat \ S : \A y \in Nat \ S : x <= y
    <2> DEFINE T == Nat \ S
    <2>1. T \in SUBSET Nat /\ T # {}
      OBVIOUS
    <2> HIDE DEF T
    <2>2. \E x \in T : \A y \in T : x <= y
      BY <2>1, LeastNumber
    <2>. QED  BY <2>2 DEF T
  <1>2. x # 0 /\ x - 1 \in Nat
    BY <1>1
  <1>3. x - 1 \in S
    BY <1>1, <1>2
  <1>. QED  BY <1>1, <1>2, <1>3

\* step takes a value and an element to the next value.
IsStep(step, A, T) == \A p \in A, t \in T : step[<<p, t>>] \in A

\* f gives the value after each element of s, starting with a.
IsFold(f, A, step, a, s) ==
    /\ f \in [0..Len(s) -> A]
    /\ f[0] = a
    /\ \A k \in 1..Len(s) : f[k] = step[<<f[k - 1], s[k]>>]

\* Every sequence can be folded.
LEMMA FoldExists ==
    ASSUME NEW A, NEW T, NEW step, IsStep(step, A, T), NEW a \in A, NEW s \in Seq(T)
    PROVE  \E f : IsFold(f, A, step, a, s)
  <1> DEFINE N == Len(s)
             Folds(n, f) == f[0] = a /\ \A k \in 1..n : f[k] = step[<<f[k - 1], s[k]>>]
             S == {n \in Nat : n <= N => \E f \in [0..n -> A] : Folds(n, f)}
  <1>0. N \in Nat /\ \A k \in 1..N : s[k] \in T
    OBVIOUS
  <1> HIDE DEF N
  <1>1. 0 \in S
    <2>1. [k \in 0..0 |-> a] \in [0..0 -> A] /\ Folds(0, [k \in 0..0 |-> a])
      OBVIOUS
    <2>. QED  BY <2>1
  <1>2. ASSUME NEW n \in Nat, n \in S PROVE n + 1 \in S
    <2> SUFFICES ASSUME n + 1 <= N PROVE \E f \in [0..(n + 1) -> A] : Folds(n + 1, f)
      OBVIOUS
    <2>1. PICK f \in [0..n -> A] : Folds(n, f)
      BY <1>0, <1>2
    <2> DEFINE g == [k \in 0..(n + 1) |-> IF k = n + 1 THEN step[<<f[n], s[n + 1]>>] ELSE f[k]]
    <2>2. s[n + 1] \in T /\ f[n] \in A
      BY <1>0
    <2>3. step[<<f[n], s[n + 1]>>] \in A
      BY <2>2 DEF IsStep
    <2>4. g \in [0..(n + 1) -> A]
      BY <2>3
    <2>5. g[0] = a /\ g[n + 1] = step[<<g[n], s[n + 1]>>]
      <3>1. g[0] = f[0] /\ g[n] = f[n]
        OBVIOUS
      <3>2. g[n + 1] = step[<<f[n], s[n + 1]>>]
        OBVIOUS
      <3> HIDE DEF g
      <3>. QED  BY <2>1, <3>1, <3>2
    <2>6. ASSUME NEW k \in 1..n PROVE g[k] = step[<<g[k - 1], s[k]>>]
      <3>1. g[k] = f[k] /\ g[k - 1] = f[k - 1]
        OBVIOUS
      <3> HIDE DEF g
      <3>. QED  BY <2>1, <3>1
    <2> HIDE DEF g
    <2>7. Folds(n + 1, g)
      <3>1. \A k \in 1..(n + 1) : k \in 1..n \/ k = n + 1
        OBVIOUS
      <3>2. (n + 1) - 1 = n
        OBVIOUS
      <3>. QED  BY <2>5, <2>6, <3>1, <3>2
    <2>. QED  BY <2>4, <2>7
  <1>3. N \in S
    <2> HIDE DEF S
    <2>. QED  BY <1>0, <1>1, <1>2, AllNumbers
  <1>. QED  BY <1>0, <1>3 DEF N, IsFold

\* What recurs along s by step is its fold.
LEMMA RecursionFolds ==
    ASSUME NEW A, NEW T, NEW step, IsStep(step, A, T), NEW a \in A, NEW s \in Seq(T),
           NEW at, at = [k \in 0..Len(s) |-> at[k]], at[0] = a,
           \A k \in 1..Len(s) : at[k - 1] \in A => at[k] = step[<<at[k - 1], s[k]>>]
    PROVE  IsFold(at, A, step, a, s)
  <1> DEFINE N == Len(s)
             S == {n \in Nat : n <= N => at[n] \in A}
  <1>1. N \in Nat /\ \A k \in 1..N : s[k] \in T
    OBVIOUS
  <1> HIDE DEF N
  <1>2. 0 \in S
    OBVIOUS
  <1>3. ASSUME NEW n \in Nat, n \in S PROVE n + 1 \in S
    <2> SUFFICES ASSUME n + 1 <= N PROVE at[n + 1] \in A
      OBVIOUS
    <2>1. n + 1 \in 1..N /\ (n + 1) - 1 = n /\ at[n] \in A /\ s[n + 1] \in T
      BY <1>1, <1>3
    <2>2. at[n + 1] = step[<<at[n], s[n + 1]>>]
      BY <2>1 DEF N
    <2>. QED  BY <2>1, <2>2 DEF IsStep
  <1>4. \A n \in 0..N : at[n] \in A
    <2>1. \A n \in Nat : n \in S
      <3> HIDE DEF S
      <3>. QED  BY <1>2, <1>3, AllNumbers
    <2>2. ASSUME NEW n \in 0..N PROVE at[n] \in A
      <3>1. n \in Nat /\ n <= N
        BY <1>1
      <3>. QED  BY <2>1, <3>1, Zenon
    <2>. QED  BY <2>2
  <1>5. \A k \in 1..N : at[k] = step[<<at[k - 1], s[k]>>]
    <2>1. \A k \in 1..N : k - 1 \in 0..N
      BY <1>1
    <2>. QED  BY <1>4, <2>1, Zenon DEF N
  <1>6. at \in [0..N -> A]
    <2>1. at = [k \in 0..N |-> at[k]]
      BY Zenon DEF N
    <2>. QED  BY <1>4, <2>1, Zenon
  <1>. QED  BY <1>5, <1>6, Zenon DEF IsFold, N

\* One element more is one step more.
LEMMA FoldAppend ==
    ASSUME NEW A, NEW T, NEW step, NEW a \in A, NEW s \in Seq(T), NEW t \in T,
           NEW f, IsFold(f, A, step, a, s),
           NEW g, IsFold(g, A, step, a, Append(s, t))
    PROVE  g[Len(Append(s, t))] = step[<<f[Len(s)], t>>]
  <1> DEFINE N == Len(s)
             all == Append(s, t)
             S == {n \in Nat : n <= N => f[n] = g[n]}
  <1>1. N \in Nat /\ Len(all) = N + 1 /\ all[N + 1] = t /\ \A k \in 1..N : all[k] = s[k]
    OBVIOUS
  <1>2. f[0] = a /\ \A k \in 1..N : f[k] = step[<<f[k - 1], s[k]>>]
    BY DEF IsFold
  <1> HIDE DEF N, all
  <1>3. g[0] = a /\ \A k \in 1..(N + 1) : g[k] = step[<<g[k - 1], all[k]>>]
    BY <1>1 DEF IsFold, all
  <1>4. 0 \in S
    BY <1>2, <1>3
  <1>5. ASSUME NEW n \in Nat, n \in S PROVE n + 1 \in S
    <2> SUFFICES ASSUME n + 1 <= N PROVE f[n + 1] = g[n + 1]
      OBVIOUS
    <2>1. /\ n + 1 \in 1..N /\ n + 1 \in 1..(N + 1) /\ (n + 1) - 1 = n
          /\ f[n] = g[n] /\ all[n + 1] = s[n + 1]
      BY <1>1, <1>5
    <2>. QED  BY <1>2, <1>3, <2>1
  <1>6. f[N] = g[N]
    <2>1. \A n \in Nat : n \in S
      <3> HIDE DEF S
      <3>. QED  BY <1>4, <1>5, AllNumbers
    <2>. QED  BY <1>1, <2>1
  <1>7. g[N + 1] = step[<<g[N], t>>]
    <2>1. N + 1 \in 1..(N + 1) /\ (N + 1) - 1 = N
      BY <1>1
    <2>. QED  BY <1>1, <1>3, <2>1
  <1>. QED  BY <1>1, <1>6, <1>7 DEF N, all

-----------------------------------------------------------------------------
(* Paths in normal form *)

LEMMA FrontType ==
    ASSUME NEW S, NEW s \in Seq(S), s # <<>>
    PROVE  /\ Front(s) \in Seq(S) /\ Len(Front(s)) = Len(s) - 1
           /\ \A k \in 1..(Len(s) - 1) : Front(s)[k] = s[k]
  <1> DEFINE n == Len(s)
  <1>1. n \in Nat /\ n # 0
    OBVIOUS
  <1>2. Front(s) = SubSeq(s, 1, n - 1)
    BY DEF Front
  <1>3. SubSeq(s, 1, n - 1) \in Seq(S) /\ Len(SubSeq(s, 1, n - 1)) = n - 1
        /\ \A k \in 1..(n - 1) : SubSeq(s, 1, n - 1)[k] = s[k]
    <2>1. \A k \in 1..(n - 1) : k \in 1..n /\ s[k] \in S
      BY <1>1
    <2>2. SubSeq(s, 1, n - 1) = [k \in 1..(n - 1) |-> s[k]]
      BY <1>1
    <2> HIDE DEF n
    <2>3. [k \in 1..(n - 1) |-> s[k]] \in Seq(S) /\ Len([k \in 1..(n - 1) |-> s[k]]) = n - 1
      BY <1>1, <2>1
    <2>. QED  BY <2>2, <2>3
  <1>. QED  BY <1>2, <1>3

\* The places that Path.resolve goes through are a fold of the segments.
LEMMA NormalFolds ==
    ASSUME NEW Segment, NEW segments \in Seq(Segment)
    PROVE  LET step == [x \in Seq(Segment) \X Segment |-> Enter(x[1], x[2])]
           IN  \E at : /\ IsFold(at, Seq(Segment), step, <<>>, segments)
                       /\ Normal(segments) = at[Len(segments)]
  <1> DEFINE N == Len(segments)
             Unfolds(f) == f = [k \in 0..N |-> IF k = 0 THEN <<>> ELSE Enter(f[k - 1], segments[k])]
             at == CHOOSE f : Unfolds(f)
             step == [x \in Seq(Segment) \X Segment |-> Enter(x[1], x[2])]
             A == Seq(Segment)
             empty == <<>>
  <1>0. Normal(segments) = at[N]
    BY DEF Normal
  <1>1. N \in Nat /\ DOMAIN segments = 1..N /\ \A k \in 1..N : segments[k] \in Segment
    BY SeqElements
  <1>2. ASSUME NEW place \in A, NEW s \in Segment PROVE Enter(place, s) \in A
    BY FrontType, AppendProperties DEF Enter
  <1>3. \A p \in A, s \in Segment : step[<<p, s>>] = Enter(p, s)
    OBVIOUS
  <1>4. empty \in A
    OBVIOUS
  <1> HIDE DEF step, A, empty
  <1>5. IsStep(step, A, Segment)
    BY <1>2, <1>3 DEF IsStep
  <1>6. PICK f : IsFold(f, A, step, empty, segments)
    BY <1>4, <1>5, FoldExists, Zenon
  <1>7. Unfolds(f)
    <2>1. /\ f \in [0..N -> A] /\ f[0] = empty
          /\ \A k \in 1..N : f[k] = step[<<f[k - 1], segments[k]>>]
      BY <1>6 DEF IsFold
    <2> HIDE DEF N
    <2>2. ASSUME NEW k \in 1..N PROVE f[k] = Enter(f[k - 1], segments[k])
      <3>1. k - 1 \in 0..N /\ f[k - 1] \in A /\ segments[k] \in Segment
        BY <1>1, <2>1
      <3>. QED  BY <1>3, <2>1, <3>1
    <2>. QED  BY <1>1, <2>1, <2>2 DEF empty
  <1>8. Unfolds(at)
    BY <1>7, Zenon
  <1> HIDE DEF at
  <1>9. IsFold(at, A, step, empty, segments)
    <2>1. at = [k \in 0..N |-> at[k]] /\ at[0] = empty
      <3> HIDE DEF N
      <3>. QED  BY <1>1, <1>8 DEF empty
    <2>2. ASSUME NEW k \in 1..N, at[k - 1] \in A PROVE at[k] = step[<<at[k - 1], segments[k]>>]
      <3> HIDE DEF N
      <3>1. k \in 0..N /\ k # 0 /\ segments[k] \in Segment
        BY <1>1
      <3>2. at[k] = Enter(at[k - 1], segments[k])
        BY <1>8, <3>1
      <3>. QED  BY <1>3, <2>2, <3>1, <3>2
    <2>. QED  BY <1>4, <1>5, <2>1, <2>2, RecursionFolds, Zenon
  <1>. QED  BY <1>0, <1>9, Zenon DEF A, empty, step

\* Path.resolve enters a path segment by segment.
LEMMA NormalAppend ==
    ASSUME NEW Segment, NEW segments \in Seq(Segment), NEW s \in Segment
    PROVE  /\ Normal(segments) \in Seq(Segment)
           /\ Normal(Append(segments, s)) = Enter(Normal(segments), s)
  <1> DEFINE step == [x \in Seq(Segment) \X Segment |-> Enter(x[1], x[2])]
             A == Seq(Segment)
             empty == <<>>
             all == Append(segments, s)
  <1>0. empty \in A /\ all \in Seq(Segment) /\ Len(segments) \in Nat
    OBVIOUS
  <1>1. PICK f : IsFold(f, A, step, empty, segments) /\ Normal(segments) = f[Len(segments)]
    BY NormalFolds, Zenon
  <1>2. PICK g : IsFold(g, A, step, empty, all) /\ Normal(all) = g[Len(all)]
    BY <1>0, NormalFolds, Zenon
  <1>3. \A p \in A, t \in Segment : step[<<p, t>>] = Enter(p, t)
    OBVIOUS
  <1> HIDE DEF step, A, empty
  <1>4. g[Len(all)] = step[<<f[Len(segments)], s>>]
    BY <1>0, <1>1, <1>2, FoldAppend
  <1>5. f[Len(segments)] \in A
    BY <1>0, <1>1 DEF IsFold
  <1>. QED  BY <1>1, <1>2, <1>3, <1>4, <1>5 DEF A

LEMMA FrontOfAppend ==
    ASSUME NEW S, NEW s \in Seq(S), NEW e \in S
    PROVE  Front(Append(s, e)) = s /\ Last(Append(s, e)) = e
  <1> DEFINE n == Len(s)
             all == Append(s, e)
  <1>1. n \in Nat /\ Len(all) = n + 1 /\ all[n + 1] = e /\ all \in Seq(S)
        /\ s \in Seq(S) /\ \A k \in 1..n : all[k] = s[k] /\ s[k] \in S
    OBVIOUS
  <1>2. Front(all) = SubSeq(all, 1, n) /\ Last(all) = e
    BY <1>1 DEF Front, Last
  <1> HIDE DEF all
  <1>3. SubSeq(all, 1, n) \in Seq(S) /\ Len(SubSeq(all, 1, n)) = n /\ \A k \in 1..n : SubSeq(all, 1, n)[k] = s[k]
    <2> HIDE DEF n
    <2>. QED  BY <1>1, SubSeqProperties
  <1>4. SubSeq(all, 1, n) = s
    BY <1>1, <1>3
  <1>. QED  BY <1>2, <1>4 DEF all

LEMMA NormalOfEmpty == Normal(<<>>) = <<>>
  <1> DEFINE step == [x \in Seq({}) \X {} |-> Enter(x[1], x[2])]
  <1>1. <<>> \in Seq({}) /\ Len(<<>>) = 0
    OBVIOUS
  <1>2. PICK f : IsFold(f, Seq({}), step, <<>>, <<>>) /\ Normal(<<>>) = f[Len(<<>>)]
    BY <1>1, NormalFolds, Zenon
  <1>. QED  BY <1>1, <1>2 DEF IsFold

\* The first n + 1 elements of a sequence.
LEMMA SubSeqNext ==
    ASSUME NEW T, NEW s \in Seq(T), NEW n \in Nat, n + 1 <= Len(s)
    PROVE  /\ SubSeq(s, 1, n) \in Seq(T) /\ s[n + 1] \in T
           /\ SubSeq(s, 1, n + 1) = Append(SubSeq(s, 1, n), s[n + 1])
  <1> DEFINE N == Len(s)
             short == SubSeq(s, 1, n)
             long == SubSeq(s, 1, n + 1)
             more == Append(short, s[n + 1])
  <1>1. N \in Nat /\ n + 1 <= N /\ \A k \in 1..N : s[k] \in T
    OBVIOUS
  <1> HIDE DEF N
  <1>2. short \in Seq(T) /\ Len(short) = n /\ \A k \in 1..n : short[k] = s[k]
    BY <1>1, SubSeqProperties
  <1>3. long \in Seq(T) /\ Len(long) = n + 1 /\ \A k \in 1..(n + 1) : long[k] = s[k]
    BY <1>1, SubSeqProperties
  <1> HIDE DEF short, long
  <1>4. more \in Seq(T) /\ Len(more) = n + 1 /\ \A k \in 1..(n + 1) : more[k] = long[k]
    BY <1>1, <1>2, <1>3
  <1> HIDE DEF more
  <1>5. long = more
    BY <1>3, <1>4
  <1>. QED  BY <1>1, <1>2, <1>5 DEF short, long, more

\* A segment that names something.
Names(s) == s \notin {"", ".", ".."}

LEMMA EnterName ==
    ASSUME NEW place, NEW s, Names(s)
    PROVE  Enter(place, s) = Append(place, s)
  BY Zenon DEF Enter, Names

\* A path without empty segment, "." and ".." is its own normal form.
LEMMA NormalOfPlain ==
    ASSUME NEW Segment, NEW segments \in Seq(Segment),
           \A i \in DOMAIN segments : Names(segments[i])
    PROVE  Normal(segments) = segments
  <1> DEFINE N == Len(segments)
             start(n) == SubSeq(segments, 1, n)
             S == {n \in Nat : n <= N => Normal(start(n)) = start(n)}
  <1>1. N \in Nat /\ DOMAIN segments = 1..N /\ \A k \in 1..N : segments[k] \in Segment
    BY SeqElements
  <1>2. start(0) = <<>> /\ start(N) = segments
    BY <1>1, SubSeqEmpty, SubSeqFull
  <1>3. ASSUME NEW n \in Nat, n + 1 <= N
        PROVE  start(n) \in Seq(Segment) /\ start(n + 1) = Append(start(n), segments[n + 1])
    BY <1>3, SubSeqNext
  <1> HIDE DEF N, start
  <1>4. 0 \in S
    BY <1>2, NormalOfEmpty
  <1>5. ASSUME NEW n \in Nat, n \in S PROVE n + 1 \in S
    <2> SUFFICES ASSUME n + 1 <= N PROVE Normal(start(n + 1)) = start(n + 1)
      OBVIOUS
    <2> DEFINE s == segments[n + 1]
    <2>1. n + 1 \in 1..N /\ s \in Segment /\ Names(s)
      BY <1>1
    <2>2. Normal(start(n)) = start(n)
      BY <1>1, <1>5
    <2> HIDE DEF s
    <2>3. Normal(Append(start(n), s)) = Enter(start(n), s)
      BY <1>3, <2>1, <2>2, NormalAppend DEF s
    <2>4. Enter(start(n), s) = Append(start(n), s)
      BY <2>1, EnterName
    <2>. QED  BY <1>3, <2>3, <2>4 DEF s
  <1>6. N \in S
    <2> HIDE DEF S
    <2>. QED  BY <1>1, <1>4, <1>5, AllNumbers
  <1>. QED  BY <1>1, <1>2, <1>6

-----------------------------------------------------------------------------
(* Plans *)

LEMMA FirstOfNone ==
    ASSUME NEW v, FirstOf(v) = <<>>
    PROVE  \A i \in DOMAIN v : ~v[i][1]
  <1> DEFINE applies == {i \in DOMAIN v : v[i][1]}
             pair == <<v[Min(applies)][2], v[Min(applies)][3]>>
  <1>1. pair # <<>>
    OBVIOUS
  <1>2. FirstOf(v) = IF applies = {} THEN <<>> ELSE pair
    BY Zenon DEF FirstOf
  <1>3. applies = {}
    BY <1>1, <1>2, Zenon
  <1>. QED  BY <1>3, Zenon

LEMMA NoneOfConcat ==
    ASSUME NEW S, NEW a \in Seq(S), NEW b \in Seq(S), \A i \in DOMAIN (a \o b) : ~(a \o b)[i][1]
    PROVE  (\A i \in DOMAIN a : ~a[i][1]) /\ \A i \in DOMAIN b : ~b[i][1]
  <1> DEFINE m == Len(a)
             n == Len(b)
             all == a \o b
  <1>1. m \in Nat /\ n \in Nat /\ DOMAIN a = 1..m /\ DOMAIN b = 1..n /\ DOMAIN all = 1..(m + n)
        /\ (\A i \in 1..m : all[i] = a[i]) /\ \A i \in 1..n : all[m + i] = b[i]
    OBVIOUS
  <1>2. \A i \in DOMAIN all : ~all[i][1]
    OBVIOUS
  <1> HIDE DEF m, n, all
  <1>3. ASSUME NEW i \in DOMAIN a PROVE ~a[i][1]
    <2>1. i \in DOMAIN all /\ all[i] = a[i]
      BY <1>1
    <2>. QED  BY <1>2, <2>1, Zenon
  <1>4. ASSUME NEW i \in DOMAIN b PROVE ~b[i][1]
    <2>1. m + i \in DOMAIN all /\ all[m + i] = b[i]
      BY <1>1
    <2>. QED  BY <1>2, <2>1, Zenon
  <1>. QED  BY <1>3, <1>4

\* Tuples are sequences over any set that holds their elements.
LEMMA TuplesAreSequences ==
    ASSUME NEW S, NEW a \in S, NEW b \in S, NEW c \in S, NEW d \in S, NEW e \in S, NEW f \in S, NEW g \in S
    PROVE  <<a, b, c, d, e, f>> \in Seq(S) /\ <<a, b, c, d, e, f, g>> \in Seq(S)
  OBVIOUS

\* A plan that parse_plan accepts has passed each of its checks.
LEMMA AcceptedPlan ==
    ASSUME NEW doc, NEW path, NEW known, NEW Text, doc.allowed \in Seq(Text),
           ParsePlan(doc, path, known) = <<>>
    PROVE  /\ ~(doc.issue < 1) /\ doc.target = "main" /\ PlanPathMatches(path, doc.issue)
           /\ StringArrayOk(doc.allowed, TRUE)
           /\ \A i \in DOMAIN doc.allowed :
                 doc.allowed[i] \notin Forbidden /\ ~(doc.allowed[i] # Blank /\ ~PatternOk(doc.allowed[i]))
           /\ Range(doc.risks) \subseteq known
           /\ \A i \in DOMAIN doc.contracts : ContractChangeOk(doc.contracts[i])
  <1> DEFINE a1 == <<~doc.fields, "FAIL", "plan.schema">>
             a2 == <<doc.issue < 1, "FAIL", "plan.schema">>
             a3 == <<doc.target = Blank, "FAIL", "plan.schema">>
             a4 == <<doc.target # "main", "REPLAN_REQUIRED", "plan.target">>
             a5 == <<~PlanPathMatches(path, doc.issue), "FAIL", "plan.path">>
             a6 == <<doc.objective = Blank, "FAIL", "plan.schema">>
             a7 == <<~StringArrayOk(doc.allowed, TRUE), "FAIL", "plan.schema">>
             b1 == <<~StringArrayOk(doc.criteria, TRUE), "FAIL", "plan.schema">>
             b2 == <<~StringArrayOk(doc.risks, FALSE), "FAIL", "plan.schema">>
             b3 == <<~(Range(doc.risks) \subseteq known), "FAIL", "plan.schema">>
             b4 == <<~StringArrayOk(doc.contracts, FALSE), "FAIL", "plan.schema">>
             b5 == <<\E i \in DOMAIN doc.contracts : ~ContractChangeOk(doc.contracts[i]),
                     "REPLAN_REQUIRED", "plan.contract-changes">>
             b6 == <<~StringArrayOk(doc.nonGoals, TRUE), "FAIL", "plan.schema">>
             scope(i) == IF doc.allowed[i] \in Forbidden
                           THEN <<TRUE, "REPLAN_REQUIRED", "plan.scope">>
                           ELSE <<doc.allowed[i] # Blank /\ ~PatternOk(doc.allowed[i]), "FAIL", "plan.schema">>
             first == <<a1, a2, a3, a4, a5, a6, a7>>
             middle == [i \in DOMAIN doc.allowed |-> scope(i)]
             last == <<b1, b2, b3, b4, b5, b6>>
             S == {a1, a2, a3, a4, a5, a6, a7, b1, b2, b3, b4, b5, b6} \cup {scope(i) : i \in DOMAIN doc.allowed}
  <1>1. FirstOf(first \o middle \o last) = <<>>
    BY DEF ParsePlan
  <1> DEFINE c2 == doc.issue < 1
             c4 == doc.target # "main"
             c5 == ~PlanPathMatches(path, doc.issue)
             c7 == ~StringArrayOk(doc.allowed, TRUE)
             c3 == ~(Range(doc.risks) \subseteq known)
             c6 == \E i \in DOMAIN doc.contracts : ~ContractChangeOk(doc.contracts[i])
  <1>2. a2[1] = c2 /\ a4[1] = c4 /\ a5[1] = c5 /\ a7[1] = c7 /\ b3[1] = c3 /\ b5[1] = c6
    OBVIOUS
  <1>3. \A i \in DOMAIN doc.allowed :
           ~scope(i)[1] => doc.allowed[i] \notin Forbidden
                             /\ ~(doc.allowed[i] # Blank /\ ~PatternOk(doc.allowed[i]))
    OBVIOUS
  <1> HIDE DEF a1, a2, a3, a4, a5, a6, a7, b1, b2, b3, b4, b5, b6, scope, c2, c3, c4, c5, c6, c7
  <1>4. first \in Seq(S) /\ middle \in Seq(S) /\ last \in Seq(S)
    <2>1. first \in Seq(S) /\ last \in Seq(S)
      <3>1. a1 \in S /\ a2 \in S /\ a3 \in S /\ a4 \in S /\ a5 \in S /\ a6 \in S /\ a7 \in S
        OBVIOUS
      <3>2. b1 \in S /\ b2 \in S /\ b3 \in S /\ b4 \in S /\ b5 \in S /\ b6 \in S
        OBVIOUS
      <3> HIDE DEF S
      <3>. QED  BY <3>1, <3>2, TuplesAreSequences
    <2>2. middle \in Seq(S)
      <3> DEFINE n == Len(doc.allowed)
      <3>1. n \in Nat /\ DOMAIN doc.allowed = 1..n
        BY SeqElements
      <3>2. \A i \in DOMAIN doc.allowed : scope(i) \in S
        OBVIOUS
      <3> HIDE DEF S, n
      <3>3. middle \in [1..n -> S]
        BY <3>1, <3>2
      <3>. QED  BY <3>1, <3>3, SeqOfLength
    <2>. QED  BY <2>1, <2>2
  <1> HIDE DEF S
  <1>5. \A i \in DOMAIN (first \o middle \o last) : ~(first \o middle \o last)[i][1]
    BY <1>1, FirstOfNone, Zenon
  <1>6. /\ \A i \in DOMAIN first : ~first[i][1]
        /\ \A i \in DOMAIN middle : ~middle[i][1]
        /\ \A i \in DOMAIN last : ~last[i][1]
    <2> HIDE DEF first, middle, last
    <2>1. first \o middle \in Seq(S)
      BY <1>4
    <2>2. (\A i \in DOMAIN (first \o middle) : ~(first \o middle)[i][1]) /\ \A i \in DOMAIN last : ~last[i][1]
      BY <1>4, <1>5, <2>1, NoneOfConcat, Zenon
    <2>. QED  BY <1>4, <2>2, NoneOfConcat, Zenon
  <1>7. /\ 2 \in DOMAIN first /\ 4 \in DOMAIN first /\ 5 \in DOMAIN first /\ 7 \in DOMAIN first
        /\ first[2] = a2 /\ first[4] = a4 /\ first[5] = a5 /\ first[7] = a7
    OBVIOUS
  <1>8. 3 \in DOMAIN last /\ 5 \in DOMAIN last /\ last[3] = b3 /\ last[5] = b5
    OBVIOUS
  <1>9. \A i \in DOMAIN doc.allowed : i \in DOMAIN middle /\ middle[i] = scope(i)
    OBVIOUS
  <1> HIDE DEF first, middle, last
  <1>10. ~c2 /\ ~c4 /\ ~c5 /\ ~c7 /\ ~c3 /\ ~c6
    BY <1>2, <1>6, <1>7, <1>8, Zenon
  <1>11. \A i \in DOMAIN doc.allowed :
            doc.allowed[i] \notin Forbidden /\ ~(doc.allowed[i] # Blank /\ ~PatternOk(doc.allowed[i]))
    BY <1>3, <1>6, <1>9, Zenon
  <1>. QED  BY <1>10, <1>11, Zenon DEF c2, c3, c4, c5, c6, c7

LEMMA ShortTuples ==
    ASSUME NEW S, NEW a \in S, NEW b \in S, NEW c \in S
    PROVE  /\ <<a>> \in Seq(S) /\ Len(<<a>>) = 1
           /\ <<a, b>> \in Seq(S) /\ Len(<<a, b>>) = 2
           /\ <<a, b, c>> \in Seq(S) /\ Len(<<a, b, c>>) = 3
  OBVIOUS

LEMMA ShortSequences ==
    ASSUME NEW S, NEW s \in Seq(S)
    PROVE  /\ Len(s) = 1 => s = <<s[1]>>
           /\ Len(s) = 2 => s = <<s[1], s[2]>>
           /\ Len(s) = 3 => s = <<s[1], s[2], s[3]>>
  OBVIOUS

\* The directories that no plan may claim as a whole.
ForbiddenDirs == {<<"src">>, <<"src", "main">>, <<"src", "main", "java">>, <<"src", "test">>,
                  <<"docs">>, <<"harness">>, <<"scripts">>, <<".github">>}

ForbiddenName == {"src", "main", "java", "test", "docs", "harness", "scripts", ".github", "**"}

\* A file of a forbidden pattern is a file of one of them or of the root, and
\* the directories on the way to it are forbidden as well.
LEMMA ForbiddenFacts ==
    /\ \A f \in Forbidden : Front(f) \in ForbiddenDirs \cup {<<>>}
    /\ \A d \in ForbiddenDirs \cup {<<>>} : /\ d \in Seq(ForbiddenName)
                                         /\ \A k \in 1..Len(d) : Append(SubSeq(d, 1, k), "**") \in Forbidden
  <1>1. ASSUME NEW d \in ForbiddenDirs
        PROVE  d \in Seq(ForbiddenName) /\ \A k \in 1..Len(d) : SubSeq(d, 1, k) \in ForbiddenDirs
    <2> DEFINE start(k) == SubSeq(d, 1, k)
    <2>1. d \in Seq(ForbiddenName) /\ Len(d) \in 1..3
      <3>1. ASSUME NEW a \in ForbiddenName, NEW b \in ForbiddenName, NEW c \in ForbiddenName,
                   d = <<a>> \/ d = <<a, b>> \/ d = <<a, b, c>>
            PROVE  d \in Seq(ForbiddenName) /\ Len(d) \in 1..3
        <4>1. /\ <<a>> \in Seq(ForbiddenName) /\ Len(<<a>>) = 1
              /\ <<a, b>> \in Seq(ForbiddenName) /\ Len(<<a, b>>) = 2
              /\ <<a, b, c>> \in Seq(ForbiddenName) /\ Len(<<a, b, c>>) = 3
          BY ShortTuples
        <4>2. 1 \in 1..3 /\ 2 \in 1..3 /\ 3 \in 1..3
          OBVIOUS
        <4>. QED  BY <3>1, <4>1, <4>2, Zenon
      <3>2. \E a, b, c \in ForbiddenName : d = <<a>> \/ d = <<a, b>> \/ d = <<a, b, c>>
        BY Zenon DEF ForbiddenDirs, ForbiddenName
      <3>. QED  BY <3>1, <3>2
    <2>2. \A k \in 1..Len(d) : /\ start(k) \in Seq(ForbiddenName) /\ Len(start(k)) = k
                               /\ \A i \in 1..k : start(k)[i] = d[i]
      <3> DEFINE n == Len(d)
      <3>1. n \in Nat /\ \A i \in 1..n : d[i] \in ForbiddenName
        BY <2>1
      <3> HIDE DEF n
      <3>2. ASSUME NEW k \in 1..n
            PROVE  start(k) \in Seq(ForbiddenName) /\ Len(start(k)) = k /\ \A i \in 1..k : start(k)[i] = d[i]
        BY <3>1, SubSeqProperties
      <3>. QED  BY <3>2 DEF n
    <2>3. start(Len(d)) = d
      BY <2>1, SubSeqFull
    <2>4. 1 \in 1..Len(d) /\ start(1) = <<d[1]>>
      <3>1. 1 \in 1..Len(d) /\ start(1) \in Seq(ForbiddenName) /\ Len(start(1)) = 1 /\ start(1)[1] = d[1]
        BY <2>1, <2>2
      <3> HIDE DEF start
      <3>. QED  BY <3>1, ShortSequences
    <2>5. <<d[1]>> \in ForbiddenDirs
      <3>1. d[1] \in {"src", "docs", "harness", "scripts", ".github"}
        BY DEF ForbiddenDirs
      <3>. QED  BY <3>1, Zenon DEF ForbiddenDirs
    <2>6. ASSUME Len(d) = 3 PROVE start(2) \in ForbiddenDirs
      <3>1. d[1] = "src" /\ d[2] = "main"
        BY <2>6 DEF ForbiddenDirs
      <3>2. start(2) = <<d[1], d[2]>>
        <4>1. /\ start(2) \in Seq(ForbiddenName) /\ Len(start(2)) = 2
              /\ start(2)[1] = d[1] /\ start(2)[2] = d[2]
          BY <2>2, <2>6
        <4> HIDE DEF start
        <4>. QED  BY <4>1, ShortSequences
      <3>. QED  BY <3>1, <3>2, Zenon DEF ForbiddenDirs
    <2> HIDE DEF start
    <2>7. ASSUME NEW k \in 1..Len(d) PROVE start(k) \in ForbiddenDirs
      <3>1. k = 1 \/ k = Len(d) \/ (k = 2 /\ Len(d) = 3)
        <4> DEFINE n == Len(d)
        <4>1. n \in 1..3 /\ k \in 1..n
          BY <2>1
        <4> HIDE DEF n
        <4>2. k = 1 \/ k = n \/ (k = 2 /\ n = 3)
          BY <4>1
        <4>. QED  BY <4>2 DEF n
      <3>. QED  BY <2>3, <2>4, <2>5, <2>6, <3>1
    <2>. QED  BY <2>1, <2>7 DEF start
  <1>2. ASSUME NEW f \in Forbidden PROVE Front(f) \in ForbiddenDirs \cup {<<>>}
    <2>1. PICK d \in ForbiddenDirs \cup {<<>>} : f = Append(d, "**")
      <3>1. <<"**">> = Append(<<>>, "**")
        OBVIOUS
      <3>. QED  BY <3>1, Zenon DEF Forbidden, ForbiddenDirs
    <2>2. d \in Seq(ForbiddenName) /\ "**" \in ForbiddenName
      <3>0. "**" \in ForbiddenName
        BY DEF ForbiddenName
      <3>1. <<>> \in Seq(ForbiddenName)
        OBVIOUS
      <3>2. d \in ForbiddenDirs => d \in Seq(ForbiddenName)
        BY <1>1
      <3>. QED  BY <2>1, <3>0, <3>1, <3>2, Zenon
    <2>3. Front(f) = d
      BY <2>1, <2>2, FrontOfAppend
    <2>. QED  BY <2>3
  <1>3. \A d \in ForbiddenDirs : Append(d, "**") \in Forbidden
    BY Zenon DEF Forbidden, ForbiddenDirs
  <1>4. <<>> \in Seq(ForbiddenName) /\ \A k \in 1..Len(<<>>) : FALSE
    OBVIOUS
  <1>. QED  BY <1>1, <1>2, <1>3, <1>4

\* A pattern without its last segment.
LEMMA FrontAndLast ==
    ASSUME NEW S, NEW s \in Seq(S), s # <<>>
    PROVE  /\ Front(s) \in Seq(S) /\ Last(s) \in S /\ s = Append(Front(s), Last(s))
           /\ Len(s) > 1 => Front(s) # <<>>
           /\ \A i \in DOMAIN Front(s) : i \in DOMAIN s /\ Front(s)[i] = s[i]
  <1> DEFINE n == Len(s)
             front == Front(s)
             all == Append(front, s[n])
  <1>1. n \in Nat /\ n # 0 /\ s \in Seq(S) /\ DOMAIN s = 1..n /\ \A k \in 1..n : s[k] \in S
    OBVIOUS
  <1>2. front \in Seq(S) /\ Len(front) = n - 1 /\ \A k \in 1..(n - 1) : front[k] = s[k]
    BY FrontType
  <1>3. Last(s) = s[n]
    BY DEF Last
  <1> HIDE DEF front
  <1>4. all \in Seq(S) /\ Len(all) = n /\ \A k \in 1..n : all[k] = s[k]
    <2> DEFINE e == s[n]
    <2>1. e \in S
      BY <1>1
    <2> HIDE DEF e, n
    <2>2. /\ Append(front, e) \in Seq(S) /\ Len(Append(front, e)) = (n - 1) + 1
          /\ \A k \in 1..(n - 1) : Append(front, e)[k] = front[k]
          /\ Append(front, e)[(n - 1) + 1] = e
      BY <1>2, <2>1, AppendProperties
    <2>3. (n - 1) + 1 = n /\ \A k \in 1..n : k \in 1..(n - 1) \/ k = n
      BY <1>1
    <2>. QED  BY <1>2, <2>2, <2>3 DEF e
  <1>5. all = s
    <2> HIDE DEF all
    <2>. QED  BY <1>1, <1>4
  <1>6. n > 1 => front # <<>>
    BY <1>2
  <1>7. DOMAIN front = 1..(n - 1)
    BY <1>1, <1>2
  <1>. QED  BY <1>1, <1>2, <1>3, <1>5, <1>6, <1>7 DEF front

\* A path below a directory is not below one of the directories inside it.
LEMMA PrefixOfFile ==
    ASSUME NEW S, NEW body \in Seq(S), NEW d \in Seq(S), NEW file \in S, body # <<>>,
           IsStrictPrefix(body, Append(d, file))
    PROVE  \E k \in 1..Len(d) : body = SubSeq(d, 1, k)
  <1> DEFINE m == Len(body)
             k == Len(d)
             all == Append(d, file)
  <1>1. m \in Nat /\ m # 0 /\ k \in Nat /\ all \in Seq(S) /\ Len(all) = k + 1 /\ all = d \o <<file>> /\ <<file>> \in Seq(S)
    OBVIOUS
  <1>2. m <= Len(all) /\ SubSeq(body, 1, m) = SubSeq(all, 1, m) /\ body # all
    BY DEF IsStrictPrefix, IsPrefix
  <1>3. body = SubSeq(all, 1, m)
    BY <1>2, SubSeqFull
  <1>4. m # k + 1
    BY <1>1, <1>2, <1>3, SubSeqFull
  <1>5. m \in 1..k /\ 1 \in 1..k
    BY <1>1, <1>2, <1>4
  <1>6. SubSeq(d \o <<file>>, 1, m) = SubSeq(d, 1, m)
    <2> HIDE DEF m
    <2>. QED  BY <1>1, <1>5, SubSeqOfConcat1
  <1>. QED  BY <1>1, <1>3, <1>5, <1>6

\* Whatever pattern parse_plan accepts: it is in normal form, so it stays in
\* the repository, and it covers no file right inside a forbidden directory.
THEOREM AcceptedPatternsAreTame ==
    ASSUME NEW Segment, NEW pattern \in Seq(Segment), pattern # <<>>,
           pattern \notin Forbidden, PatternOk(pattern), NEW file
    PROVE  PatternIsTame(Pattern(pattern), file)
  <1> DEFINE body == Body(pattern)
             p == Pattern(pattern)
             S == Segment \cup ForbiddenName \cup {file}
  <1>1. p.path = body /\ p.below = IsBelow(pattern)
    BY DEF Pattern
  <1>2. body \in Seq(Segment) /\ body # <<>>
    BY FrontAndLast DEF Body, IsBelow
  <1>3. Normal(body) = body
    <2>1. \A i \in DOMAIN body : Names(body[i])
      BY Zenon DEF PatternOk, Names
    <2> HIDE DEF body
    <2>. QED  BY <1>2, <2>1, NormalOfPlain
  <1>4. IsBelow(pattern) => pattern = Append(body, "**")
    BY FrontAndLast DEF Body, IsBelow
  <1> HIDE DEF body, p
  <1>5. ASSUME file \notin Range(body), NEW f \in Forbidden, PathMatches(p, Append(Front(f), file))
        PROVE  FALSE
    <2> DEFINE d == Front(f)
    <2>1. d \in Seq(S) /\ \A k \in 1..Len(d) : Append(SubSeq(d, 1, k), "**") \in Forbidden
      <3>1. d \in Seq(ForbiddenName) /\ \A k \in 1..Len(d) : Append(SubSeq(d, 1, k), "**") \in Forbidden
        BY ForbiddenFacts
      <3> HIDE DEF d
      <3>2. d \in Seq(S)
        BY <3>1
      <3>. QED  BY <3>1, <3>2
    <2> HIDE DEF d
    <2>2. file \in S /\ body \in Seq(S)
      BY <1>2
    <2> HIDE DEF S
    <2>3. Append(d, file) # body
      <3>1. Len(Append(d, file)) \in DOMAIN Append(d, file) /\ Append(d, file)[Len(Append(d, file))] = file
        BY <2>1, <2>2
      <3>. QED  BY <1>5, <3>1 DEF Range
    <2>4. IsBelow(pattern) /\ IsStrictPrefix(body, Append(d, file))
      BY <1>1, <1>5, <2>3 DEF PathMatches, d
    <2>5. \E k \in 1..Len(d) : body = SubSeq(d, 1, k)
      BY <1>2, <2>1, <2>2, <2>4, PrefixOfFile
    <2>. QED  BY <1>4, <2>1, <2>4, <2>5
  <1>. QED  BY <1>1, <1>2, <1>3, <1>5 DEF PatternIsTame, p

\* Whatever plan and branch prepare accepts: evaluate accepts the lock made of
\* them, and the plan is one the rest of the gate can work with (parse_plan,
\* make_plan_lock, load_plan_lock).
THEOREM AcceptedPlansAreUsable ==
    ASSUME NEW Segment, NEW doc, NEW path, NEW known, NEW context, NEW file, NEW others,
           doc.issue \in Int, doc.hash # Blank,
           doc.allowed \in Seq((Seq(Segment) \ {<<>>}) \cup {Blank})
    PROVE  Usable(doc, path, known, context, file, others)
  <1> SUFFICES ASSUME ParsePlan(doc, path, known) = <<>>
               PROVE  /\ LockSurvives(doc, path, context)
                      /\ Range(doc.risks) \subseteq known
                      /\ \A i \in DOMAIN doc.allowed : PatternIsTame(Pattern(doc.allowed[i]), file)
                      /\ \A i \in DOMAIN doc.contracts : \A other \in others :
                            PathMatches(Pattern(doc.contracts[i].path), other) => other = doc.contracts[i].path
    BY DEF Usable
  <1> DEFINE Text == (Seq(Segment) \ {<<>>}) \cup {Blank}
  <1>1. /\ ~(doc.issue < 1) /\ doc.target = "main" /\ PlanPathMatches(path, doc.issue)
        /\ StringArrayOk(doc.allowed, TRUE)
        /\ \A i \in DOMAIN doc.allowed :
              doc.allowed[i] \notin Forbidden /\ ~(doc.allowed[i] # Blank /\ ~PatternOk(doc.allowed[i]))
        /\ Range(doc.risks) \subseteq known
        /\ \A i \in DOMAIN doc.contracts : ContractChangeOk(doc.contracts[i])
    <2> HIDE DEF Text
    <2>1. doc.allowed \in Seq(Text)
      BY DEF Text
    <2>. QED  BY <2>1, AcceptedPlan
  <1>2. LockSurvives(doc, path, context)
    <2>1. doc.issue >= 1
      BY <1>1
    <2>. QED  BY <1>1, <2>1 DEF LockSurvives, LoadPlanLock, MakePlanLock, ContextOk
  <1>3. ASSUME NEW i \in DOMAIN doc.allowed PROVE PatternIsTame(Pattern(doc.allowed[i]), file)
    <2>1. doc.allowed[i] \in Text /\ doc.allowed[i] # Blank
      BY <1>1, SeqElements DEF StringArrayOk
    <2>2. doc.allowed[i] \in Seq(Segment) /\ doc.allowed[i] # <<>>
      BY <2>1
    <2>. QED  BY <1>1, <2>1, <2>2, AcceptedPatternsAreTame
  <1>4. ASSUME NEW i \in DOMAIN doc.contracts, NEW other \in others,
               PathMatches(Pattern(doc.contracts[i].path), other)
        PROVE  other = doc.contracts[i].path
    <2>1. ~IsBelow(doc.contracts[i].path)
      BY <1>1 DEF ContractChangeOk
    <2>. QED  BY <1>4, <2>1 DEF PathMatches, Pattern, Body
  <1>. QED  BY <1>1, <1>2, <1>3, <1>4

-----------------------------------------------------------------------------
(* Risk policy *)

\* What a sequence holds is a finite set.
LEMMA RangeOfSequence ==
    ASSUME NEW T, NEW s \in Seq(T)
    PROVE  IsFiniteSet(Range(s))
  <1> DEFINE N == Len(s)
  <1>1. N \in Nat /\ DOMAIN s = 1..N /\ s \in [1..N -> T]
    BY SeqElements
  <1>2. IsFiniteSet(1..N)
    BY <1>1, FS_Interval
  <1> HIDE DEF N
  <1>3. s \in Surjection(1..N, Range(s))
    BY <1>1 DEF Surjection, Range
  <1>. QED  BY <1>2, <1>3, FS_Surjection

\* The checks that an accepted policy brings are finitely many.
LEMMA RequestedIsFinite ==
    ASSUME NEW T, NEW p, p.knownRisks \in Seq(T), \A r \in DOMAIN p.riskChecks : p.riskChecks[r] \in Seq(T),
           LoadRiskPolicy(p), NEW changed, NEW plan, plan.declaredRisks \subseteq Range(p.knownRisks)
    PROVE  IsFiniteSet(RequestedBy(changed, plan, LoadedPolicy(p)))
  <1> DEFINE policy == LoadedPolicy(p)
             class == ClassifyRisks(changed, policy, plan.path)
             risks == plan.declaredRisks \cup class.detected
             checks == [r \in risks |-> policy.riskChecks[r]]
             lists == {policy.riskChecks[r] : r \in risks}
  <1>1. \A i \in DOMAIN p.rules : Range(p.rules[i].risks) \subseteq Range(p.knownRisks)
    BY DEF LoadRiskPolicy
  <1>2. DOMAIN p.riskChecks = Range(p.knownRisks)
    BY DEF LoadRiskPolicy, RiskChecksOk
  <1>3. DOMAIN policy.rules = DOMAIN p.rules /\ \A i \in DOMAIN p.rules : policy.rules[i].risks = Range(p.rules[i].risks)
    BY DEF LoadedPolicy
  <1>4. \A r \in DOMAIN p.riskChecks : policy.riskChecks[r] = Range(p.riskChecks[r])
    BY DEF LoadedPolicy
  <1> HIDE DEF policy
  <1>5. \A r \in class.detected : \E i \in DOMAIN policy.rules : r \in policy.rules[i].risks
    BY DEF ClassifyRisks
  <1> HIDE DEF class
  <1>6. risks \subseteq Range(p.knownRisks)
    BY <1>1, <1>3, <1>5
  <1>7. IsFiniteSet(risks)
    BY <1>6, RangeOfSequence, FS_Subset
  <1>8. \A r \in risks : IsFiniteSet(policy.riskChecks[r])
    BY <1>2, <1>4, <1>6, RangeOfSequence
  <1>9. RequestedBy(changed, plan, policy) = ((UNION lists) \ Inline) \cup {HarnessUnit, GradleTest}
    BY DEF RequestedBy, RequiredCheckIds, class
  <1> HIDE DEF risks
  <1>10. checks \in Surjection(risks, lists)
    BY DEF Surjection
  <1>11. IsFiniteSet(lists)
    <2> HIDE DEF checks, lists
    <2>. QED  BY <1>7, <1>10, FS_Surjection
  <1>12. \A c \in lists : IsFiniteSet(c)
    BY <1>8
  <1> HIDE DEF lists
  <1>13. IsFiniteSet((UNION lists) \ Inline)
    BY <1>11, <1>12, FS_UNION, FS_Subset
  <1>14. IsFiniteSet({HarnessUnit, GradleTest})
    <2>1. IsFiniteSet({HarnessUnit}) /\ IsFiniteSet({GradleTest})
      BY FS_Singleton, Zenon
    <2>2. {HarnessUnit} \cup {GradleTest} = {HarnessUnit, GradleTest}
      OBVIOUS
    <2>3. IsFiniteSet({HarnessUnit} \cup {GradleTest})
      BY <2>1, FS_Union, Zenon
    <2>. QED  BY <2>2, <2>3
  <1>15. IsFiniteSet(((UNION lists) \ Inline) \cup {HarnessUnit, GradleTest})
    BY <1>13, <1>14, FS_Union, Zenon
  <1>. QED  BY <1>9, <1>15 DEF policy

\* Every command of a run that is PASS has passed.  A policy may name an
\* environment check or an unknown one for a risk: both are BLOCKED.
LEMMA PassedRun ==
    ASSUME NEW requested, IsFiniteSet(requested),
           NEW outcome, \A id \in Oracles \cup {HarnessUnit, GradleTest} \cup Preflight : outcome[id] \in State,
           RunnerVerdict(SetToSeq(RunRequiredChecks(requested, outcome)), requested) = "PASS"
    PROVE  \A id \in requested : outcome[id] = "PASS"
  <1> DEFINE run(id) ==
                 IF id = HarnessUnit \/ id \in Oracles THEN outcome[id]
                 ELSE IF id = GradleTest
                   THEN IF \A e \in Preflight : outcome[e] = "PASS" THEN outcome[id] ELSE "BLOCKED"
                 ELSE "BLOCKED"
             results == RunRequiredChecks(requested, outcome)
             list == SetToSeq(results)
             one(id) == [id |-> id, state |-> run(id)]
             asked == {one(id) : id \in requested}
             environment == IF GradleTest \in requested
                              THEN {[id |-> e, state |-> outcome[e]] : e \in Preflight} ELSE {}
             Result == [id : requested \cup Preflight, state : State]
  <1>1. results = asked \cup environment
    BY DEF RunRequiredChecks
  <1>2. IsFiniteSet(asked)
    <2> DEFINE f == [id \in requested |-> one(id)]
    <2>1. f \in Surjection(requested, asked)
      BY DEF Surjection
    <2> HIDE DEF f, asked
    <2>. QED  BY <2>1, FS_Surjection
  <1>3. IsFiniteSet(environment)
    <2> DEFINE states == {[id |-> e, state |-> outcome[e]] : e \in Preflight}
               f == [e \in Preflight |-> [id |-> e, state |-> outcome[e]]]
    <2>1. f \in Surjection(Preflight, states)
      BY DEF Surjection
    <2> HIDE DEF f, states
    <2>2. IsFiniteSet(states)
      BY <2>1, FS_Surjection, GateRulesAssumption
    <2>. QED  BY <2>2, FS_EmptySet DEF states
  <1>4. results \subseteq Result
    <2>1. \A id \in requested : run(id) \in State
      BY DEF State
    <2>. QED  BY <1>1, <2>1
  <1> HIDE DEF asked, environment
  <1>5. IsFiniteSet(results)
    BY <1>1, <1>2, <1>3, FS_Union
  <1> HIDE DEF results, Result
  <1>6. list \in Seq(results) /\ \A r \in results : \E i \in DOMAIN list : list[i] = r
    BY <1>5, SetToSeqFacts
  <1> HIDE DEF list
  <1>7. list \in Seq(Result)
    <2> DEFINE n == Len(list)
    <2>1. n \in Nat /\ list \in [1..n -> results]
      BY <1>6
    <2> HIDE DEF n
    <2>2. list \in [1..n -> Result]
      BY <1>4, <2>1
    <2>. QED  BY <2>1, <2>2, SeqOfLength
  <1>8. \A i \in DOMAIN list : list[i].state = "PASS"
    BY <1>7, RunnerPass DEF list, results, Result
  <1>9. ASSUME NEW id \in requested PROVE outcome[id] = "PASS"
    <2>1. one(id) \in results
      BY <1>1 DEF asked
    <2>2. run(id) = "PASS"
      BY <1>6, <1>8, <2>1
    <2>. QED  BY <2>2
  <1>. QED  BY <1>9

\* Whatever policy file load_risk_policy accepts, whatever changed, whatever
\* known risks the plan declares and whatever the commands report: a run of
\* the requested checks is PASS only if each risk of each changed path has a
\* check that evaluate answers or whose command passed.
THEOREM RisksAreEvidenced ==
    ASSUME NEW T, NEW p, p.knownRisks \in Seq(T), \A r \in DOMAIN p.riskChecks : p.riskChecks[r] \in Seq(T),
           NEW changed, NEW plan, plan.declaredRisks \subseteq Range(p.knownRisks),
           NEW outcome, \A id \in Oracles \cup {HarnessUnit, GradleTest} \cup Preflight : outcome[id] \in State
    PROVE  RisksHaveEvidence(p, changed, plan, outcome)
  <1> DEFINE policy == LoadedPolicy(p)
             requested == RequestedBy(changed, plan, policy)
             verdict == RunnerVerdict(SetToSeq(RunRequiredChecks(requested, outcome)), requested)
  <1>1. ASSUME LoadRiskPolicy(p), verdict = "PASS", NEW path \in changed \ {plan.path}, NEW i \in DOMAIN p.rules,
               NEW q \in Range(p.rules[i].patterns), PathMatches(Pattern(q), path), NEW r \in Range(p.rules[i].risks)
        PROVE  \E c \in Range(p.riskChecks[r]) : c \in Inline \/ outcome[c] = "PASS"
    <2>1. r \in DOMAIN p.riskChecks /\ p.riskChecks[r] # <<>>
      <3>1. r \in Range(p.knownRisks)
        BY <1>1 DEF LoadRiskPolicy
      <3>. QED  BY <1>1, <3>1 DEF LoadRiskPolicy, RiskChecksOk, StringArrayOk
    <2>2. PICK c : c \in Range(p.riskChecks[r])
      <3> DEFINE s == p.riskChecks[r]
      <3>1. s \in Seq(T) /\ s # <<>>
        BY <2>1
      <3> HIDE DEF s
      <3>2. 1 \in DOMAIN s
        BY <3>1
      <3>3. s[1] \in Range(s)
        BY <3>2, Zenon DEF Range
      <3>. QED  BY <3>3 DEF s
    <2>3. /\ i \in DOMAIN policy.rules /\ Pattern(q) \in policy.rules[i].patterns
          /\ r \in policy.rules[i].risks /\ policy.riskChecks[r] = Range(p.riskChecks[r])
      BY <2>1 DEF LoadedPolicy
    <2>4. IsFiniteSet(requested)
      BY <1>1, RequestedIsFinite
    <2> HIDE DEF policy
    <2>5. policy.riskChecks[r] \subseteq requested \cup Inline
      <3>1. MatchesAny(policy.rules[i].patterns, path)
        BY <1>1, <2>3 DEF MatchesAny
      <3>. QED  BY <2>3, <3>1, RisksBringChecks DEF RisksAreChecked
    <2> HIDE DEF requested
    <2>6. \A id \in requested : outcome[id] = "PASS"
      BY <1>1, <2>4, PassedRun
    <2>. QED  BY <2>2, <2>3, <2>5, <2>6
  <1>. QED  BY <1>1 DEF RisksHaveEvidence

-----------------------------------------------------------------------------
(* Path lists of git *)

Token == OnePath \cup TwoPaths
Reader(T) == [ok : BOOLEAN, need : Int, paths : Seq(T)]
Start == [ok |-> TRUE, need |-> 0, paths |-> <<>>]

LEMMA ReadTokenType ==
    ASSUME NEW T, NEW acc \in Reader(T), NEW token \in T
    PROVE  ReadToken(acc, token) \in Reader(T)
  <1>1. CASE ~acc.ok
    BY <1>1 DEF ReadToken
  <1>2. CASE acc.ok /\ acc.need = 0
    <2>1. ReadToken(acc, token) = [acc EXCEPT !.ok = token \in OnePath \cup TwoPaths, !.need = PathCount(token)]
      BY <1>2 DEF ReadToken
    <2>2. PathCount(token) \in Int /\ (token \in OnePath \cup TwoPaths) \in BOOLEAN
      BY DEF PathCount
    <2>. QED  BY <2>1, <2>2 DEF Reader
  <1>3. CASE acc.ok /\ acc.need # 0
    <2>1. ReadToken(acc, token) = [ok |-> token # NoName, need |-> acc.need - 1, paths |-> Append(acc.paths, token)]
      BY <1>3 DEF ReadToken
    <2>2. (token # NoName) \in BOOLEAN /\ acc.need - 1 \in Int /\ Append(acc.paths, token) \in Seq(T)
      BY AppendProperties DEF Reader
    <2>. QED  BY <2>1, <2>2 DEF Reader
  <1>. QED  BY <1>1, <1>2, <1>3

\* The states of the reader are a fold of the tokens.
LEMMA ReadTokensFolds ==
    ASSUME NEW T, NEW tokens \in Seq(T)
    PROVE  LET step == [x \in Reader(T) \X T |-> ReadToken(x[1], x[2])]
           IN  \E at : IsFold(at, Reader(T), step, Start, tokens) /\ ReadTokens(tokens) = at[Len(tokens)]
  <1> DEFINE N == Len(tokens)
             Unfolds(f) == f = [k \in 0..N |-> IF k = 0 THEN Start ELSE ReadToken(f[k - 1], tokens[k])]
             at == CHOOSE f : Unfolds(f)
             step == [x \in Reader(T) \X T |-> ReadToken(x[1], x[2])]
             A == Reader(T)
  <1>0. ReadTokens(tokens) = at[N]
    BY DEF ReadTokens, Start
  <1>1. N \in Nat /\ DOMAIN tokens = 1..N /\ \A k \in 1..N : tokens[k] \in T
    BY SeqElements
  <1>2. \A p \in A, t \in T : ReadToken(p, t) \in A /\ step[<<p, t>>] = ReadToken(p, t)
    BY ReadTokenType
  <1>4. Start \in A
    BY DEF Start, Reader
  <1> HIDE DEF step, A
  <1>5. IsStep(step, A, T)
    BY <1>2 DEF IsStep
  <1>6. PICK f : IsFold(f, A, step, Start, tokens)
    BY <1>4, <1>5, FoldExists, Zenon
  <1>7. Unfolds(f)
    <2>1. /\ f \in [0..N -> A] /\ f[0] = Start
          /\ \A k \in 1..N : f[k] = step[<<f[k - 1], tokens[k]>>]
      BY <1>6 DEF IsFold
    <2> HIDE DEF N
    <2>2. ASSUME NEW k \in 1..N PROVE f[k] = ReadToken(f[k - 1], tokens[k])
      <3>1. k - 1 \in 0..N /\ f[k - 1] \in A /\ tokens[k] \in T
        BY <1>1, <2>1
      <3>. QED  BY <1>2, <2>1, <3>1
    <2>. QED  BY <1>1, <2>1, <2>2
  <1>8. Unfolds(at)
    BY <1>7, Zenon
  <1> HIDE DEF at
  <1>9. IsFold(at, A, step, Start, tokens)
    <2>1. at = [k \in 0..N |-> at[k]] /\ at[0] = Start
      <3> HIDE DEF N
      <3>. QED  BY <1>1, <1>8
    <2>2. ASSUME NEW k \in 1..N, at[k - 1] \in A PROVE at[k] = step[<<at[k - 1], tokens[k]>>]
      <3> HIDE DEF N
      <3>1. k \in 0..N /\ k # 0 /\ tokens[k] \in T
        BY <1>1
      <3>2. at[k] = ReadToken(at[k - 1], tokens[k])
        BY <1>8, <3>1
      <3>. QED  BY <1>2, <2>2, <3>1, <3>2
    <2>. QED  BY <1>4, <1>5, <2>1, <2>2, RecursionFolds, Zenon
  <1>. QED  BY <1>0, <1>9, Zenon DEF A, step

LEMMA ReadAppend ==
    ASSUME NEW T, NEW tokens \in Seq(T), NEW t \in T
    PROVE  /\ ReadTokens(tokens) \in Reader(T)
           /\ ReadTokens(Append(tokens, t)) = ReadToken(ReadTokens(tokens), t)
  <1> DEFINE step == [x \in Reader(T) \X T |-> ReadToken(x[1], x[2])]
             A == Reader(T)
             all == Append(tokens, t)
  <1>0. all \in Seq(T) /\ Len(tokens) \in Nat /\ Start \in A
    BY DEF Start, Reader
  <1>1. PICK f : IsFold(f, A, step, Start, tokens) /\ ReadTokens(tokens) = f[Len(tokens)]
    BY ReadTokensFolds, Zenon
  <1>2. PICK g : IsFold(g, A, step, Start, all) /\ ReadTokens(all) = g[Len(all)]
    BY <1>0, ReadTokensFolds, Zenon
  <1>3. \A p \in A, u \in T : step[<<p, u>>] = ReadToken(p, u)
    OBVIOUS
  <1> HIDE DEF step, A
  <1>4. g[Len(all)] = step[<<f[Len(tokens)], t>>]
    BY <1>0, <1>1, <1>2, FoldAppend
  <1>5. f[Len(tokens)] \in A
    BY <1>0, <1>1 DEF IsFold
  <1>. QED  BY <1>1, <1>2, <1>3, <1>4, <1>5 DEF A

LEMMA ReadNothing == ReadTokens(<<>>) = Start
  <1> DEFINE step == [x \in Reader({}) \X {} |-> ReadToken(x[1], x[2])]
  <1>1. <<>> \in Seq({}) /\ Len(<<>>) = 0
    OBVIOUS
  <1>2. PICK f : IsFold(f, Reader({}), step, Start, <<>>) /\ ReadTokens(<<>>) = f[Len(<<>>)]
    BY <1>1, ReadTokensFolds, Zenon
  <1>. QED  BY <1>1, <1>2 DEF IsFold

Joining(T) == [x \in Seq(T) \X Seq(T) |-> x[1] \o x[2]]

LEMMA JoiningStep ==
    ASSUME NEW T
    PROVE  /\ \A a, b \in Seq(T) : Joining(T)[<<a, b>>] = a \o b /\ a \o b \in Seq(T)
           /\ IsStep(Joining(T), Seq(T), Seq(T))
  <1>1. ASSUME NEW a \in Seq(T), NEW b \in Seq(T) PROVE Joining(T)[<<a, b>>] = a \o b /\ a \o b \in Seq(T)
    BY ConcatProperties DEF Joining
  <1>. QED  BY <1>1 DEF IsStep

\* FlattenSeq is a fold of the sequences.
LEMMA FlattenFolds ==
    ASSUME NEW T, NEW seqs \in Seq(Seq(T))
    PROVE  \E f : IsFold(f, Seq(T), Joining(T), <<>>, seqs) /\ FlattenSeq(seqs) = f[Len(seqs)]
  <1> DEFINE N == Len(seqs)
             Unfolds(f) == f = [i \in 1..N |-> IF i = 1 THEN seqs[i] ELSE f[i - 1] \o seqs[i]]
             flat == CHOOSE f : Unfolds(f)
             at == [k \in 0..N |-> IF k = 0 THEN <<>> ELSE flat[k]]
             A == Seq(T)
             J == Joining(T)
  <1>1. N \in Nat /\ \A k \in 1..N : seqs[k] \in A
    OBVIOUS
  <1>2. FlattenSeq(seqs) = IF N = 0 THEN seqs ELSE flat[N]
    BY DEF FlattenSeq
  <1>3. N = 0 => seqs = <<>>
    OBVIOUS
  <1>4. <<>> \in A /\ \A a \in A : <<>> \o a = a
    BY ConcatEmptySeq
  <1>5. IsStep(J, A, A) /\ \A a, b \in A : J[<<a, b>>] = a \o b /\ a \o b \in A
    BY JoiningStep
  <1>6. PICK f : IsFold(f, A, J, <<>>, seqs)
    <2> HIDE DEF A, J
    <2>. QED  BY <1>4, <1>5, FoldExists, Zenon DEF A
  <1>7. /\ f \in [0..N -> A] /\ f[0] = <<>>
        /\ \A k \in 1..N : f[k] = f[k - 1] \o seqs[k]
    <2>1. /\ f \in [0..N -> A] /\ f[0] = <<>>
          /\ \A k \in 1..N : f[k] = J[<<f[k - 1], seqs[k]>>]
      BY <1>6, Zenon DEF IsFold
    <2> HIDE DEF A, J, N
    <2>2. \A k \in 1..N : k - 1 \in 0..N
      BY <1>1
    <2>. QED  BY <1>1, <1>5, <2>1, <2>2
  <1> HIDE DEF N, A, J
  <1>8. Unfolds([i \in 1..N |-> f[i]])
    <2> DEFINE h == [i \in 1..N |-> f[i]]
    <2>1. ASSUME NEW i \in 1..N PROVE h[i] = IF i = 1 THEN seqs[i] ELSE h[i - 1] \o seqs[i]
      <3>1. CASE i = 1
        <4>0. 1 \in 1..N /\ f[i] = f[i - 1] \o seqs[i] /\ seqs[i] \in A
          BY <1>1, <1>7, <3>1
        <4>1. f[1] = f[0] \o seqs[1] /\ seqs[1] \in A
          BY <3>1, <4>0
        <4>2. h[1] = seqs[1]
          BY <1>4, <1>7, <3>1, <4>1
        <4>. QED  BY <3>1, <4>2
      <3>2. CASE i # 1
        <4>1. i - 1 \in 1..N
          BY <1>1, <3>2
        <4>2. h[i - 1] = f[i - 1] /\ h[i] = f[i]
          BY <4>1
        <4>. QED  BY <1>7, <3>2, <4>2
      <3>. QED  BY <3>1, <3>2
    <2>. QED  BY <2>1
  <1>9. Unfolds(flat)
    BY <1>8, Zenon
  <1> HIDE DEF flat
  <1>10. \A i \in 1..N : flat[i] = IF i = 1 THEN seqs[i] ELSE flat[i - 1] \o seqs[i]
    BY <1>1, <1>9
  <1>11. IsFold(at, A, J, <<>>, seqs)
    <2>1. at = [k \in 0..N |-> at[k]] /\ at[0] = <<>>
      BY <1>1
    <2>2. ASSUME NEW k \in 1..N, at[k - 1] \in A PROVE at[k] = J[<<at[k - 1], seqs[k]>>]
      <3>1. at[k] = flat[k] /\ at[k - 1] = IF k = 1 THEN <<>> ELSE flat[k - 1]
        BY <1>1
      <3> HIDE DEF at
      <3>2. flat[k] = at[k - 1] \o seqs[k]
        BY <1>1, <1>4, <1>10, <3>1
      <3>. QED  BY <1>1, <1>5, <2>2, <3>1, <3>2
    <2> HIDE DEF at
    <2>. QED  BY <1>1, <1>4, <1>5, <2>1, <2>2, RecursionFolds, Zenon DEF N, A
  <1>12. FlattenSeq(seqs) = at[N]
    BY <1>1, <1>2, <1>3
  <1>. QED  BY <1>11, <1>12, Zenon DEF N, A, J

LEMMA FlattenNext ==
    ASSUME NEW T, NEW seqs \in Seq(Seq(T)), NEW s \in Seq(T)
    PROVE  /\ FlattenSeq(seqs) \in Seq(T)
           /\ FlattenSeq(Append(seqs, s)) = FlattenSeq(seqs) \o s
  <1> DEFINE A == Seq(T)
             all == Append(seqs, s)
             J == Joining(T)
  <1>1. all \in Seq(A) /\ Len(seqs) \in Nat /\ <<>> \in A
    OBVIOUS
  <1>2. \A a, b \in A : J[<<a, b>>] = a \o b
    BY JoiningStep
  <1> HIDE DEF J
  <1>3. PICK f : IsFold(f, A, J, <<>>, seqs) /\ FlattenSeq(seqs) = f[Len(seqs)]
    BY FlattenFolds, Zenon DEF J
  <1>4. PICK g : IsFold(g, A, J, <<>>, all) /\ FlattenSeq(all) = g[Len(all)]
    BY <1>1, FlattenFolds, Zenon DEF J
  <1>8. seqs \in Seq(A) /\ s \in A
    OBVIOUS
  <1> HIDE DEF A
  <1>5. g[Len(all)] = J[<<f[Len(seqs)], s>>]
    BY <1>1, <1>3, <1>4, <1>8, FoldAppend
  <1>6. f[Len(seqs)] \in A
    <2>1. f \in [0..Len(seqs) -> A]
      BY <1>3, Zenon DEF IsFold
    <2>2. Len(seqs) \in 0..Len(seqs)
      BY <1>1
    <2>. QED  BY <2>1, <2>2, Zenon
  <1>7. FlattenSeq(all) = FlattenSeq(seqs) \o s
    BY <1>2, <1>3, <1>4, <1>5, <1>6, <1>8, Zenon
  <1>. QED  BY <1>3, <1>6, <1>7, Zenon DEF A, all

\* The records one after the other.
LEMMA TokensNext ==
    ASSUME NEW T, NEW records \in Seq(Seq(T) \ {<<>>}), NEW n \in Nat, n + 1 <= Len(records)
    PROVE  /\ TokensOf(records, n) \in Seq(T) /\ PathsOf(records, n) \in Seq(T)
           /\ TokensOf(records, n + 1) = TokensOf(records, n) \o records[n + 1]
           /\ PathsOf(records, n + 1) = PathsOf(records, n) \o Tail(records[n + 1])
  <1> DEFINE N == Len(records)
             some(k) == [i \in 1..k |-> records[i]]
             tails(k) == [i \in 1..k |-> Tail(records[i])]
  <1>1. N \in Nat /\ n + 1 <= N /\ n + 1 \in 1..N
    OBVIOUS
  <1>2. \A k \in 1..N : records[k] \in Seq(T) /\ Tail(records[k]) \in Seq(T)
    <2>1. ASSUME NEW k \in 1..N PROVE records[k] \in Seq(T) /\ records[k] # <<>>
      OBVIOUS
    <2>2. ASSUME NEW s \in Seq(T), s # <<>> PROVE Tail(s) \in Seq(T)
      BY <2>2, HeadTailProperties
    <2>. QED  BY <2>1, <2>2
  <1> HIDE DEF N
  <1>3. some(n) \in Seq(Seq(T)) /\ some(n + 1) = Append(some(n), records[n + 1])
    <2>1. some(n) \in [1..n -> Seq(T)]
      BY <1>1, <1>2
    <2>. QED  BY <1>1, <1>2, <2>1
  <1>4. tails(n) \in Seq(Seq(T)) /\ tails(n + 1) = Append(tails(n), Tail(records[n + 1]))
    <2>1. tails(n) \in [1..n -> Seq(T)]
      BY <1>1, <1>2
    <2>. QED  BY <1>1, <1>2, <2>1
  <1> HIDE DEF some, tails
  <1>5. records[n + 1] \in Seq(T) /\ Tail(records[n + 1]) \in Seq(T)
    BY <1>1, <1>2
  <1>6. /\ FlattenSeq(some(n)) \in Seq(T)
        /\ FlattenSeq(Append(some(n), records[n + 1])) = FlattenSeq(some(n)) \o records[n + 1]
    BY <1>3, <1>5, FlattenNext, Zenon
  <1>7. /\ FlattenSeq(tails(n)) \in Seq(T)
        /\ FlattenSeq(Append(tails(n), Tail(records[n + 1]))) = FlattenSeq(tails(n)) \o Tail(records[n + 1])
    BY <1>4, <1>5, FlattenNext, Zenon
  <1>. QED  BY <1>3, <1>4, <1>6, <1>7, Zenon DEF TokensOf, PathsOf, some, tails

LEMMA TokensOfNone ==
    ASSUME NEW records
    PROVE  TokensOf(records, 0) = <<>> /\ PathsOf(records, 0) = <<>>
  <1>1. [k \in 1..0 |-> records[k]] = <<>> /\ [k \in 1..0 |-> Tail(records[k])] = <<>>
    OBVIOUS
  <1>2. FlattenSeq(<<>>) = <<>>
    BY DEF FlattenSeq
  <1>. QED  BY <1>1, <1>2 DEF TokensOf, PathsOf

\* Files with a name, the tokens of a list of them, and its records.
NamedFiles(Path) == \A p \in Path : p # NoName
Word(Path) == OnePath \cup TwoPaths \cup Path
RecordsOf(Path) == (OnePath \X Path) \cup (TwoPaths \X Path \X Path)

\* The reader after the paths p, when n more belong to the record it is in.
Waits(n, p) == [ok |-> TRUE, need |-> n, paths |-> p]

LEMMA ReadStatus ==
    ASSUME NEW Path, NEW s \in Seq(Word(Path)), NEW p, ReadTokens(s) = Waits(0, p), NEW a \in OnePath \cup TwoPaths
    PROVE  /\ Append(s, a) \in Seq(Word(Path))
           /\ ReadTokens(Append(s, a)) = Waits(PathCount(a), p)
  <1>1. a \in Word(Path)
    BY DEF Word
  <1> DEFINE T == Word(Path)
  <1> HIDE DEF T
  <1>2. ReadTokens(Append(s, a)) = ReadToken(Waits(0, p), a)
    BY <1>1, ReadAppend DEF T
  <1>3. ReadToken(Waits(0, p), a) = [Waits(0, p) EXCEPT !.ok = TRUE, !.need = PathCount(a)]
    BY DEF ReadToken, Waits
  <1>. QED  BY <1>1, <1>2, <1>3, AppendProperties DEF Waits

LEMMA ReadPath ==
    ASSUME NEW Path, NamedFiles(Path), NEW s \in Seq(Word(Path)), NEW p, NEW b \in Path
    PROVE  /\ Append(s, b) \in Seq(Word(Path))
           /\ ReadTokens(s) = Waits(1, p) => ReadTokens(Append(s, b)) = Waits(0, Append(p, b))
           /\ ReadTokens(s) = Waits(2, p) => ReadTokens(Append(s, b)) = Waits(1, Append(p, b))
  <1>1. b \in Word(Path) /\ b # NoName
    BY DEF Word, NamedFiles
  <1>2. ReadTokens(Append(s, b)) = ReadToken(ReadTokens(s), b)
    BY <1>1, ReadAppend
  <1>5. ASSUME NEW n \in Nat \ {0} PROVE ReadToken(Waits(n, p), b) = Waits(n - 1, Append(p, b))
    <2> DEFINE w == [ok |-> TRUE, need |-> n, paths |-> p]
    <2>1. ReadToken(w, b) = [ok |-> TRUE, need |-> n - 1, paths |-> Append(p, b)]
      BY <1>1 DEF ReadToken
    <2>. QED  BY <2>1, Zenon DEF Waits
  <1>3. ReadToken(Waits(1, p), b) = Waits(0, Append(p, b))
    BY <1>5
  <1>4. ReadToken(Waits(2, p), b) = Waits(1, Append(p, b))
    BY <1>5
  <1>. QED  BY <1>1, <1>2, <1>3, <1>4, AppendProperties

LEMMA ShortAppends ==
    ASSUME NEW T, NEW x \in T, NEW y \in T, NEW z \in T
    PROVE  Append(<<>>, x) = <<x>> /\ Append(<<x>>, y) = <<x, y>> /\ Append(<<x, y>>, z) = <<x, y, z>>
  <1>1. Append(<<>>, x) = <<x>>
    <2>1. Append(<<>>, x) = <<>> \o <<x>> /\ <<>> \in Seq(T) /\ <<x>> \in Seq(T)
      BY AppendIsConcat
    <2>. QED  BY <2>1, ConcatEmptySeq
  <1>2. Append(<<x>>, y) = <<x, y>>
    <2> DEFINE u == Append(<<x>>, y)
               v == <<x, y>>
    <2>1. v \in Seq(T) /\ Len(v) = 2 /\ v[1] = x /\ v[2] = y
      OBVIOUS
    <2>2. <<x>> \in Seq(T) /\ Len(<<x>>) = 1 /\ <<x>>[1] = x
      OBVIOUS
    <2>3. u \in Seq(T) /\ Len(u) = 2 /\ u[1] = x /\ u[2] = y
      BY <2>2, AppendProperties
    <2> HIDE DEF u, v
    <2>4. \A i \in 1..2 : u[i] = v[i]
      BY <2>1, <2>3
    <2>5. u = v
      BY <2>1, <2>3, <2>4, SeqEqual
    <2>. QED  BY <2>5 DEF u, v
  <1>3. Append(<<x, y>>, z) = <<x, y, z>>
    <2> DEFINE u == Append(<<x, y>>, z)
               v == <<x, y, z>>
    <2>1. v \in Seq(T) /\ Len(v) = 3 /\ v[1] = x /\ v[2] = y /\ v[3] = z
      OBVIOUS
    <2>2. <<x, y>> \in Seq(T) /\ Len(<<x, y>>) = 2 /\ <<x, y>>[1] = x /\ <<x, y>>[2] = y
      OBVIOUS
    <2>3. u \in Seq(T) /\ Len(u) = 3 /\ u[1] = x /\ u[2] = y /\ u[3] = z
      BY <2>2, AppendProperties
    <2> HIDE DEF u, v
    <2>4. \A i \in 1..3 : u[i] = v[i]
      BY <2>1, <2>3
    <2>5. u = v
      BY <2>1, <2>3, <2>4, SeqEqual
    <2>. QED  BY <2>5 DEF u, v
  <1>. QED  BY <1>1, <1>2, <1>3

LEMMA ShortPrefixes ==
    ASSUME NEW T, NEW s \in Seq(T), Len(s) >= 2
    PROVE  SubSeq(s, 1, 1) = <<s[1]>> /\ SubSeq(s, 1, 2) = <<s[1], s[2]>>
  <1>0. \A x, y \in T : Append(<<>>, x) = <<x>> /\ Append(<<x>>, y) = <<x, y>>
    BY ShortAppends
  <1>1. SubSeq(s, 1, 0) = <<>>
    BY SubSeqEmpty
  <1>2. s[1] \in T /\ s[2] \in T
    OBVIOUS
  <1>3. SubSeq(s, 1, 1) = Append(SubSeq(s, 1, 0), s[1])
    <2>1. SubSeq(s, 1, 0 + 1) = Append(SubSeq(s, 1, 0), s[0 + 1])
      BY SubSeqNext
    <2>. QED  BY <2>1
  <1>4. SubSeq(s, 1, 2) = Append(SubSeq(s, 1, 1), s[2])
    <2>1. SubSeq(s, 1, 1 + 1) = Append(SubSeq(s, 1, 1), s[1 + 1])
      BY SubSeqNext
    <2>. QED  BY <2>1
  <1>. QED  BY <1>0, <1>1, <1>2, <1>3, <1>4, Zenon

\* The reader takes one record: it is idle again after its last token only.
LEMMA ReadRecordOfOne ==
    ASSUME NEW Path, NamedFiles(Path), NEW s \in Seq(Word(Path)), NEW p \in Seq(Word(Path)),
           ReadTokens(s) = Waits(0, p), NEW a \in OnePath, NEW b \in Path
    PROVE  /\ ReadTokens(s \o <<a, b>>) = Waits(0, p \o Tail(<<a, b>>))
           /\ \A k \in 1..(Len(<<a, b>>) - 1) : ReadTokens(s \o SubSeq(<<a, b>>, 1, k)).need # 0
  <1> DEFINE T == Word(Path)
             one == Append(s, a)
             all == Append(one, b)
  <1>1. PathCount(a) = 1
    BY DEF PathCount, OnePath, TwoPaths
  <1>2. a \in T /\ b \in T
    BY DEF Word
  <1>3. one \in Seq(T) /\ ReadTokens(one) = Waits(1, p)
    BY <1>1, ReadStatus
  <1> HIDE DEF one
  <1>4. ReadTokens(all) = Waits(0, Append(p, b))
    BY <1>3, ReadPath
  <1> HIDE DEF all, T
  <1>5. s \o <<a, b>> = all /\ p \o Tail(<<a, b>>) = Append(p, b)
    BY <1>2 DEF T, one, all
  <1>6. SubSeq(<<a, b>>, 1, 1) = <<a>>
    <2> DEFINE r == <<a, b>>
    <2>1. r \in Seq(T) /\ Len(r) >= 2 /\ r[1] = a /\ r[2] = b
      BY <1>2
    <2> HIDE DEF r
    <2>2. SubSeq(r, 1, 1) = <<a>> /\ SubSeq(r, 1, 2) = <<a, b>>
      BY <2>1, ShortPrefixes
    <2>. QED  BY <2>2 DEF r
  <1>7. s \o <<a>> = one
    BY <1>2 DEF T, one
  <1>8. ASSUME NEW k \in 1..(Len(<<a, b>>) - 1) PROVE ReadTokens(s \o SubSeq(<<a, b>>, 1, k)).need # 0
    <2>1. k = 1
      OBVIOUS
    <2>2. Waits(1, p).need # 0
      BY DEF Waits
    <2>. QED  BY <1>3, <1>6, <1>7, <2>1, <2>2, Zenon
  <1>. QED  BY <1>4, <1>5, <1>8, Zenon

LEMMA ReadRecordOfTwo ==
    ASSUME NEW Path, NamedFiles(Path), NEW s \in Seq(Word(Path)), NEW p \in Seq(Word(Path)),
           ReadTokens(s) = Waits(0, p), NEW a \in TwoPaths, NEW b \in Path, NEW c \in Path
    PROVE  /\ ReadTokens(s \o <<a, b, c>>) = Waits(0, p \o Tail(<<a, b, c>>))
           /\ \A k \in 1..(Len(<<a, b, c>>) - 1) : ReadTokens(s \o SubSeq(<<a, b, c>>, 1, k)).need # 0
  <1> DEFINE T == Word(Path)
             one == Append(s, a)
             two == Append(one, b)
             all == Append(two, c)
  <1>1. PathCount(a) = 2
    BY DEF PathCount
  <1>2. a \in T /\ b \in T /\ c \in T
    BY DEF Word
  <1>3. one \in Seq(T) /\ ReadTokens(one) = Waits(2, p)
    BY <1>1, ReadStatus
  <1> HIDE DEF one
  <1>4. two \in Seq(T) /\ ReadTokens(two) = Waits(1, Append(p, b))
    BY <1>3, ReadPath
  <1> HIDE DEF two
  <1>5. ReadTokens(all) = Waits(0, Append(Append(p, b), c))
    BY <1>4, ReadPath
  <1> HIDE DEF all, T
  <1>6. s \o <<a, b, c>> = all
    BY <1>2 DEF T, one, two, all
  <1>7. p \o Tail(<<a, b, c>>) = Append(Append(p, b), c)
    BY <1>2 DEF T
  <1>8. SubSeq(<<a, b, c>>, 1, 1) = <<a>> /\ SubSeq(<<a, b, c>>, 1, 2) = <<a, b>>
    <2> DEFINE r == <<a, b, c>>
    <2>1. r \in Seq(T) /\ Len(r) >= 2 /\ r[1] = a /\ r[2] = b
      BY <1>2
    <2> HIDE DEF r
    <2>2. SubSeq(r, 1, 1) = <<a>> /\ SubSeq(r, 1, 2) = <<a, b>>
      BY <2>1, ShortPrefixes
    <2>. QED  BY <2>2 DEF r
  <1>9. s \o <<a>> = one /\ s \o <<a, b>> = two
    BY <1>2 DEF T, one, two
  <1>10. ASSUME NEW k \in 1..(Len(<<a, b, c>>) - 1) PROVE ReadTokens(s \o SubSeq(<<a, b, c>>, 1, k)).need # 0
    <2>1. k = 1 \/ k = 2
      OBVIOUS
    <2>2. Waits(2, p).need # 0 /\ Waits(1, Append(p, b)).need # 0
      BY DEF Waits
    <2>. QED  BY <1>3, <1>4, <1>8, <1>9, <2>1, <2>2, Zenon
  <1>. QED  BY <1>5, <1>6, <1>7, <1>10, Zenon

\* The two forms of a record.
LEMMA RecordForms ==
    ASSUME NEW Path, NEW r \in RecordsOf(Path)
    PROVE  \/ \E a \in OnePath, b \in Path : r = <<a, b>>
           \/ \E a \in TwoPaths, b \in Path, c \in Path : r = <<a, b, c>>
  <1>1. ASSUME r \in OnePath \X Path PROVE \E a \in OnePath, b \in Path : r = <<a, b>>
    BY <1>1
  <1>2. ASSUME r \in TwoPaths \X Path \X Path
        PROVE  \E a \in TwoPaths, b \in Path, c \in Path : r = <<a, b, c>>
    BY <1>2
  <1>. QED  BY <1>1, <1>2 DEF RecordsOf

LEMMA ReadRecord ==
    ASSUME NEW Path, NamedFiles(Path), NEW s \in Seq(Word(Path)), NEW p \in Seq(Word(Path)),
           ReadTokens(s) = Waits(0, p), NEW r \in RecordsOf(Path)
    PROVE  /\ ReadTokens(s \o r) = Waits(0, p \o Tail(r))
           /\ \A k \in 1..(Len(r) - 1) : ReadTokens(s \o SubSeq(r, 1, k)).need # 0
  <1>1. CASE \E a \in OnePath, b \in Path : r = <<a, b>>
    <2>1. PICK a \in OnePath, b \in Path : r = <<a, b>>
      BY <1>1
    <2>2. /\ ReadTokens(s \o <<a, b>>) = Waits(0, p \o Tail(<<a, b>>))
          /\ \A k \in 1..(Len(<<a, b>>) - 1) : ReadTokens(s \o SubSeq(<<a, b>>, 1, k)).need # 0
      BY ReadRecordOfOne
    <2>. QED  BY <2>1, <2>2, Zenon
  <1>2. CASE \E a \in TwoPaths, b \in Path, c \in Path : r = <<a, b, c>>
    <2>1. PICK a \in TwoPaths, b \in Path, c \in Path : r = <<a, b, c>>
      BY <1>2
    <2>2. /\ ReadTokens(s \o <<a, b, c>>) = Waits(0, p \o Tail(<<a, b, c>>))
          /\ \A k \in 1..(Len(<<a, b, c>>) - 1) : ReadTokens(s \o SubSeq(<<a, b, c>>, 1, k)).need # 0
      BY ReadRecordOfTwo
    <2>. QED  BY <2>1, <2>2, Zenon
  <1>. QED  BY <1>1, <1>2, RecordForms

LEMMA RecordType ==
    ASSUME NEW Path, NEW r \in RecordsOf(Path)
    PROVE  r \in Seq(Word(Path)) \ {<<>>}
  <1>1. ASSUME NEW a \in OnePath, NEW b \in Path PROVE <<a, b>> \in Seq(Word(Path)) \ {<<>>}
    BY DEF Word
  <1>2. ASSUME NEW a \in TwoPaths, NEW b \in Path, NEW c \in Path
        PROVE  <<a, b, c>> \in Seq(Word(Path)) \ {<<>>}
    BY DEF Word
  <1>3. CASE \E a \in OnePath, b \in Path : r = <<a, b>>
    BY <1>1, <1>3, Zenon
  <1>4. CASE \E a \in TwoPaths, b \in Path, c \in Path : r = <<a, b, c>>
    BY <1>2, <1>4, Zenon
  <1>. QED  BY <1>3, <1>4, RecordForms, Zenon

\* A prefix that reaches into the second of two sequences.
LEMMA PrefixOfConcat ==
    ASSUME NEW T, NEW s \in Seq(T), NEW t \in Seq(T), NEW k \in 0..(Len(s) + Len(t))
    PROVE  SubSeq(s \o t, 1, k) = IF k <= Len(s) THEN SubSeq(s, 1, k) ELSE s \o SubSeq(t, 1, k - Len(s))
  <1> DEFINE M == Len(s)
             N == Len(t)
             st == s \o t
             head == SubSeq(st, 1, k)
  <1>1. /\ M \in Nat /\ N \in Nat /\ st \in Seq(T) /\ Len(st) = M + N
        /\ \A i \in 1..(M + N) : st[i] = IF i <= M THEN s[i] ELSE t[i - M]
    BY ConcatProperties
  <1>2. /\ \A i \in 1..M : s[i] \in T
        /\ \A i \in 1..N : t[i] \in T
        /\ \A i \in 1..(M + N) : st[i] \in T
    BY <1>1
  <1> HIDE DEF M, N, st
  <1>3. head \in Seq(T) /\ Len(head) = k /\ \A i \in 1..k : head[i] = st[i]
    BY <1>1, <1>2, SubSeqProperties DEF M, N
  <1>4. CASE k <= M
    <2> DEFINE short == SubSeq(s, 1, k)
    <2>1. short \in Seq(T) /\ Len(short) = k /\ \A i \in 1..k : short[i] = s[i]
      BY <1>1, <1>2, <1>4, SubSeqProperties DEF M, N
    <2> HIDE DEF short, head
    <2>2. \A i \in 1..k : head[i] = short[i]
      <3>1. \A i \in 1..k : i \in 1..(M + N) /\ i <= M
        <4>1. k \in Int
          BY <1>3
        <4>. QED  BY <1>1, <1>4, <4>1
      <3>2. \A i \in 1..k : st[i] = s[i]
        BY <1>1, <3>1, Zenon
      <3>. QED  BY <1>3, <2>1, <3>2, Zenon
    <2>3. head = short
      BY <1>3, <2>1, <2>2, SeqEqual
    <2>. QED  BY <1>4, <2>3 DEF short, head, M, st
  <1>5. CASE k > M
    <2> DEFINE j == k - M
               rest == SubSeq(t, 1, j)
               both == s \o rest
    <2>1. j \in 1..N /\ M + j = k
      BY <1>1, <1>5 DEF M, N
    <2> HIDE DEF j
    <2>2. rest \in Seq(T) /\ Len(rest) = j /\ \A i \in 1..j : rest[i] = t[i]
      BY <1>1, <1>2, <2>1, SubSeqProperties
    <2> HIDE DEF rest
    <2>3. both \in Seq(T) /\ Len(both) = k /\ \A i \in 1..k : both[i] = IF i <= M THEN s[i] ELSE rest[i - M]
      BY <2>1, <2>2, ConcatProperties DEF M
    <2> HIDE DEF both, head
    <2>4. ASSUME NEW i \in 1..k PROVE head[i] = both[i]
      <3>1. i \in 1..(M + N) /\ head[i] = st[i]
        BY <1>1, <1>3, <2>1
      <3>2. CASE i <= M
        <4>1. st[i] = s[i]
          BY <1>1, <3>1, <3>2
        <4>. QED  BY <2>3, <3>1, <3>2, <4>1
      <3>3. CASE i > M
        <4>1. i - M \in 1..j /\ ~(i <= M)
          BY <1>1, <2>1, <3>3
        <4>2. st[i] = t[i - M]
          BY <1>1, <3>1, <4>1
        <4>3. both[i] = rest[i - M]
          BY <2>3, <4>1
        <4>. QED  BY <2>2, <3>1, <4>1, <4>2, <4>3
      <3>. QED  BY <1>1, <3>2, <3>3
    <2>5. head = both
      BY <1>3, <2>3, <2>4, SeqEqual
    <2>. QED  BY <1>1, <1>5, <2>5 DEF both, rest, j, head, M, st
  <1>. QED  BY <1>1, <1>4, <1>5 DEF M

\* After whole records the reader is idle and has named their paths; inside a
\* record it waits.
LEMMA ReadRecords ==
    ASSUME NEW Path, NamedFiles(Path), NEW records \in Seq(RecordsOf(Path))
    PROVE  \A n \in 0..Len(records) :
             /\ TokensOf(records, n) \in Seq(Word(Path))
             /\ PathsOf(records, n) \in Seq(Word(Path))
             /\ ReadTokens(TokensOf(records, n)) = Waits(0, PathsOf(records, n))
             /\ \A k \in 0..Len(TokensOf(records, n)) :
                  LET cut == SubSeq(TokensOf(records, n), 1, k)
                  IN  ReadTokens(cut).need # 0 \/ \E j \in 0..n : cut = TokensOf(records, j)
  <1> DEFINE N == Len(records)
             T == Word(Path)
             Whole(t) == \E j \in 0..N : t = TokensOf(records, j)
             Reads(n) == /\ TokensOf(records, n) \in Seq(T)
                         /\ PathsOf(records, n) \in Seq(T)
                         /\ ReadTokens(TokensOf(records, n)) = Waits(0, PathsOf(records, n))
             Cuts(n) == \A k \in 0..Len(TokensOf(records, n)) :
                          LET cut == SubSeq(TokensOf(records, n), 1, k)
                          IN  ReadTokens(cut).need # 0 \/ \E j \in 0..n : cut = TokensOf(records, j)
             S == {n \in Nat : n <= N => Reads(n) /\ Cuts(n)}
  <1>1. /\ N \in Nat /\ records \in Seq(Seq(T) \ {<<>>})
        /\ \A k \in 1..N : records[k] \in RecordsOf(Path)
    <2>1. RecordsOf(Path) \subseteq Seq(T) \ {<<>>}
      BY RecordType
    <2> HIDE DEF T
    <2>. QED  BY <2>1
  <1> HIDE DEF N
  <1>2. 0 \in S
    <2>1. TokensOf(records, 0) = <<>> /\ PathsOf(records, 0) = <<>>
      BY TokensOfNone
    <2>2. ReadTokens(<<>>) = Waits(0, <<>>)
      BY ReadNothing DEF Start, Waits
    <2>3. Reads(0)
      <3>1. <<>> \in Seq(T)
        OBVIOUS
      <3>. QED  BY <2>1, <2>2, <3>1, Zenon
    <2>4. Cuts(0)
      <3>1. ASSUME NEW k \in 0..Len(<<>>) PROVE SubSeq(<<>>, 1, k) = <<>>
        <4>1. k = 0
          OBVIOUS
        <4>. QED  BY <4>1, SubSeqEmpty
      <3>2. 0 \in 0..0
        OBVIOUS
      <3>. QED  BY <2>1, <3>1, <3>2, Zenon
    <2>. QED  BY <2>3, <2>4
  <1>3. ASSUME NEW n \in Nat, n \in S PROVE n + 1 \in S
    <2> SUFFICES ASSUME n + 1 <= N PROVE Reads(n + 1) /\ Cuts(n + 1)
      OBVIOUS
    <2> DEFINE t == TokensOf(records, n)
               p == PathsOf(records, n)
               r == records[n + 1]
               more == TokensOf(records, n + 1)
    <2>1. Reads(n) /\ Cuts(n)
      BY <1>1, <1>3
    <2>2. r \in RecordsOf(Path) /\ r \in Seq(T) /\ r # <<>>
      <3>1. n + 1 \in 1..N
        BY <1>1
      <3>. QED  BY <1>1, <3>1, RecordType
    <2>3. more = t \o r /\ PathsOf(records, n + 1) = p \o Tail(r)
      BY <1>1, TokensNext DEF N
    <2>4. /\ t \in Seq(T) /\ p \in Seq(T) /\ ReadTokens(t) = Waits(0, p)
      BY <2>1
    <2>5. /\ ReadTokens(t \o r) = Waits(0, p \o Tail(r))
          /\ \A k \in 1..(Len(r) - 1) : ReadTokens(t \o SubSeq(r, 1, k)).need # 0
      BY <2>2, <2>4, ReadRecord
    <2>6. Reads(n + 1)
      <3>1. Tail(r) \in Seq(T)
        BY <2>2, HeadTailProperties
      <3> HIDE DEF r, t, p, T, more
      <3>2. t \o r \in Seq(T) /\ p \o Tail(r) \in Seq(T)
        BY <2>2, <2>4, <3>1, ConcatProperties
      <3>. QED  BY <2>3, <2>5, <3>2 DEF more
    <2>7. Cuts(n + 1)
      <3> SUFFICES ASSUME NEW k \in 0..Len(more)
                   PROVE  LET cut == SubSeq(more, 1, k)
                          IN  ReadTokens(cut).need # 0 \/ \E j \in 0..(n + 1) : cut = TokensOf(records, j)
        BY Zenon
      <3>1. Len(t) \in Nat /\ Len(r) \in Nat /\ Len(more) = Len(t) + Len(r)
        <4> HIDE DEF r, t, p, T, more
        <4>. QED  BY <2>2, <2>3, <2>4, ConcatProperties
      <3>2. SubSeq(more, 1, k) = IF k <= Len(t) THEN SubSeq(t, 1, k) ELSE t \o SubSeq(r, 1, k - Len(t))
        <4> HIDE DEF r, t, p, T, more
        <4>. QED  BY <2>2, <2>3, <2>4, <3>1, PrefixOfConcat
      <3>3. CASE k <= Len(t)
        <4>1. k \in 0..Len(t)
          BY <3>1, <3>3
        <4>2. ReadTokens(SubSeq(t, 1, k)).need # 0 \/ \E j \in 0..n : SubSeq(t, 1, k) = TokensOf(records, j)
          BY <2>1, <4>1, Zenon
        <4>3. \A j \in 0..n : j \in 0..(n + 1)
          OBVIOUS
        <4>. QED  BY <3>2, <3>3, <4>2, <4>3, Zenon
      <3>4. CASE k > Len(t) /\ k < Len(more)
        <4>1. k - Len(t) \in 1..(Len(r) - 1) /\ ~(k <= Len(t))
          BY <3>1, <3>4
        <4>. QED  BY <2>5, <3>2, <4>1, Zenon
      <3>5. CASE k > Len(t) /\ k = Len(more)
        <4>1. k - Len(t) = Len(r) /\ ~(k <= Len(t))
          BY <3>1, <3>5
        <4>2. SubSeq(r, 1, Len(r)) = r
          BY <2>2, SubSeqFull
        <4>3. SubSeq(more, 1, k) = TokensOf(records, n + 1)
          BY <2>3, <3>2, <4>1, <4>2
        <4>4. n + 1 \in 0..(n + 1)
          OBVIOUS
        <4>. QED  BY <4>3, <4>4, Zenon
      <3>. QED  BY <3>1, <3>3, <3>4, <3>5
    <2>. QED  BY <2>6, <2>7
  <1>4. \A n \in Nat : n \in S
    <2> HIDE DEF S
    <2>. QED  BY <1>2, <1>3, AllNumbers
  <1>5. ASSUME NEW n \in 0..N PROVE Reads(n) /\ Cuts(n)
    BY <1>1, <1>4
  <1>. QED  BY <1>5, Zenon DEF N

\* A path list of named files survives its transport: in full it is read in
\* full, and cut off anywhere it is refused or has lost whole records only
\* (parse_name_status).
THEOREM PathListsSurviveTransport ==
    ASSUME NEW Path, NamedFiles(Path), NEW records \in Seq(RecordsOf(Path)),
           NEW kept \in Nat, NEW ended \in BOOLEAN
    PROVE  SurvivesTransport(records, kept, ended)
  <1> DEFINE N == Len(records)
             T == Word(Path)
             all == TokensOf(records, N)
             k == IF kept < Len(all) THEN kept ELSE Len(all)
             cut == SubSeq(all, 1, k)
             answer == ParseNameStatus(cut, ended)
             Whole(n) == cut = TokensOf(records, n) /\ answer.paths = PathsOf(records, n)
  <1>1. N \in Nat /\ N \in 0..N /\ 0 \in 0..N
    <2>1. Len(records) \in Nat
      OBVIOUS
    <2>. QED  BY <2>1
  <1> HIDE DEF N
  <1>2. ASSUME NEW n \in 0..N
        PROVE  ReadTokens(TokensOf(records, n)) = Waits(0, PathsOf(records, n))
    BY ReadRecords DEF N
  <1>3. all \in Seq(T) /\ k \in 0..Len(all)
    <2>1. all \in Seq(T)
      BY <1>1, ReadRecords DEF N
    <2> HIDE DEF all, T
    <2>2. Len(all) \in Nat
      BY <2>1
    <2>3. k \in 0..Len(all)
      BY <2>2
    <2>. QED  BY <2>1, <2>3, Zenon DEF all, T
  <1>4. ReadTokens(cut).need # 0 \/ \E n \in 0..N : cut = TokensOf(records, n)
    <2> HIDE DEF k
    <2>. QED  BY <1>1, <1>3, ReadRecords, Zenon DEF N
  <1>5. ParseNameStatus(all, TRUE) = [ok |-> TRUE, paths |-> PathsOf(records, N)]
    <2>1. ReadTokens(all) = Waits(0, PathsOf(records, N))
      BY <1>1, <1>2
    <2> HIDE DEF all
    <2>2. ParseNameStatus(all, TRUE) = [ok |-> TRUE, paths |-> ReadTokens(all).paths]
      <3>1. ReadTokens(all).ok /\ ReadTokens(all).need = 0
        BY <2>1 DEF Waits
      <3>2. (all = <<>> \/ (TRUE /\ ReadTokens(all).ok /\ ReadTokens(all).need = 0)) = TRUE
        BY <3>1
      <3>. QED  BY <3>2, Zenon DEF ParseNameStatus
    <2>3. ReadTokens(all).paths = PathsOf(records, N)
      BY <2>1 DEF Waits
    <2>. QED  BY <2>2, <2>3, Zenon
  <1>6. answer.ok <=> cut = <<>> \/ (ended /\ ReadTokens(cut).ok /\ ReadTokens(cut).need = 0)
    <2> HIDE DEF cut
    <2>. QED  BY DEF ParseNameStatus
  <1>7. answer.paths = ReadTokens(cut).paths
    <2> HIDE DEF cut
    <2>. QED  BY DEF ParseNameStatus
  <1> HIDE DEF answer, cut
  <1>8. ASSUME NEW n \in 0..N, cut = TokensOf(records, n) PROVE Whole(n)
    <2>1. ReadTokens(cut) = Waits(0, PathsOf(records, n))
      BY <1>2, <1>8
    <2>. QED  BY <1>7, <1>8, <2>1 DEF Waits
  <1>9. answer.ok => \E n \in 0..N : Whole(n)
    <2>1. CASE cut = <<>>
      <3>1. cut = TokensOf(records, 0)
        BY <2>1, TokensOfNone
      <3>. QED  BY <1>1, <1>8, <3>1, Zenon
    <2>2. CASE cut # <<>>
      BY <1>4, <1>6, <1>8, <2>2, Zenon
    <2>. QED  BY <2>1, <2>2
  <1>10. answer.ok => cut = <<>> \/ ended
    BY <1>6
  <1>. QED  BY <1>5, <1>9, <1>10, Zenon DEF SurvivesTransport, answer, cut, N

-----------------------------------------------------------------------------
(* Links and context files *)

\* A segment of a directory inside the repository; a segment that a link may
\* have; a place outside, which no further segment leads back from.
InsideName(s) == Names(s) /\ s # "/"
Given(s) == s # ""
Lost(p) == p # <<>> /\ p[1] \in {"..", "/"}

LEMMA EnterCases ==
    ASSUME NEW place, NEW s
    PROVE  /\ s = "." => Enter(place, s) = place
           /\ s = ".." /\ place = <<>> => Enter(place, s) = <<s>>
           /\ s = ".." /\ place # <<>> /\ Last(place) \notin {"..", "/"} => Enter(place, s) = Front(place)
           /\ Given(s) /\ s # "." /\ s # ".." => Enter(place, s) = Append(place, s)
           /\ \/ Enter(place, s) = place
              \/ Enter(place, s) = Append(place, s)
              \/ Enter(place, s) = Front(place) /\ place # <<>> /\ Last(place) \notin {"..", "/"}
  <1>1. s = "." => Enter(place, s) = place
    BY Zenon DEF Enter
  <1>2. s = ".." /\ place = <<>> => Enter(place, s) = <<s>>
    <2> SUFFICES ASSUME s = "..", place = <<>> PROVE Enter(place, s) = <<s>>
      OBVIOUS
    <2>1. <<>> # <<"/">> /\ Append(<<>>, s) = <<s>>
      <3>1. <<>> \in Seq({s}) /\ s \in {s}
        OBVIOUS
      <3>2. Append(<<>>, s) = <<>> \o <<s>> /\ <<s>> \in Seq({s})
        BY <3>1, AppendIsConcat
      <3>. QED  BY <3>2, ConcatEmptySeq
    <2>2. ".." # "" /\ ".." # "."
      BY Zenon
    <2>. QED  BY <2>1, <2>2, Zenon DEF Enter
  <1>3. s = ".." /\ place # <<>> /\ Last(place) \notin {"..", "/"} => Enter(place, s) = Front(place)
    <2> SUFFICES ASSUME s = "..", place # <<>>, Last(place) \notin {"..", "/"} PROVE Enter(place, s) = Front(place)
      OBVIOUS
    <2>1. ".." # "" /\ ".." # "."
      BY Zenon
    <2>2. Last(<<"/">>) = "/"
      BY DEF Last
    <2>3. place # <<"/">>
      BY <2>2, Zenon
    <2>. QED  BY <2>1, <2>3, Zenon DEF Enter
  <1>4. Given(s) /\ s # "." /\ s # ".." => Enter(place, s) = Append(place, s)
    BY Zenon DEF Enter, Given
  <1>5. \/ Enter(place, s) = place \/ Enter(place, s) = Append(place, s)
        \/ Enter(place, s) = Front(place) /\ place # <<>> /\ Last(place) \notin {"..", "/"}
    <2>1. CASE s \in {"", "."}
      <3>1. s # ".."
        BY <2>1, Zenon
      <3>. QED  BY <2>1, <3>1, Zenon DEF Enter
    <2>2. CASE s = ".." /\ place = <<"/">>
      <3>1. s \notin {"", "."}
        BY <2>2, Zenon
      <3>2. Last(place) = "/"
        BY <2>2 DEF Last
      <3>. QED  BY <2>2, <3>1, <3>2, Zenon DEF Enter
    <2>3. CASE s = ".." /\ place # <<>> /\ Last(place) \notin {"..", "/"}
      BY <1>3, <2>3, Zenon
    <2>4. CASE /\ s \notin {"", "."} /\ ~(s = ".." /\ place = <<"/">>)
               /\ ~(s = ".." /\ place # <<>> /\ Last(place) \notin {"..", "/"})
      BY <2>4, Zenon DEF Enter
    <2>. QED  BY <2>1, <2>2, <2>3, <2>4, Zenon
  <1>. QED  BY <1>1, <1>2, <1>3, <1>4, <1>5, Zenon

\* Whoever is outside the repository stays outside.
LEMMA LostStays ==
    ASSUME NEW Segment, NEW place \in Seq(Segment), NEW s \in Segment, Lost(place)
    PROVE  Lost(Enter(place, s))
  <1> DEFINE N == Len(place)
  <1>1. N \in Nat /\ N # 0
    BY DEF Lost
  <1>2. CASE Enter(place, s) = place
    BY <1>2
  <1>3. CASE Enter(place, s) = Append(place, s)
    <2>1. Append(place, s) # <<>> /\ Append(place, s)[1] = place[1]
      <3>1. 1 \in 1..N
        BY <1>1
      <3>. QED  BY <3>1, AppendProperties
    <2>. QED  BY <1>3, <2>1, Zenon DEF Lost
  <1>4. CASE Enter(place, s) = Front(place) /\ place # <<>> /\ Last(place) \notin {"..", "/"}
    <2>1. N # 1
      BY <1>4 DEF Lost, Last
    <2>2. Front(place) \in Seq(Segment) /\ Len(Front(place)) = N - 1 /\ \A k \in 1..(N - 1) : Front(place)[k] = place[k]
      BY <1>4, FrontType
    <2>3. 1 \in 1..(N - 1) /\ N - 1 # 0
      <3> HIDE DEF N
      <3>. QED  BY <1>1, <2>1
    <2>4. Front(place) # <<>> /\ Front(place)[1] = place[1]
      <3> HIDE DEF N
      <3>1. Len(Front(place)) # 0
        BY <2>2, <2>3
      <3>. QED  BY <2>2, <2>3, <3>1
    <2>. QED  BY <1>4, <2>4, Zenon DEF Lost
  <1>. QED  BY <1>2, <1>3, <1>4, EnterCases, Zenon

\* Where a link leads after k of its segments.
Way(dir, path, k) == Normal(dir \o SubSeq(path, 1, k))

LEMMA ConcatAppend ==
    ASSUME NEW T, NEW s \in Seq(T), NEW t \in Seq(T), NEW e \in T
    PROVE  s \o Append(t, e) = Append(s \o t, e)
  OBVIOUS

LEMMA WayNext ==
    ASSUME NEW Segment, NEW dir \in Seq(Segment), NEW path \in Seq(Segment), NEW k \in Nat, k + 1 <= Len(path)
    PROVE  /\ path[k + 1] \in Segment
           /\ Way(dir, path, k) \in Seq(Segment)
           /\ Way(dir, path, k + 1) = Enter(Way(dir, path, k), path[k + 1])
  <1> DEFINE part == SubSeq(path, 1, k)
             s == path[k + 1]
             so == dir \o part
  <1>1. part \in Seq(Segment) /\ s \in Segment /\ SubSeq(path, 1, k + 1) = Append(part, s)
    BY SubSeqNext
  <1> HIDE DEF part, s
  <1>2. so \in Seq(Segment)
    BY <1>1, ConcatProperties
  <1>3. dir \o Append(part, s) = Append(so, s)
    BY <1>1, ConcatAppend
  <1> HIDE DEF so
  <1>4. Normal(so) \in Seq(Segment) /\ Normal(Append(so, s)) = Enter(Normal(so), s)
    BY <1>1, <1>2, NormalAppend
  <1>. QED  BY <1>1, <1>3, <1>4 DEF Way, so, part, s

LEMMA WayStart ==
    ASSUME NEW Segment, NEW dir \in Seq(Segment), \A i \in DOMAIN dir : Names(dir[i]), NEW path \in Seq(Segment)
    PROVE  Way(dir, path, 0) = dir /\ Way(dir, path, Len(path)) = Normal(dir \o path)
  <1>1. SubSeq(path, 1, 0) = <<>> /\ SubSeq(path, 1, Len(path)) = path
    BY SubSeqEmpty, SubSeqFull
  <1>2. dir \o <<>> = dir
    BY ConcatEmptySeq
  <1>3. Normal(dir) = dir
    BY NormalOfPlain
  <1>. QED  BY <1>1, <1>2, <1>3 DEF Way

\* Once outside, a link leads outside.
LEMMA LostForever ==
    ASSUME NEW Segment, NEW dir \in Seq(Segment), NEW path \in Seq(Segment),
           NEW k \in 0..Len(path), Lost(Way(dir, path, k))
    PROVE  \A n \in k..Len(path) : Lost(Way(dir, path, n))
  <1> DEFINE N == Len(path)
             S == {j \in Nat : k + j <= N => Lost(Way(dir, path, k + j))}
  <1>1. N \in Nat /\ k \in Nat
    OBVIOUS
  <1>2. 0 \in S
    BY <1>1
  <1>3. ASSUME NEW j \in Nat, j \in S PROVE j + 1 \in S
    <2> SUFFICES ASSUME k + (j + 1) <= N PROVE Lost(Way(dir, path, k + (j + 1)))
      OBVIOUS
    <2> DEFINE n == k + j
    <2>1. n \in Nat /\ n + 1 <= N /\ k + (j + 1) = n + 1 /\ Lost(Way(dir, path, n))
      BY <1>1, <1>3
    <2> HIDE DEF n
    <2>2. /\ path[n + 1] \in Segment /\ Way(dir, path, n) \in Seq(Segment)
          /\ Way(dir, path, n + 1) = Enter(Way(dir, path, n), path[n + 1])
      BY <2>1, WayNext
    <2>3. Lost(Enter(Way(dir, path, n), path[n + 1]))
      BY <2>1, <2>2, LostStays
    <2>. QED  BY <2>1, <2>2, <2>3
  <1>4. \A j \in Nat : j \in S
    <2> HIDE DEF S
    <2>. QED  BY <1>2, <1>3, AllNumbers
  <1>5. ASSUME NEW n \in k..N PROVE Lost(Way(dir, path, n))
    <2>1. n - k \in Nat /\ k + (n - k) = n /\ n <= N
      BY <1>1
    <2>2. n - k \in S
      BY <1>4, <2>1
    <2>. QED  BY <2>1, <2>2
  <1>. QED  BY <1>5

\* Places inside the repository, and the links whose way stays among them or
\* ends outside.
AreInside(places) == \A p \in places : \A i \in DOMAIN p : InsideName(p[i])
StaysAmong(places, dir, path) == \A k \in 0..Len(path) : Way(dir, path, k) \in places \/ Lost(Way(dir, path, k))

\* One step of the reference is a step of Path.resolve.
Goes(place, s) == CASE s = "." -> place
                    [] s = ".." -> IF place = <<>> THEN <<"..">> ELSE Front(place)
                    [] OTHER -> Append(place, s)

LEMMA InsideFacts ==
    ASSUME NEW Segment, NEW places \in SUBSET Seq(Segment), AreInside(places), NEW place \in places
    PROVE  /\ ~Lost(place)
           /\ \A i \in DOMAIN place : Names(place[i])
           /\ place # <<>> => Last(place) \notin {"..", "/"}
  <1> DEFINE N == Len(place)
  <1>1. N \in Nat /\ DOMAIN place = 1..N
    BY SeqElements
  <1>2. \A i \in 1..N : Names(place[i]) /\ place[i] # ".." /\ place[i] # "/"
    BY <1>1, Zenon DEF AreInside, InsideName, Names
  <1>3. place # <<>> => 1 \in 1..N /\ N \in 1..N
    <2>1. place # <<>> => N # 0
      OBVIOUS
    <2> HIDE DEF N
    <2>. QED  BY <1>1, <2>1
  <1>. QED  BY <1>1, <1>2, <1>3, Zenon DEF Lost, Last

LEMMA GoesIsEnter ==
    ASSUME NEW Segment, NEW places \in SUBSET Seq(Segment), AreInside(places), NEW place \in places,
           NEW s, Given(s)
    PROVE  Enter(place, s) = Goes(place, s)
  <1>1. place # <<>> => Last(place) \notin {"..", "/"}
    BY InsideFacts
  <1>2. CASE s = "."
    BY <1>2, EnterCases, Zenon DEF Goes
  <1>3. CASE s = ".."
    <2>1. ".." # "."
      OBVIOUS
    <2>2. Goes(place, s) = IF place = <<>> THEN <<"..">> ELSE Front(place)
      BY <1>3, <2>1, Zenon DEF Goes
    <2>. QED  BY <1>1, <1>3, <2>2, EnterCases, Zenon
  <1>4. CASE s # "." /\ s # ".."
    BY <1>4, EnterCases, Zenon DEF Goes
  <1>. QED  BY <1>2, <1>3, <1>4

\* A walk of the reference along a path of n segments.
IsWalk(walk, places, dir, path, n, to) ==
    /\ walk \in [1..(n + 1) -> places]
    /\ walk[1] = dir /\ walk[n + 1] = to
    /\ \A k \in 1..n : walk[k + 1] = Goes(walk[k], path[k])

LEMMA FollowsByGoing ==
    ASSUME NEW Segment, NEW path \in Seq(Segment), NEW places, NEW dir, NEW to
    PROVE  Follows(places, dir, path, to) <=> \E walk : IsWalk(walk, places, dir, path, Len(path), to)
  <1>1. DOMAIN path = 1..Len(path)
    OBVIOUS
  <1>. QED  BY <1>1, Zenon DEF Follows, Goes, IsWalk

\* What the reference reaches is what Path.resolve makes of the path.
LEMMA FollowsIsNormal ==
    ASSUME NEW Segment, NEW places \in SUBSET Seq(Segment), AreInside(places), NEW dir \in places,
           NEW path \in Seq(Segment), \A k \in DOMAIN path : Given(path[k]),
           StaysAmong(places, dir, path), NEW to \in places
    PROVE  Follows(places, dir, path, to) <=> Normal(dir \o path) = to
  <1> DEFINE N == Len(path)
             at(k) == Way(dir, path, k)
  <1>1. N \in Nat /\ DOMAIN path = 1..N /\ dir \in Seq(Segment)
    BY SeqElements
  <1>2. at(0) = dir /\ at(N) = Normal(dir \o path)
    BY <1>1, InsideFacts, WayStart
  <1>3. ASSUME NEW k \in 1..N PROVE at(k) = Enter(at(k - 1), path[k]) /\ Given(path[k])
    <2> DEFINE j == k - 1
    <2>1. j \in Nat /\ j + 1 = k /\ j + 1 <= N
      BY <1>1
    <2> HIDE DEF j
    <2>2. Way(dir, path, j + 1) = Enter(Way(dir, path, j), path[j + 1])
      BY <1>1, <2>1, WayNext
    <2>3. Given(path[k])
      BY <1>1
    <2>. QED  BY <2>1, <2>2, <2>3 DEF j
  <1>4. ASSUME NEW place \in places, NEW k \in 1..N PROVE Enter(place, path[k]) = Goes(place, path[k])
    BY <1>3, GoesIsEnter
  <1> HIDE DEF at, N
  <1>5. ASSUME NEW walk, IsWalk(walk, places, dir, path, N, to) PROVE at(N) = to
    <2>0. /\ walk \in [1..(N + 1) -> places] /\ walk[1] = dir /\ walk[N + 1] = to
          /\ \A k \in 1..N : walk[k + 1] = Goes(walk[k], path[k])
      BY <1>5 DEF IsWalk
    <2> DEFINE S == {n \in Nat : n <= N => walk[n + 1] = at(n)}
    <2>1. 0 \in S
      BY <1>2, <2>0
    <2>2. ASSUME NEW n \in Nat, n \in S PROVE n + 1 \in S
      <3> SUFFICES ASSUME n + 1 <= N PROVE walk[(n + 1) + 1] = at(n + 1)
        OBVIOUS
      <3> DEFINE k == n + 1
      <3>1. k \in 1..N /\ k \in 1..(N + 1) /\ k - 1 = n /\ walk[k] = at(n)
        BY <1>1, <2>2
      <3> HIDE DEF k
      <3>2. walk[k] \in places
        BY <2>0, <3>1
      <3>3. walk[k + 1] = Goes(walk[k], path[k])
        BY <2>0, <3>1
      <3>4. Goes(walk[k], path[k]) = Enter(walk[k], path[k])
        BY <1>4, <3>1, <3>2
      <3>5. at(k) = Enter(at(k - 1), path[k])
        BY <1>3, <3>1
      <3>. QED  BY <3>1, <3>3, <3>4, <3>5 DEF k
    <2>3. \A n \in Nat : n \in S
      <3> HIDE DEF S
      <3>. QED  BY <2>1, <2>2, AllNumbers
    <2>. QED  BY <1>1, <2>0, <2>3
  <1>6. ASSUME at(N) = to PROVE \E walk : IsWalk(walk, places, dir, path, N, to)
    <2>1. ~Lost(at(N))
      BY <1>6, InsideFacts
    <2>2. \A k \in 0..N : ~Lost(at(k))
      <3>1. ASSUME NEW k \in 0..N, Lost(at(k)) PROVE Lost(at(N))
        <4>1. N \in k..N
          BY <1>1
        <4>. QED  BY <3>1, <4>1, <1>1, LostForever DEF at, N
      <3>. QED  BY <2>1, <3>1
    <2>3. \A k \in 0..N : at(k) \in places
      BY <2>2 DEF StaysAmong, at, N
    <2> DEFINE walk == [i \in 1..(N + 1) |-> at(i - 1)]
    <2>4. walk \in [1..(N + 1) -> places]
      <3>1. \A i \in 1..(N + 1) : i - 1 \in 0..N
        BY <1>1
      <3>. QED  BY <2>3, <3>1
    <2>5. walk[1] = dir /\ walk[N + 1] = to
      BY <1>1, <1>2, <1>6
    <2>6. ASSUME NEW k \in 1..N PROVE walk[k + 1] = Goes(walk[k], path[k])
      <3>1. k \in 1..(N + 1) /\ k + 1 \in 1..(N + 1) /\ k - 1 \in 0..N /\ (k + 1) - 1 = k
        BY <1>1
      <3>2. walk[k] = at(k - 1) /\ walk[k + 1] = at(k)
        BY <3>1
      <3>3. at(k) = Goes(at(k - 1), path[k])
        BY <1>3, <1>4, <2>3, <3>1
      <3>. QED  BY <3>2, <3>3
    <2> HIDE DEF walk
    <2>. QED  BY <2>4, <2>5, <2>6, Zenon DEF IsWalk
  <1>7. Follows(places, dir, path, to) <=> \E walk : IsWalk(walk, places, dir, path, N, to)
    BY FollowsByGoing DEF N
  <1>8. Follows(places, dir, path, to) <=> at(N) = to
    BY <1>5, <1>6, <1>7, Zenon
  <1>. QED  BY <1>2, <1>8, Zenon

\* An absolute path ends outside the repository, and the reference ends there
\* too.
LEMMA AbsoluteIsLost ==
    ASSUME NEW Segment, NEW places \in SUBSET Seq(Segment), AreInside(places), NEW dir \in places,
           NEW path \in Seq(Segment), path # <<>>, Head(path) = "/", NEW to \in places
    PROVE  /\ Lost(Normal(path))
           /\ ~Follows(places, dir, path, to)
  <1> DEFINE N == Len(path)
             s == path[1]
  <1>1. N \in Nat /\ N # 0 /\ 1 \in 1..N /\ 1 \in 0..N /\ s = "/" /\ s \in Segment
    <2>1. Head(path) = path[1] /\ N \in Nat /\ N # 0
      OBVIOUS
    <2>. QED  BY <2>1
  <1>2. Given(s) /\ s # "." /\ s # ".."
    BY <1>1, Zenon DEF Given
  <1>3. Lost(Normal(path))
    <2>1. Way(<<>>, path, 0) = <<>> /\ Way(<<>>, path, N) = Normal(path)
      <3>1. <<>> \in Seq(Segment) /\ DOMAIN <<>> = {}
        OBVIOUS
      <3>2. Way(<<>>, path, 0) = <<>> /\ Way(<<>>, path, N) = Normal(<<>> \o path)
        BY <3>1, WayStart
      <3>. QED  BY <3>2, ConcatEmptySeq
    <2>2. Way(<<>>, path, 1) = Append(<<>>, s)
      <3>1. Way(<<>>, path, 0 + 1) = Enter(Way(<<>>, path, 0), path[0 + 1])
        <4>1. <<>> \in Seq(Segment) /\ 0 + 1 <= Len(path) /\ 0 \in Nat
          BY <1>1
        <4>. QED  BY <4>1, WayNext
      <3>2. Enter(<<>>, s) = Append(<<>>, s)
        BY <1>2, EnterCases, Zenon
      <3>. QED  BY <2>1, <3>1, <3>2
    <2>3. Lost(Append(<<>>, s))
      <3>1. <<>> \in Seq(Segment) /\ Len(<<>>) = 0
        OBVIOUS
      <3>2. Append(<<>>, s) # <<>> /\ Append(<<>>, s)[0 + 1] = s
        BY <1>1, <3>1, AppendProperties
      <3>. QED  BY <1>1, <3>2 DEF Lost
    <2>4. Lost(Way(<<>>, path, N))
      <3>1. <<>> \in Seq(Segment) /\ N \in 1..N
        BY <1>1
      <3>. QED  BY <1>1, <2>2, <2>3, <3>1, LostForever
    <2>. QED  BY <2>1, <2>4
  <1>4. ASSUME Follows(places, dir, path, to) PROVE FALSE
    <2>1. PICK walk \in [1..(N + 1) -> places] :
             walk[1] = dir /\ \A k \in 1..N : walk[k + 1] = Goes(walk[k], path[k])
      <3>1. PICK walk : IsWalk(walk, places, dir, path, N, to)
        BY <1>4, FollowsByGoing
      <3>. QED  BY <3>1 DEF IsWalk
    <2>2. walk[1 + 1] = Goes(dir, s) /\ walk[1 + 1] \in places
      <3>1. 1 + 1 \in 1..(N + 1)
        BY <1>1
      <3>. QED  BY <1>1, <2>1, <3>1
    <2>3. Goes(dir, s) = Append(dir, s)
      BY <1>2, Zenon DEF Goes
    <2> DEFINE place == Append(dir, s)
    <2>4. place \in places /\ dir \in Seq(Segment)
      BY <2>2, <2>3
    <2>5. Len(dir) \in Nat /\ Len(dir) + 1 \in DOMAIN place /\ place[Len(dir) + 1] = "/"
      BY <1>1, <2>4
    <2> HIDE DEF place
    <2>6. InsideName(place[Len(dir) + 1])
      BY <2>4, <2>5 DEF AreInside
    <2>. QED  BY <2>5, <2>6, Zenon DEF InsideName
  <1>. QED  BY <1>3, <1>4

\* The way up from a file finds an AGENTS.md exactly when there is one in a
\* directory above the file.
LEMMA ContextIsAbove ==
    ASSUME NEW Segment, NEW source \in Seq(Segment), source # <<>>, NEW agents \in SUBSET Seq(Segment)
    PROVE  HasContext(source, agents) <=> \E a \in agents : IsStrictPrefix(a, source)
  <1> DEFINE N == Len(source)
  <1>1. N \in Nat /\ N # 0 /\ 0 \in 0..(N - 1) /\ \A k \in 1..N : source[k] \in Segment
    <2>1. N \in Nat /\ N # 0 /\ \A k \in 1..N : source[k] \in Segment
      OBVIOUS
    <2> HIDE DEF N
    <2>. QED  BY <2>1
  <1>2. ASSUME NEW a \in agents, IsStrictPrefix(a, source)
        PROVE  \E k \in 0..(N - 1) : SubSeq(source, 1, k) \in agents
    <2> DEFINE k == Len(a)
    <2>1. k \in Nat /\ SubSeq(a, 1, k) = a
      BY SubSeqFull
    <2>2. k <= N /\ SubSeq(a, 1, k) = SubSeq(source, 1, k) /\ a # source
      BY <1>2, Zenon DEF IsStrictPrefix, IsPrefix
    <2>3. k # N
      <3>1. SubSeq(source, 1, N) = source
        BY SubSeqFull
      <3> HIDE DEF k, N
      <3>. QED  BY <2>1, <2>2, <3>1
    <2> HIDE DEF k, N
    <2>4. k \in 0..(N - 1)
      BY <1>1, <2>1, <2>2, <2>3
    <2>5. SubSeq(source, 1, k) = a
      BY <2>1, <2>2
    <2>. QED  BY <2>4, <2>5
  <1>3. ASSUME NEW k \in 0..(N - 1), SubSeq(source, 1, k) \in agents
        PROVE  \E a \in agents : IsStrictPrefix(a, source)
    <2> DEFINE a == SubSeq(source, 1, k)
    <2>1. Len(a) = k
      <3> HIDE DEF N
      <3>1. k \in Int /\ \A i \in 1..k : source[i] \in Segment
        BY <1>1
      <3>2. a \in Seq(Segment) /\ Len(a) = IF 1 <= k THEN k - 1 + 1 ELSE 0
        BY <3>1, SubSeqProperties
      <3>. QED  BY <1>1, <3>2
    <2>2. a \in Seq(Segment)
      <3> HIDE DEF N
      <3>1. k \in Int /\ \A i \in 1..k : source[i] \in Segment
        BY <1>1
      <3>. QED  BY <3>1, SubSeqProperties
    <2>3. SubSeq(a, 1, Len(a)) = a
      BY <2>2, SubSeqFull
    <2>4. Len(a) <= N /\ Len(a) # N
      <3> HIDE DEF N, a
      <3>. QED  BY <1>1, <2>1
    <2>5. IsStrictPrefix(a, source)
      <3>1. SubSeq(a, 1, Len(a)) = SubSeq(source, 1, Len(a))
        BY <2>1, <2>3, Zenon
      <3> HIDE DEF a
      <3>. QED  BY <2>4, <3>1, Zenon DEF IsStrictPrefix, IsPrefix
    <2>. QED  BY <1>3, <2>5, Zenon
  <1>. QED  BY <1>2, <1>3, Zenon DEF HasContext

\* A link of a documentation file in one of the places.
IsLink(l, Segment, places) ==
    /\ l.form \in {"plain", "scheme", "fragment", "blank"}
    /\ l.form = "plain" =>
         /\ l.dir \in places
         /\ l.path \in Seq(Segment) /\ l.path # <<>> /\ \A k \in DOMAIN l.path : Given(l.path[k])
         /\ Head(l.path) # "/" => StaysAmong(places, l.dir, l.path)

LEMMA LinksAreFollowed ==
    ASSUME NEW Segment, NEW places \in SUBSET Seq(Segment), AreInside(places), NEW existing \in SUBSET places,
           NEW l, IsLink(l, Segment, places)
    PROVE  LinkLeads(l, places, existing) <=> l.form # "blank" /\ ~LinkBroken(l, existing)
  <1>1. CASE l.form \in {"scheme", "fragment"}
    <2>1. l.form # "blank" /\ ~IsLocal(l)
      BY <1>1 DEF IsLocal
    <2>. QED  BY <1>1, <2>1, Zenon DEF LinkLeads, LinkBroken
  <1>2. CASE l.form = "blank"
    BY <1>2 DEF LinkLeads
  <1>3. CASE l.form = "plain"
    <2>1. /\ l.dir \in places
          /\ l.path \in Seq(Segment) /\ l.path # <<>> /\ \A k \in DOMAIN l.path : Given(l.path[k])
          /\ Head(l.path) # "/" => StaysAmong(places, l.dir, l.path)
      BY <1>3, Zenon DEF IsLink
    <2>2. IsLocal(l) /\ l.form # "blank" /\ l.form \notin {"scheme", "fragment"}
      BY <1>3, <2>1 DEF IsLocal
    <2>3. LinkLeads(l, places, existing) <=> \E e \in existing : Follows(places, l.dir, l.path, e)
      BY <1>3, <2>2, Zenon DEF LinkLeads
    <2>4. LinkBroken(l, existing) <=> LinkTarget(l) \notin existing
      BY <2>2, Zenon DEF LinkBroken
    <2>5. CASE Head(l.path) = "/"
      <3>1. LinkTarget(l) = Normal(<<>> \o l.path) /\ <<>> \o l.path = l.path
        BY <2>1, <2>5, ConcatEmptySeq DEF LinkTarget
      <3>2. \A e \in existing : Lost(Normal(l.path)) /\ ~Follows(places, l.dir, l.path, e) /\ ~Lost(e)
        BY <2>1, <2>5, AbsoluteIsLost, InsideFacts
      <3>. QED  BY <2>2, <2>3, <2>4, <3>1, <3>2, Zenon
    <2>6. CASE Head(l.path) # "/"
      <3>1. LinkTarget(l) = Normal(l.dir \o l.path)
        BY <2>6 DEF LinkTarget
      <3>2. \A e \in existing : Follows(places, l.dir, l.path, e) <=> Normal(l.dir \o l.path) = e
        BY <2>1, <2>6, FollowsIsNormal
      <3>. QED  BY <2>2, <2>3, <2>4, <3>1, <3>2, Zenon
    <2>. QED  BY <2>5, <2>6
  <1>. QED  BY <1>1, <1>2, <1>3, Zenon DEF IsLink

\* check-doc-context.py judges any tree right whose links lead through known
\* places of the repository or leave it: it exits with 0 exactly when there is
\* a src directory, every link leads to something that exists and every source
\* file has an AGENTS.md in a directory above it.
THEOREM DocumentationIsJudged ==
    ASSUME NEW Segment, NEW places \in SUBSET Seq(Segment), AreInside(places),
           NEW tree, tree.existing \subseteq places, tree.agents \subseteq Seq(Segment),
           \A l \in tree.links : IsLink(l, Segment, places),
           \A s \in tree.sources : s \in Seq(Segment) /\ s # <<>>
    PROVE  DocsJudged(tree, places)
  <1> DEFINE linked == \A l \in tree.links : LinkLeads(l, places, tree.existing)
             covered == \A s \in tree.sources : HasContext(s, tree.agents)
             present == <<"src">> \in tree.existing
  <1>1. \A l \in tree.links :
           LinkLeads(l, places, tree.existing) <=> l.form # "blank" /\ ~LinkBroken(l, tree.existing)
    BY LinksAreFollowed
  <1>2. DocContextExit(tree) = 0 <=> present /\ linked /\ covered
    <2> DEFINE bad == \/ \E l \in tree.links : l.form = "blank"
                      \/ \E l \in tree.links : LinkBroken(l, tree.existing)
                      \/ <<"src">> \notin tree.existing
                      \/ \E s \in tree.sources : ~HasContext(s, tree.agents)
    <2>1. DocContextExit(tree) = IF bad THEN 1 ELSE 0
      BY Zenon DEF DocContextExit
    <2>2. bad <=> ~(present /\ linked /\ covered)
      BY <1>1, Zenon
    <2> HIDE DEF bad, linked, covered, present
    <2>. QED  BY <2>1, <2>2
  <1>3. \A s \in tree.sources : HasContext(s, tree.agents) <=> \E a \in tree.agents : IsStrictPrefix(a, s)
    BY ContextIsAbove
  <1>. QED  BY <1>2, <1>3, Zenon DEF DocsJudged

-----------------------------------------------------------------------------
(* The inputs that TLC enumerates *)

\* The segments of the patterns that TLC enumerates.
RawSegment == {"**", "src", "main", "..", "", "order", "docs", ".", "a", "api", Wild}

LEMMA RawPatternType == RawPatterns \subseteq (Seq(RawSegment) \ {<<>>}) \cup {Blank}
  <1>1. ASSUME NEW a \in RawSegment, NEW b \in RawSegment, NEW c \in RawSegment
        PROVE  {<<a>>, <<a, b>>, <<a, b, c>>} \subseteq Seq(RawSegment) \ {<<>>}
    <2>1. <<a>> \in Seq(RawSegment) /\ <<a, b>> \in Seq(RawSegment) /\ <<a, b, c>> \in Seq(RawSegment)
      BY ShortTuples, Zenon
    <2>2. <<a>> # <<>> /\ <<a, b>> # <<>> /\ <<a, b, c>> # <<>>
      OBVIOUS
    <2>. QED  BY <2>1, <2>2, Zenon
  <1>2. /\ "**" \in RawSegment /\ "src" \in RawSegment /\ "main" \in RawSegment /\ ".." \in RawSegment
        /\ "" \in RawSegment /\ "order" \in RawSegment /\ "docs" \in RawSegment /\ "." \in RawSegment
        /\ "a" \in RawSegment /\ Wild \in RawSegment
    BY Zenon DEF RawSegment
  <1> DEFINE Text == (Seq(RawSegment) \ {<<>>}) \cup {Blank}
  <1>3. \A a, b, c \in RawSegment : <<a>> \in Text /\ <<a, b>> \in Text /\ <<a, b, c>> \in Text
    BY <1>1
  <1> HIDE DEF Text
  <1>4. <<"**">> \in Text /\ <<"src", "**">> \in Text /\ <<"src", "main">> \in Text
    BY <1>2, <1>3, Zenon
  <1>5. <<"src", "..", "**">> \in Text /\ <<"", "src">> \in Text
    BY <1>2, <1>3, Zenon
  <1>6. <<"src", "order", "**">> \in Text /\ <<"src", "**", "**">> \in Text
    BY <1>2, <1>3, Zenon
  <1>7. <<"docs", ".", "a">> \in Text /\ <<Wild, "a">> \in Text
    BY <1>2, <1>3, Zenon
  <1>8. Blank \in Text
    BY Zenon DEF Text
  <1>. QED  BY <1>4, <1>5, <1>6, <1>7, <1>8, Zenon DEF RawPatterns, Text

LEMMA ListType ==
    ASSUME NEW S, NEW list \in Lists(S)
    PROVE  list \in Seq(S)
  <1>1. CASE list = <<>>
    BY <1>1
  <1>2. ASSUME NEW x \in S, list = <<x>> PROVE list \in Seq(S)
    BY <1>2
  <1>3. ASSUME NEW x \in S, NEW y \in S, list = <<x, y>> PROVE list \in Seq(S)
    BY <1>3
  <1>. QED  BY <1>1, <1>2, <1>3 DEF Lists

\* Every plan that TLC enumerates is of the right type.
LEMMA DocType ==
    ASSUME NEW doc \in Docs
    PROVE  /\ doc.issue \in Int /\ doc.hash # Blank
           /\ doc.allowed \in Seq((Seq(RawSegment) \ {<<>>}) \cup {Blank})
  <1> DEFINE Text == (Seq(RawSegment) \ {<<>>}) \cup {Blank}
             Allowed1 == {<< <<"src", "order", "**">> >>} \cup Lists(RawPatterns)
  <1>1. doc.issue \in {0, 7, 8} /\ doc.hash = GoodDoc.hash /\ doc.allowed \in Allowed1
    <2> DEFINE C == Lists([path : {<<"docs", "api">>, <<"docs", "**">>, <<Wild>>}, version : {0, 1}])
               T == Lists({"text", Blank})
               N == {<<>>, <<"text">>, <<Blank>>}
               D1 == {Headed(f, i, t, o) :
                        f \in BOOLEAN, i \in {0, 7, 8}, t \in {"main", "dev", Blank}, o \in {"text", Blank}}
               D2 == {Scoped(a, r) : a \in Lists(RawPatterns), r \in Lists({"api", "unknown"})}
               D3 == {Detailed(c, t, n) : c \in C, t \in T, n \in N}
    <2>1. CASE doc \in D1
      <3>1. PICK f \in BOOLEAN, i \in {0, 7, 8}, t \in {"main", "dev", Blank}, o \in {"text", Blank} :
                   doc = Headed(f, i, t, o)
        BY <2>1
      <3>2. doc.issue = i /\ doc.hash = GoodDoc.hash /\ doc.allowed = GoodDoc.allowed
        BY <3>1 DEF GoodDoc, Headed, Scoped, Detailed
      <3>3. GoodDoc.allowed = << <<"src", "order", "**">> >>
        BY DEF GoodDoc
      <3>. QED  BY <3>2, <3>3, Zenon
    <2>2. CASE doc \in D2
      <3>1. PICK a \in Lists(RawPatterns), r \in Lists({"api", "unknown"}) :
                   doc = Scoped(a, r)
        BY <2>2
      <3>2. doc.issue = 7 /\ doc.hash = GoodDoc.hash /\ doc.allowed = a
        BY <3>1 DEF GoodDoc, Headed, Scoped, Detailed
      <3>. QED  BY <3>2, Zenon
    <2>3. CASE doc \in D3
      <3> HIDE DEF C, T, N
      <3>1. PICK c \in C, t \in T, n \in N :
                   doc = Detailed(c, t, n)
        BY <2>3
      <3>2. doc.issue = 7 /\ doc.hash = GoodDoc.hash /\ doc.allowed = GoodDoc.allowed
        BY <3>1 DEF GoodDoc, Headed, Scoped, Detailed
      <3>3. GoodDoc.allowed = << <<"src", "order", "**">> >>
        BY DEF GoodDoc
      <3>. QED  BY <3>2, <3>3, Zenon
    <2>4. Docs = D1 \cup D2 \cup D3
      BY DEF Docs
    <2> HIDE DEF D1, D2, D3
    <2>. QED  BY <2>1, <2>2, <2>3, <2>4, Zenon
  <1>2. << <<"src", "order", "**">> >> \in Lists(RawPatterns)
    <2>1. <<"src", "order", "**">> \in RawPatterns
      BY Zenon DEF RawPatterns
    <2>. QED  BY <2>1, Zenon DEF Lists
  <1>3. doc.allowed \in Seq(RawPatterns)
    BY <1>1, <1>2, ListType
  <1>4. doc.allowed \in Seq(Text)
    <2>1. RawPatterns \subseteq Text
      BY RawPatternType
    <2> HIDE DEF Text
    <2>2. \A T, U : T \subseteq U => Seq(T) \subseteq Seq(U)
      OBVIOUS
    <2>. QED  BY <1>3, <2>1, <2>2, Zenon
  <1>5. doc.issue \in Int
    BY <1>1
  <1>. QED  BY <1>1, <1>4, <1>5, HashAssumption

LEMMA InputsStay == Spec => []Init
  <1>1. Init /\ [Next]_input => Init'
    BY DEF Next, Init
  <1>. QED  BY <1>1, PTL DEF Spec

\* The kind of an input says which set it is from.
LEMMA InputOfKind ==
    ASSUME Init
    PROVE  /\ Is("counts") => input \in CountInputs
           /\ Is("change") => input \in ChangeInputs
           /\ Is("run") => input \in RunInputs
           /\ Is("results") => input \in ResultInputs
           /\ Is("plan") => input \in PlanInputs
           /\ Is("policy") => input \in PolicyInputs
           /\ Is("stream") => input \in StreamInputs
           /\ Is("doc") => input \in DocInputs
  <1>1. input \in CountInputs => input.kind = "counts"
    BY DEF CountInputs
  <1>2. input \in ChangeInputs => input.kind = "change"
    BY DEF ChangeInputs
  <1>3. input \in RunInputs => input.kind = "run"
    BY DEF RunInputs
  <1>4. input \in ResultInputs => input.kind = "results"
    BY DEF ResultInputs
  <1>5. input \in PlanInputs => input.kind = "plan"
    BY DEF PlanInputs
  <1>6. input \in PolicyInputs => input.kind = "policy"
    BY DEF PolicyInputs
  <1>7. input \in StreamInputs => input.kind = "stream"
    BY DEF StreamInputs
  <1>8. input \in DocInputs => input.kind = "doc"
    BY DEF DocInputs
  <1>. QED  BY <1>1, <1>2, <1>3, <1>4, <1>5, <1>6, <1>7, <1>8 DEF Init, Is

\* Both rankings of popular menus are right and agree on the counts TLC
\* enumerates (BothRankingsAreRight).
THEOREM RankingsRight == Spec => []RankingIsRight
  <1>1. Init => RankingIsRight
    <2> SUFFICES ASSUME Init, Is("counts") PROVE RanksBoth(input.counts)
      BY DEF RankingIsRight
    <2>1. input.counts \in [Menus -> Nat]
      BY InputOfKind, MenusAssumption DEF CountInputs
    <2>. QED  BY <2>1, MenusAssumption, BothRankingsAreRight
  <1>. QED  BY <1>1, InputsStay, PTL

\* The inline part of evaluate judges every path by itself, for the change
\* sets TLC enumerates (GateJudgesPathwise).
THEOREM GateRight == Spec => []GateIsPathwise
  <1>1. GateIsPathwise
    BY GateJudgesPathwise DEF GateIsPathwise
  <1>. QED  BY <1>1, PTL

\* Every risk of a change set that TLC enumerates brings its checks
\* (RisksBringChecks).
THEOREM ChecksRequested == Spec => []EveryRiskIsChecked
  <1>1. EveryRiskIsChecked
    BY RisksBringChecks DEF EveryRiskIsChecked
  <1>. QED  BY <1>1, PTL

\* The runner's results for the two policies are complete and fail closed
\* (RunnersFailClosed).
THEOREM RunnerRight == Spec => []RunnerIsFailClosed
  <1>1. Init => RunnerIsFailClosed
    <2> SUFFICES ASSUME Init, Is("run")
                 PROVE  FailsClosed(RequestedBy({}, PlanWith(input.risks), input.policy), input.outcome)
      BY DEF RunnerIsFailClosed
    <2> DEFINE requested == RequestedBy({}, PlanWith(input.risks), input.policy)
    <2>1. /\ input.risks \subseteq {"api", "db"} /\ input.policy \in {ApiPolicy, FreePolicy}
          /\ input.outcome \in [Ids \cup Preflight -> State]
      BY InputOfKind DEF RunInputs, Risks
    <2>2. /\ requested \subseteq {"oracle", "unbuilt", HarnessUnit, GradleTest}
          /\ GradleTest \in requested
      <3>1. ClassifyRisks({}, input.policy, <<"plan">>).detected = {}
        BY DEF ClassifyRisks
      <3>2. requested = ((UNION {input.policy.riskChecks[r] : r \in input.risks}) \ Inline)
                          \cup {HarnessUnit, GradleTest}
        BY <3>1 DEF RequestedBy, RequiredCheckIds, PlanWith
      <3>3. \A r \in input.risks : input.policy.riskChecks[r] \subseteq {"oracle", "inline", "unbuilt"}
        BY <2>1 DEF ApiPolicy, FreePolicy
      <3> HIDE DEF requested
      <3>4. \A c \in requested : c \in {"oracle", "inline", "unbuilt"} \ Inline \/ c \in {HarnessUnit, GradleTest}
        BY <3>2, <3>3
      <3>. QED  BY <3>2, <3>4, IdsAssumption
    <2> HIDE DEF requested
    <2>3. IsFiniteSet({"oracle", "unbuilt", HarnessUnit, GradleTest})
      <3>1. IsFiniteSet({HarnessUnit}) /\ IsFiniteSet({GradleTest}) /\ IsFiniteSet({"oracle"}) /\ IsFiniteSet({"unbuilt"})
        BY FS_Singleton
      <3>2. IsFiniteSet({HarnessUnit} \cup {GradleTest}) /\ IsFiniteSet({"oracle"} \cup {"unbuilt"})
        BY <3>1, FS_Union
      <3>3. IsFiniteSet(({"oracle"} \cup {"unbuilt"}) \cup ({HarnessUnit} \cup {GradleTest}))
        BY <3>2, FS_Union
      <3>4. ({"oracle"} \cup {"unbuilt"}) \cup ({HarnessUnit} \cup {GradleTest})
              = {"oracle", "unbuilt", HarnessUnit, GradleTest}
        OBVIOUS
      <3>. QED  BY <3>3, <3>4
    <2>4. IsFiniteSet(requested)
      BY <2>2, <2>3, FS_Subset
    <2>5. requested \cap Preflight = {}
      BY <2>2, IdsAssumption, GateRulesAssumption
    <2>6. \A id \in requested \cup Preflight : input.outcome[id] \in State
      BY <2>1, <2>2 DEF Ids
    <2>. QED  BY <2>2, <2>4, <2>5, <2>6, RunnersFailClosed DEF requested
  <1>. QED  BY <1>1, InputsStay, PTL

\* A list of results that TLC enumerates is PASS only when it is complete
\* (PassesAreComplete).
THEOREM PassRight == Spec => []PassNeedsEveryCheck
  <1>1. Init => PassNeedsEveryCheck
    <2> SUFFICES ASSUME Init, Is("results")
                 PROVE  PassIsComplete(input.results, RequestedBy({}, PlanWith({"api"}), ApiPolicy))
      BY DEF PassNeedsEveryCheck
    <2> DEFINE Id == {HarnessUnit, GradleTest, "oracle", "extra"} \cup Preflight
    <2>1. PICK n \in 0..MaxResults : input.results \in [1..n -> [id : Id, state : {"PASS", "BLOCKED"}]]
      BY InputOfKind DEF ResultInputs
    <2> HIDE DEF Id
    <2>2. input.results \in [1..n -> [id : Id, state : State]] /\ n \in Nat
      BY <2>1 DEF State
    <2>. QED  BY <2>2, SeqOfLength, PassesAreComplete
  <1>. QED  BY <1>1, InputsStay, PTL

\* Every plan that TLC enumerates and parse_plan accepts is usable
\* (AcceptedPlansAreUsable).
THEOREM PlanRight == Spec => []PreparedPlanIsUsable
  <1>1. Init => PreparedPlanIsUsable
    <2> SUFFICES ASSUME Init, Is("plan")
                 PROVE  Usable(input.doc, input.path, Risks, Context(input.branch), "any file",
                               Paths \cup {<<"docs", "api">>, <<"docs", "any file">>})
      BY Zenon DEF PreparedPlanIsUsable
    <2>1. input.doc \in Docs
      BY InputOfKind DEF PlanInputs
    <2>2. /\ input.doc.issue \in Int /\ input.doc.hash # Blank
          /\ input.doc.allowed \in Seq((Seq(RawSegment) \ {<<>>}) \cup {Blank})
      BY <2>1, DocType
    <2>. QED  BY <2>2, AcceptedPlansAreUsable, Zenon
  <1>. QED  BY <1>1, InputsStay, PTL

\* What load_risk_policy accepts of the policies TLC enumerates lets no risk
\* pass without evidence (RisksAreEvidenced).
THEOREM PolicyRight == Spec => []AcceptedPolicyIsEnforced
  <1>1. Init => AcceptedPolicyIsEnforced
    <2> SUFFICES ASSUME Init, Is("policy"), NEW changed \in SUBSET PolicyPaths,
                        NEW declared \in SUBSET Range(input.policy.knownRisks), NEW outcome \in Outcomes
                 PROVE  RisksHaveEvidence(input.policy, changed, PlanWith(declared), outcome)
      BY Zenon DEF AcceptedPolicyIsEnforced
    <2> DEFINE T == {"api", "db", "oracle", "inline", "unbuilt"}
               Known == {<<>>, <<"api">>, <<"api", "db">>, <<"api", "api">>}
               Checks == {<<>>, <<"oracle">>, <<"inline">>, <<"unbuilt">>, <<"oracle", "oracle">>}
    <2>1. /\ input.policy.knownRisks \in Known
          /\ \E S \in SUBSET Risks : input.policy.riskChecks \in [S -> Checks]
      <3> HIDE DEF Known, Checks
      <3>1. input \in PolicyInputs
        BY InputOfKind
      <3>. QED  BY <3>1 DEF PolicyInputs, Known, Checks
    <2>2. Known \subseteq Seq(T) /\ Checks \subseteq Seq(T)
      <3>1. "api" \in T /\ "db" \in T /\ "oracle" \in T /\ "inline" \in T /\ "unbuilt" \in T
        OBVIOUS
      <3> HIDE DEF T
      <3>2. \A x, y \in T : <<>> \in Seq(T) /\ <<x>> \in Seq(T) /\ <<x, y>> \in Seq(T)
        OBVIOUS
      <3>. QED  BY <3>1, <3>2, Zenon
    <2> HIDE DEF T, Known, Checks
    <2>3. /\ input.policy.knownRisks \in Seq(T)
          /\ \A r \in DOMAIN input.policy.riskChecks : input.policy.riskChecks[r] \in Seq(T)
      BY <2>1, <2>2
    <2>4. PlanWith(declared).declaredRisks \subseteq Range(input.policy.knownRisks)
      BY DEF PlanWith
    <2>5. \A id \in Oracles \cup {HarnessUnit, GradleTest} \cup Preflight : outcome[id] \in State
      BY DEF Outcomes, State
    <2>. QED  BY <2>3, <2>4, <2>5, RisksAreEvidenced
  <1>. QED  BY <1>1, InputsStay, PTL

\* The path lists that TLC enumerates survive their transport
\* (PathListsSurviveTransport).
THEOREM TransportRight == Spec => []PathsSurviveTransport
  <1>1. Init => PathsSurviveTransport
    <2> SUFFICES ASSUME Init, Is("stream")
                 PROVE  SurvivesTransport(input.records, input.kept, input.ended)
      BY DEF PathsSurviveTransport
    <2> DEFINE Path == FileNames
    <2>1. PICK n \in 0..MaxTokens : input.records \in [1..n -> Records]
      BY InputOfKind DEF StreamInputs
    <2>2. input.kept \in 0..6 /\ input.ended \in BOOLEAN
      BY InputOfKind DEF StreamInputs
    <2>3. Records \subseteq RecordsOf(FileNames)
      BY DEF Records, RecordsOf, OnePath, TwoPaths
    <2>4. input.records \in Seq(RecordsOf(FileNames))
      <3>1. n \in Nat /\ input.records \in [1..n -> RecordsOf(FileNames)]
        BY <2>1, <2>3
      <3>. QED  BY <3>1, SeqOfLength
    <2>5. NamedFiles(FileNames)
      BY Zenon DEF NamedFiles, FileNames, NoName
    <2>. QED  BY <2>2, <2>4, <2>5, PathListsSurviveTransport
  <1>. QED  BY <1>1, InputsStay, PTL

\* The segments of the links and files that TLC enumerates.
DocSegment == {"docs", "a", "README", "src", "main", "..", ".", "/", "x", "Root.java", "App.java"}

LEMMA DocSegmentsGiven == \A s \in DocSegment : Given(s)
  BY Zenon DEF DocSegment, Given

LEMMA ShortTuplesType ==
    ASSUME NEW T, NEW x \in T, NEW y \in T, NEW z \in T
    PROVE  <<>> \in Seq(T) /\ <<x>> \in Seq(T) /\ <<x, y>> \in Seq(T) /\ <<x, y, z>> \in Seq(T)
  OBVIOUS

LEMMA PlacesType ==
    Places \in SUBSET Seq(DocSegment) /\ AreInside(Places) /\ Existing \in SUBSET Places
  <1> DEFINE Plain == {"docs", "a", "README", "src", "main"}
  <1>1. \A s \in Plain : InsideName(s)
    BY Zenon DEF InsideName, Names
  <1>2. ASSUME NEW p \in Places PROVE p \in Seq(Plain)
    <2>1. "docs" \in Plain /\ "a" \in Plain /\ "README" \in Plain /\ "src" \in Plain /\ "main" \in Plain
      OBVIOUS
    <2> HIDE DEF Plain
    <2>2. \A x, y, z \in Plain : /\ <<>> \in Seq(Plain) /\ <<x>> \in Seq(Plain)
                                 /\ <<x, y>> \in Seq(Plain) /\ <<x, y, z>> \in Seq(Plain)
      BY ShortTuplesType
    <2>. QED  BY <2>1, <2>2, Zenon DEF Places, Existing
  <1>3. Plain \subseteq DocSegment
    BY DEF DocSegment
  <1> HIDE DEF Plain
  <1>4. ASSUME NEW p \in Seq(Plain) PROVE p \in Seq(DocSegment) /\ \A i \in DOMAIN p : p[i] \in Plain
    BY <1>3
  <1>5. Places \in SUBSET Seq(DocSegment)
    BY <1>2, <1>4
  <1>6. AreInside(Places)
    BY <1>1, <1>2, <1>4, Zenon DEF AreInside
  <1>7. Existing \in SUBSET Places
    BY DEF Places
  <1>. QED  BY <1>5, <1>6, <1>7

\* One segment of a way that is inside.
LEMMA WayGoes ==
    ASSUME NEW dir \in Seq(DocSegment), NEW path \in Seq(DocSegment), NEW k \in Nat, k + 1 <= Len(path),
           Way(dir, path, k) \in Places
    PROVE  Way(dir, path, k + 1) = Goes(Way(dir, path, k), path[k + 1])
  <1>1. /\ path[k + 1] \in DocSegment
        /\ Way(dir, path, k + 1) = Enter(Way(dir, path, k), path[k + 1])
    BY WayNext
  <1>2. Given(path[k + 1])
    BY <1>1, DocSegmentsGiven
  <1>. QED  BY <1>1, <1>2, PlacesType, GoesIsEnter

LEMMA GoesFacts ==
    /\ Goes(<<>>, "docs") = <<"docs">> /\ Goes(<<>>, "a") = <<"a">> /\ Goes(<<>>, "README") = <<"README">>
    /\ Goes(<<>>, "src") = <<"src">> /\ Goes(<<>>, "..") = <<"..">>
    /\ Goes(<<"docs">>, "a") = <<"docs", "a">> /\ Goes(<<"docs">>, "docs") = <<"docs", "docs">>
    /\ Goes(<<"docs">>, "..") = <<>>
    /\ Goes(<<"docs", "docs">>, "a") = <<"docs", "docs", "a">>
    /\ Goes(<<"src">>, ".") = <<"src">> /\ Goes(<<"src">>, "main") = <<"src", "main">>
  <1>1. \A x \in DocSegment : x # "." /\ x # ".." => \A p : Goes(p, x) = Append(p, x)
    BY Zenon DEF Goes
  <1>3. Goes(<<>>, "..") = <<"..">> /\ Goes(<<"src">>, ".") = <<"src">>
    BY DEF Goes
  <1>4. Goes(<<"docs">>, "..") = <<>>
    <2>1. Front(<<"docs">>) = SubSeq(<<"docs">>, 1, 0)
      BY DEF Front
    <2>2. SubSeq(<<"docs">>, 1, 0) = <<>>
      BY SubSeqEmpty
    <2>3. Goes(<<"docs">>, "..") = Front(<<"docs">>)
      BY DEF Goes
    <2>. QED  BY <2>1, <2>2, <2>3
  <1>5. /\ {"docs", "a", "README", "src", "main"} \subseteq DocSegment
        /\ \A x \in {"docs", "a", "README", "src", "main"} : x # "." /\ x # ".."
    BY DEF DocSegment
  <1>6. ASSUME NEW x \in {"docs", "a", "README", "src", "main"}, NEW y \in {"docs", "a", "README", "src", "main"},
               NEW z \in {"docs", "a", "README", "src", "main"}
        PROVE  Goes(<<>>, x) = <<x>> /\ Goes(<<x>>, y) = <<x, y>> /\ Goes(<<x, y>>, z) = <<x, y, z>>
    <2>1. x \in DocSegment /\ y \in DocSegment /\ z \in DocSegment
      BY <1>5
    <2>2. \A p : Goes(p, x) = Append(p, x) /\ Goes(p, y) = Append(p, y) /\ Goes(p, z) = Append(p, z)
      BY <1>1, <1>5, <2>1
    <2>3. Append(<<>>, x) = <<x>> /\ Append(<<x>>, y) = <<x, y>> /\ Append(<<x, y>>, z) = <<x, y, z>>
      BY <2>1, ShortAppends
    <2>. QED  BY <2>2, <2>3
  <1>. QED  BY <1>3, <1>4, <1>6

\* The first segments of a way, and ways that leave the repository at once.
LEMMA WaysOfOne ==
    ASSUME NEW dir \in Seq(DocSegment) \cap Places, NEW path \in Seq(DocSegment), Len(path) >= 1
    PROVE  /\ Way(dir, path, 0) = dir
           /\ Way(dir, path, 1) = Goes(dir, path[1])
           /\ Lost(Goes(dir, path[1])) => StaysAmong(Places, dir, path)
  <1>1. Way(dir, path, 0) = dir
    <2>1. \A i \in DOMAIN dir : Names(dir[i])
      BY PlacesType, Zenon DEF AreInside, InsideName
    <2>. QED  BY <2>1, WayStart
  <1>2. Way(dir, path, 0 + 1) = Goes(Way(dir, path, 0), path[0 + 1])
    BY <1>1, WayGoes
  <1>3. ASSUME Lost(Goes(dir, path[1])) PROVE StaysAmong(Places, dir, path)
    <2>1. Lost(Way(dir, path, 1)) /\ 1 \in 0..Len(path)
      BY <1>1, <1>2, <1>3
    <2>2. \A n \in 1..Len(path) : Lost(Way(dir, path, n))
      BY <2>1, LostForever
    <2>3. ASSUME NEW k \in 0..Len(path) PROVE k = 0 \/ k \in 1..Len(path)
      OBVIOUS
    <2>. QED  BY <1>1, <2>2, <2>3, Zenon DEF StaysAmong
  <1>. QED  BY <1>1, <1>2, <1>3

LEMMA WaysOfTwo ==
    ASSUME NEW dir \in Seq(DocSegment) \cap Places, NEW path \in Seq(DocSegment), Len(path) = 2,
           Goes(dir, path[1]) \in Places, Goes(Goes(dir, path[1]), path[2]) \in Places
    PROVE  StaysAmong(Places, dir, path)
  <1>0. Len(path) >= 1
    OBVIOUS
  <1>1. Way(dir, path, 0) = dir /\ Way(dir, path, 1) = Goes(dir, path[1])
    BY <1>0, WaysOfOne
  <1>2. Way(dir, path, 1 + 1) = Goes(Way(dir, path, 1), path[1 + 1])
    BY <1>1, WayGoes
  <1>3. \A k \in 0..Len(path) : k = 0 \/ k = 1 \/ k = 2
    OBVIOUS
  <1>4. Way(dir, path, 2) \in Places
    BY <1>1, <1>2
  <1>. QED  BY <1>1, <1>3, <1>4 DEF StaysAmong

LEMMA LinksType == \A l \in Links : IsLink(l, DocSegment, Places)
  <1> SUFFICES ASSUME NEW l \in Links, l.form = "plain"
               PROVE  /\ l.dir \in Places
                      /\ l.path \in Seq(DocSegment) /\ l.path # <<>> /\ \A k \in DOMAIN l.path : Given(l.path[k])
                      /\ Head(l.path) # "/" => StaysAmong(Places, l.dir, l.path)
    <2>1. \A l \in Links : l.form \in {"plain", "scheme", "fragment", "blank"}
      BY DEF Links
    <2>. QED  BY <2>1, Zenon DEF IsLink
  <1> DEFINE dir == l.dir
             path == l.path
             LinkPaths == {<<"docs", "a">>, <<"a">>, <<"..", "README">>, <<"..", "src", ".", "main">>, <<"/", "docs">>}
  <1>1. dir \in {<<>>, <<"docs">>} /\ path \in LinkPaths
    BY DEF Links
  <1>2. dir \in Seq(DocSegment) \cap Places
    <2>1. dir \in Places
      BY <1>1 DEF Places, Existing
    <2>. QED  BY <2>1, PlacesType
  <1>3. path \in Seq(DocSegment) /\ path # <<>>
    <2>1. /\ "docs" \in DocSegment /\ "a" \in DocSegment /\ "README" \in DocSegment /\ "src" \in DocSegment
          /\ "main" \in DocSegment /\ ".." \in DocSegment /\ "." \in DocSegment /\ "/" \in DocSegment
      BY DEF DocSegment
    <2>2. /\ <<"docs", "a">> \in Seq(DocSegment) /\ <<"a">> \in Seq(DocSegment)
          /\ <<"..", "README">> \in Seq(DocSegment) /\ <<"/", "docs">> \in Seq(DocSegment)
      BY <2>1, ShortTuplesType
    <2>3. <<"..", "src", ".", "main">> \in Seq(DocSegment)
      BY <2>1
    <2>4. \A p \in LinkPaths : p # <<>>
      OBVIOUS
    <2>. QED  BY <1>1, <2>2, <2>3, <2>4, Zenon
  <1>4. ASSUME NEW k \in DOMAIN path PROVE Given(path[k])
    <2>1. path[k] \in DocSegment
      BY <1>3
    <2>. QED  BY <2>1, DocSegmentsGiven
  <1>5. /\ <<>> \in Places /\ <<"docs">> \in Places /\ <<"a">> \in Places /\ <<"docs", "a">> \in Places
        /\ <<"docs", "docs">> \in Places /\ <<"docs", "docs", "a">> \in Places /\ <<"README">> \in Places
        /\ <<"src">> \in Places /\ <<"src", "main">> \in Places
    BY DEF Places, Existing
  <1>6. Lost(<<"..">>)
    BY DEF Lost
  <1>7. CASE path = <<"docs", "a">>
    <2>1. Len(path) = 2 /\ path[1] = "docs" /\ path[2] = "a"
      BY <1>7
    <2>2. Goes(dir, path[1]) \in Places /\ Goes(Goes(dir, path[1]), path[2]) \in Places
      BY <1>1, <1>5, <2>1, GoesFacts
    <2> HIDE DEF dir, path
    <2>3. StaysAmong(Places, dir, path)
      BY <1>2, <1>3, <2>1, <2>2, WaysOfTwo
    <2>. QED  BY <1>2, <1>3, <1>4, <2>3 DEF dir, path
  <1>8. CASE path = <<"a">>
    <2>1. Len(path) = 1 /\ path[1] = "a"
      BY <1>8
    <2>2. Goes(dir, path[1]) \in Places
      BY <1>1, <1>5, <2>1, GoesFacts
    <2> HIDE DEF dir, path
    <2>3. Way(dir, path, 0) \in Places /\ Way(dir, path, 1) \in Places
      BY <1>2, <1>3, <2>1, <2>2, WaysOfOne
    <2>4. \A k \in 0..1 : k = 0 \/ k = 1
      OBVIOUS
    <2>5. StaysAmong(Places, dir, path)
      BY <2>1, <2>3, <2>4 DEF StaysAmong
    <2>. QED  BY <1>2, <1>3, <1>4, <2>5 DEF dir, path
  <1>9. CASE path = <<"..", "README">>
    <2>1. Len(path) = 2 /\ path[1] = ".." /\ path[2] = "README"
      BY <1>9
    <2>2. CASE dir = <<>>
      <3>1. Lost(Goes(dir, path[1]))
        BY <1>6, <2>1, <2>2, GoesFacts
      <3> HIDE DEF dir, path
      <3>2. StaysAmong(Places, dir, path)
        BY <1>2, <1>3, <2>1, <3>1, WaysOfOne
      <3>. QED  BY <1>2, <1>3, <1>4, <3>2 DEF dir, path
    <2>3. CASE dir = <<"docs">>
      <3>1. Goes(dir, path[1]) \in Places /\ Goes(Goes(dir, path[1]), path[2]) \in Places
        BY <1>5, <2>1, <2>3, GoesFacts
      <3> HIDE DEF dir, path
      <3>2. StaysAmong(Places, dir, path)
        BY <1>2, <1>3, <2>1, <3>1, WaysOfTwo
      <3>. QED  BY <1>2, <1>3, <1>4, <3>2 DEF dir, path
    <2>. QED  BY <1>1, <2>2, <2>3
  <1>10. CASE path = <<"..", "src", ".", "main">>
    <2>1. Len(path) = 4 /\ path[1] = ".." /\ path[2] = "src" /\ path[3] = "." /\ path[4] = "main"
      BY <1>10
    <2>2. CASE dir = <<>>
      <3>1. Lost(Goes(dir, path[1]))
        BY <1>6, <2>1, <2>2, GoesFacts
      <3> HIDE DEF dir, path
      <3>2. StaysAmong(Places, dir, path)
        BY <1>2, <1>3, <2>1, <3>1, WaysOfOne
      <3>. QED  BY <1>2, <1>3, <1>4, <3>2 DEF dir, path
    <2>3. CASE dir = <<"docs">>
      <3>1. Goes(dir, path[1]) = <<>>
        BY <2>1, <2>3, GoesFacts
      <3> HIDE DEF dir, path
      <3>2. Way(dir, path, 0) = dir /\ Way(dir, path, 1) = <<>>
        BY <1>2, <1>3, <2>1, <3>1, WaysOfOne
      <3>3. Way(dir, path, 1 + 1) = <<"src">>
        <4>0. dir \in Seq(DocSegment) /\ 1 + 1 <= Len(path) /\ Way(dir, path, 1) \in Places
          BY <1>2, <1>5, <2>1, <3>2
        <4>1. Way(dir, path, 1 + 1) = Goes(Way(dir, path, 1), path[1 + 1])
          BY <1>3, <4>0, WayGoes
        <4>. QED  BY <2>1, <3>2, <4>1, GoesFacts
      <3>4. Way(dir, path, 2 + 1) = <<"src">>
        <4>1. Way(dir, path, 2) = <<"src">>
          BY <3>3
        <4>0. dir \in Seq(DocSegment) /\ 2 + 1 <= Len(path) /\ Way(dir, path, 2) \in Places
          BY <1>2, <1>5, <2>1, <4>1
        <4>2. Way(dir, path, 2 + 1) = Goes(Way(dir, path, 2), path[2 + 1])
          BY <1>3, <4>0, WayGoes
        <4>. QED  BY <2>1, <4>1, <4>2, GoesFacts
      <3>5. Way(dir, path, 3 + 1) = <<"src", "main">>
        <4>1. Way(dir, path, 3) = <<"src">>
          BY <3>4
        <4>0. dir \in Seq(DocSegment) /\ 3 + 1 <= Len(path) /\ Way(dir, path, 3) \in Places
          BY <1>2, <1>5, <2>1, <4>1
        <4>2. Way(dir, path, 3 + 1) = Goes(Way(dir, path, 3), path[3 + 1])
          BY <1>3, <4>0, WayGoes
        <4>. QED  BY <2>1, <4>1, <4>2, GoesFacts
      <3>6. \A k \in 0..4 : k = 0 \/ k = 1 \/ k = 2 \/ k = 3 \/ k = 4
        OBVIOUS
      <3>7. StaysAmong(Places, dir, path)
        <4>1. /\ Way(dir, path, 2) = <<"src">> /\ Way(dir, path, 3) = <<"src">>
              /\ Way(dir, path, 4) = <<"src", "main">>
          BY <3>3, <3>4, <3>5
        <4>. QED  BY <1>2, <1>5, <2>1, <3>2, <3>6, <4>1 DEF StaysAmong
      <3>. QED  BY <1>2, <1>3, <1>4, <3>7 DEF dir, path
    <2>. QED  BY <1>1, <2>2, <2>3
  <1>11. CASE path = <<"/", "docs">>
    <2>1. Head(path) = "/"
      BY <1>11
    <2>. QED  BY <1>2, <1>3, <1>4, <2>1
  <1>. QED  BY <1>1, <1>7, <1>8, <1>9, <1>10, <1>11

\* The trees that TLC enumerates are judged right (DocumentationIsJudged).
THEOREM DocCheckRight == Spec => []DocCheckIsRight
  <1>1. Init => DocCheckIsRight
    <2> SUFFICES ASSUME Init, Is("doc") PROVE DocsJudged(input, Places)
      BY DEF DocCheckIsRight
    <2> DEFINE Sources == {<<"src", "Root.java">>, <<"src", "main", "App.java">>}
               Above == {<<>>, <<"src">>, <<"src", "main">>}
               Bare == {<<>>, <<"README">>}
    <2>1. /\ input.links \subseteq Links /\ input.existing \in {Existing, Bare}
          /\ input.sources \subseteq Sources /\ input.agents \subseteq Above
      BY InputOfKind DEF DocInputs
    <2>2. /\ \A s \in Sources : s \in Seq(DocSegment) /\ s # <<>>
          /\ Above \subseteq Seq(DocSegment)
      <3>1. "src" \in DocSegment /\ "main" \in DocSegment /\ "Root.java" \in DocSegment /\ "App.java" \in DocSegment
        BY DEF DocSegment
      <3>. QED  BY <3>1, ShortTuplesType
    <2>3. Bare \subseteq Places /\ Existing \subseteq Places
      BY PlacesType DEF Places, Existing
    <2> HIDE DEF Sources, Above, Bare
    <2>4. \A s \in input.sources : s \in Seq(DocSegment) /\ s # <<>>
      BY <2>1, <2>2
    <2>5. \A l \in input.links : IsLink(l, DocSegment, Places)
      BY <2>1, LinksType
    <2>6. input.existing \subseteq Places /\ input.agents \subseteq Seq(DocSegment)
      BY <2>1, <2>2, <2>3
    <2>. QED  BY <2>4, <2>5, <2>6, PlacesType, DocumentationIsJudged
  <1>. QED  BY <1>1, InputsStay, PTL
=============================================================================
