------------------------------ MODULE GateRules -----------------------------
(***************************************************************************)
(* The rules by which agent-harness.py judges a set of changed paths       *)
(* against a plan and the risk policy, chooses the checks to run and       *)
(* accepts their results.  Paths are sequences of segments; a pattern is   *)
(* an exact path or a directory with everything below it ("dir/**").       *)
(***************************************************************************)
EXTENDS Integers, Sequences, FiniteSets, SequencesExt

CONSTANTS
    Inline,      \* INLINE_CHECK_IDS: answered by evaluate itself
    Preflight,   \* REQUIRED_PREFLIGHT_CHECK_IDS: the environment checks
    Oracles,     \* DOMAIN_ORACLE_CHECK_IDS: checks with an implementation
    HarnessUnit, \* "harness.unit"
    GradleTest   \* "gradle.test"

ASSUME GateRulesAssumption == /\ HarnessUnit # GradleTest
                              /\ {HarnessUnit, GradleTest} \cap (Inline \cup Preflight \cup Oracles) = {}
                              /\ Preflight \cap Oracles = {}
                              /\ IsFiniteSet(Preflight)

State == {"PASS", "BLOCKED", "FAIL", "REPLAN_REQUIRED"}
Severity == [PASS |-> 0, BLOCKED |-> 1, FAIL |-> 2, REPLAN_REQUIRED |-> 3]

\* aggregate_state
Aggregate(checks) ==
    LET states == {checks[i].state : i \in DOMAIN checks} \cup {"PASS"}
    IN  CHOOSE s \in states : \A r \in states : Severity[r] <= Severity[s]

-----------------------------------------------------------------------------
(* Changed paths against plan and policy *)

\* path_matches
PathMatches(pattern, path) ==
    \/ path = pattern.path
    \/ pattern.below /\ IsStrictPrefix(pattern.path, path)

MatchesAny(patterns, path) == \E p \in patterns : PathMatches(p, path)

\* scope_violations
ScopeViolations(changed, plan) ==
    {path \in changed : path # plan.path /\ ~MatchesAny(plan.allowed, path)}

\* Mutant: the first rule that matches a path is the only one that counts.
ClassifyFirstRule(changed, policy, planPath) ==
    LET paths == changed \ {planPath}
        matching(path) == {i \in DOMAIN policy.rules : MatchesAny(policy.rules[i].patterns, path)}
        first(path) == CHOOSE i \in matching(path) : \A j \in matching(path) : i <= j
    IN  [detected |-> UNION {policy.rules[first(path)].risks : path \in {q \in paths : matching(q) # {}}},
         unclassified |-> {path \in paths : matching(path) = {}}]

\* classify_risks: every rule that matches a path contributes its risks.
ClassifyRisks(changed, policy, planPath) ==
    LET paths == changed \ {planPath}
        matching(path) == {i \in DOMAIN policy.rules : MatchesAny(policy.rules[i].patterns, path)}
    IN  [detected |-> UNION {UNION {policy.rules[i].risks : i \in matching(path)} : path \in paths},
         unclassified |-> {path \in paths : matching(path) = {}}]

\* validate_risk_declarations
UndeclaredRisks(plan, class) == class.detected \ plan.declaredRisks

\* validate_contract_changes: a protected path needs a declaration of exactly
\* that path.
UndeclaredContracts(changed, plan, policy) ==
    {path \in changed : /\ path # plan.path
                        /\ MatchesAny(policy.protected, path)
                        /\ path \notin plan.contractChanges}

\* The inline part of evaluate accepts the change.
GateAccepts(changed, plan, policy) ==
    LET class == ClassifyRisks(changed, policy, plan.path)
    IN  /\ ScopeViolations(changed, plan) = {}
        /\ class.unclassified = {}
        /\ UndeclaredRisks(plan, class) = {}
        /\ UndeclaredContracts(changed, plan, policy) = {}

-----------------------------------------------------------------------------
(* The checks *)

\* Mutant: only the declared risks choose checks.
RequiredForDeclared(plan, class, policy) ==
    ((UNION {policy.riskChecks[r] : r \in plan.declaredRisks}) \ Inline)
        \cup {HarnessUnit, GradleTest}

\* required_check_ids
RequiredCheckIds(plan, class, policy) ==
    ((UNION {policy.riskChecks[r] : r \in plan.declaredRisks \cup class.detected}) \ Inline)
        \cup {HarnessUnit, GradleTest}

\* Mutant: the environment checks are taken for granted.
RunUnguarded(ids, outcome) ==
    LET run(id) ==
            IF id = HarnessUnit \/ id \in Oracles \/ id = GradleTest THEN outcome[id] ELSE "BLOCKED"
    IN  {[id |-> id, state |-> run(id)] : id \in ids}
          \cup (IF GradleTest \in ids THEN {[id |-> e, state |-> "PASS"] : e \in Preflight} ELSE {})

\* run_required_checks, as a set of results: outcome[id] is what the command
\* of id, or the environment check id, reports.
RunRequiredChecks(ids, outcome) ==
    LET run(id) ==
            IF id = HarnessUnit \/ id \in Oracles THEN outcome[id]
            ELSE IF id = GradleTest
              THEN IF \A e \in Preflight : outcome[e] = "PASS" THEN outcome[id] ELSE "BLOCKED"
            ELSE "BLOCKED"
    IN  {[id |-> id, state |-> run(id)] : id \in ids}
          \cup (IF GradleTest \in ids THEN {[id |-> e, state |-> outcome[e]] : e \in Preflight} ELSE {})

NeededIds(requested) ==
    requested \cup (IF GradleTest \in requested THEN Preflight ELSE {})

\* Mutant: repeated ids are not looked for.
RunnerAcceptsRepeats(results, requested) ==
    {results[i].id : i \in DOMAIN results} = NeededIds(requested)

\* validate_check_runner_results: no id twice, none missing, none unknown.
RunnerResultsValid(results, requested) ==
    LET ids == {results[i].id : i \in DOMAIN results}
    IN  /\ Cardinality(ids) = Len(results)
        /\ NeededIds(requested) \subseteq ids
        /\ ids \subseteq NeededIds(requested)

\* What the check runner contributes to the verdict.
RunnerVerdict(results, requested) ==
    Aggregate(results \o (IF RunnerResultsValid(results, requested) THEN <<>>
                          ELSE <<[id |-> "checks.runner", state |-> "FAIL"]>>))
=============================================================================
