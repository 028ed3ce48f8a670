---------------------------- MODULE MCAlgorithms ----------------------------
(***************************************************************************)
(* The pure parts of the system over all small inputs, against what they   *)
(* must say: the popular menu list, the gate's rules, the parsers of the   *)
(* harness and the documentation check.  One input per initial state.      *)
(***************************************************************************)
EXTENDS Ranking, GateRules, GateParsing

CONSTANTS Menus,       \* menu ids
          MaxCount,    \* bound: orders of one menu
          MaxResults,  \* bound: length of a check runner's result list
          MaxTokens    \* bound: records in a path list of git

ASSUME MenusAssumption == Menus \subseteq Nat /\ IsFiniteSet(Menus) /\ MaxCount \in Nat

VARIABLE input   \* kind of the input, and the input itself

Is(kind) == input.kind = kind

-----------------------------------------------------------------------------
(* Popular menus *)

CountInputs == [kind : {"counts"}, counts : [Menus -> 0..MaxCount]]

\* Order rows behind the counts.
RowsOf(counts) ==
    UNION {{[menu |-> m, at |-> 0, n |-> k] : k \in 1..counts[m]} : m \in DOMAIN counts}

\* The list of PopularMenuService is the best of the menus that were ordered
\* at all.  The SQL query of the fallback, run on rows behind the same counts,
\* gives the same list.
RanksBoth(counts) ==
    LET list == PopularFromCounts(counts)
    IN  IsRanking(list, counts) /\ list = FindPopularMenus(RowsOf(counts), DOMAIN counts, 0, 1)

\* Both rankings of popular menus are right (PopularMenuService.getFromRedis
\* and OrderRepository.findPopularMenus), and so agree.
RankingIsRight == Is("counts") => RanksBoth(input.counts)

-----------------------------------------------------------------------------
(* The gate *)

File(p) == [below |-> FALSE, path |-> p]
Tree(p) == [below |-> TRUE, path |-> p]

\* "order" and "orders" share a prefix but no segment.
Paths == {<<"order">>, <<"order", "a">>, <<"order", "b">>, <<"orders", "a">>, <<"plan">>}
Allowed == {Tree(<<"order">>), File(<<"order", "a">>), Tree(<<"orders">>)}
Risks == {"api", "db"}
Ids == {HarnessUnit, GradleTest, "oracle", "unbuilt"}

ApiPolicy ==
      [rules |-> <<[patterns |-> {Tree(<<"order">>)}, risks |-> {"api"}],
                   [patterns |-> {File(<<"order", "b">>)}, risks |-> {"db"}]>>,
       protected |-> {Tree(<<"order">>)},
       riskChecks |-> [api |-> {"oracle", "inline"}, db |-> {"unbuilt"}]]

FreePolicy ==
      [rules |-> <<[patterns |-> {Tree(<<"orders">>), Tree(<<"order">>)}, risks |-> {}]>>,
       protected |-> {File(<<"orders", "a">>)},
       riskChecks |-> [api |-> {"oracle"}, db |-> {"unbuilt"}]]

Plans == [path : {<<"plan">>}, allowed : SUBSET Allowed, declaredRisks : SUBSET Risks,
          contractChanges : SUBSET {<<"order", "a">>, <<"order", "b">>}]

\* The checks of the two policies are told apart from the environment checks.
ASSUME IdsAssumption == "inline" \in Inline /\ {"oracle", "unbuilt"} \cap Preflight = {}

\* All change sets and plans; all outcomes of the commands for every set of
\* declared risks; all lists a check runner could hand over.
ChangeInputs == [kind : {"change"}, changed : SUBSET Paths, plan : Plans, policy : {ApiPolicy, FreePolicy}]
RunInputs == [kind : {"run"}, risks : SUBSET Risks, policy : {ApiPolicy, FreePolicy},
              outcome : [Ids \cup Preflight -> State]]
ResultInputs ==
    [kind : {"results"},
     results : UNION {[1..n -> [id : {HarnessUnit, GradleTest, "oracle", "extra"} \cup Preflight,
                                state : {"PASS", "BLOCKED"}]] : n \in 0..MaxResults}]

PlanWith(risks) == [path |-> <<"plan">>, allowed |-> {}, declaredRisks |-> risks, contractChanges |-> {}]

\* The checks that a change set calls for.
RequestedBy(changed, plan, policy) ==
    RequiredCheckIds(plan, ClassifyRisks(changed, policy, plan.path), policy)

\* A path fits the plan by itself: it is allowed, known to a rule, all its
\* risks are declared and, if it is protected, it is declared by name.
Fits(path, plan, policy) ==
    /\ MatchesAny(plan.allowed, path)
    /\ \E i \in DOMAIN policy.rules : MatchesAny(policy.rules[i].patterns, path)
    /\ \A i \in DOMAIN policy.rules :
          MatchesAny(policy.rules[i].patterns, path) => policy.rules[i].risks \subseteq plan.declaredRisks
    /\ MatchesAny(policy.protected, path) => path \in plan.contractChanges

JudgedPathwise(changed, plan, policy) ==
    GateAccepts(changed, plan, policy) <=> \A path \in changed \ {plan.path} : Fits(path, plan, policy)

\* The inline part of evaluate accepts a change set exactly when each of its
\* paths fits the plan by itself.  Nothing a plan says for one path excuses
\* another one.
GateIsPathwise == Is("change") => JudgedPathwise(input.changed, input.plan, input.policy)

RisksAreChecked(changed, plan, policy) ==
    LET requested == RequestedBy(changed, plan, policy)
    IN  /\ {HarnessUnit, GradleTest} \subseteq requested
        /\ \A path \in changed \ {plan.path} : \A i \in DOMAIN policy.rules :
              MatchesAny(policy.rules[i].patterns, path) =>
                  \A r \in policy.rules[i].risks : policy.riskChecks[r] \subseteq requested \cup Inline

\* Every risk of every changed path brings its checks (required_check_ids),
\* even when the plan does not declare it, and harness.unit and gradle.test
\* are never left out.
EveryRiskIsChecked == Is("change") => RisksAreChecked(input.changed, input.plan, input.policy)

FailsClosed(requested, outcome) ==
    LET list == SetToSeq(RunRequiredChecks(requested, outcome))
    IN  /\ RunnerResultsValid(list, requested)
        /\ RunnerVerdict(list, requested) = "PASS" =>
             /\ requested \subseteq Oracles \cup {HarnessUnit, GradleTest}
             /\ \A id \in requested \cup Preflight : outcome[id] = "PASS"

\* What run_required_checks produces is complete in the eyes of its
\* validator, and it is PASS only if every command it stands for passed: a
\* missing environment or an unimplemented check is never PASS.
RunnerIsFailClosed ==
    Is("run") => FailsClosed(RequestedBy({}, PlanWith(input.risks), input.policy), input.outcome)

PassIsComplete(results, requested) ==
    RunnerVerdict(results, requested) = "PASS" =>
      /\ Len(results) = Cardinality(NeededIds(requested))
      /\ \A id \in NeededIds(requested) :
           \E i \in DOMAIN results : results[i] = [id |-> id, state |-> "PASS"]

\* Whatever a check runner hands over, PASS means one passing result for
\* each requested check and each environment check, and nothing else
\* (validate_check_runner_results).
PassNeedsEveryCheck ==
    Is("results") => PassIsComplete(input.results, RequestedBy({}, PlanWith({"api"}), ApiPolicy))

-----------------------------------------------------------------------------
(* Plan, policy and lock *)

RawPatterns == {<<"**">>, <<"src", "**">>, <<"src", "main">>, <<"src", "..", "**">>, <<"", "src">>,
                <<"src", "order", "**">>, <<"src", "**", "**">>, <<"docs", ".", "a">>, <<Wild, "a">>, Blank}
GoodDoc ==
    [fields |-> TRUE, issue |-> 7, target |-> "main", objective |-> "text", hash |-> "hash",
     allowed |-> << <<"src", "order", "**">> >>, criteria |-> <<"text">>, risks |-> <<"api">>,
     contracts |-> <<[path |-> <<"docs", "api">>, version |-> 1]>>, nonGoals |-> <<"text">>]
Lists(S) == {<<>>} \cup {<<x>> : x \in S} \cup (S \X S)
\* Plans with another head, another scope, other details.
Headed(f, i, t, o) == [GoodDoc EXCEPT !.fields = f, !.issue = i, !.target = t, !.objective = o]
Scoped(a, r) == [GoodDoc EXCEPT !.allowed = a, !.risks = r]
Detailed(c, t, n) == [GoodDoc EXCEPT !.contracts = c, !.criteria = t, !.nonGoals = n]
Docs ==
    {Headed(f, i, t, o) :
        f \in BOOLEAN, i \in {0, 7, 8}, t \in {"main", "dev", Blank}, o \in {"text", Blank}}
    \cup {Scoped(a, r) : a \in Lists(RawPatterns), r \in Lists({"api", "unknown"})}
    \cup {Detailed(c, t, n) :
        c \in Lists([path : {<<"docs", "api">>, <<"docs", "**">>, <<Wild>>}, version : {0, 1}]),
        t \in Lists({"text", Blank}), n \in {<<>>, <<"text">>, <<Blank>>}}
PlanInputs ==
    {[kind |-> "plan", doc |-> d, path |-> [kind |-> k, issue |-> i],
      branch |-> [type |-> b, slug |-> TRUE, issue |-> j]] :
        d \in Docs, k \in PlanKinds \cup {"other"}, i \in {7, 8}, b \in {"feature", "wip"}, j \in {7, 8}}

PolicyRule(id, patterns, risks) == [id |-> id, patterns |-> patterns, risks |-> risks]
PolicyInputs ==
    {[kind |-> "policy",
      policy |-> [knownRisks |-> k, protected |-> << <<"docs", "**">> >>,
                  rules |-> <<PolicyRule("r1", p, r), PolicyRule(id, << <<"docs">> >>, <<"api">>)>>,
                  riskChecks |-> c]] :
        k \in {<<>>, <<"api">>, <<"api", "db">>, <<"api", "api">>},
        p \in Lists({<<"docs">>, <<"docs", "**">>, <<"src", "..">>}),
        r \in Lists(Risks), id \in {"r1", "r2", Blank},
        c \in UNION {[S -> {<<>>, <<"oracle">>, <<"inline">>, <<"unbuilt">>, <<"oracle", "oracle">>}] : S \in SUBSET Risks}}

\* Change sets for a policy, and what its checks report.
PolicyPaths == {<<"docs">>, <<"docs", "a">>}
Outcomes == [Oracles \cup {HarnessUnit, GradleTest} \cup Preflight -> {"PASS", "BLOCKED"}]

Context(branch) == [branch |-> branch, base |-> "base", mergeBase |-> "base"]

\* The hash of a plan is a value.
ASSUME HashAssumption == GoodDoc.hash # Blank

\* What evaluate reads back of a lock that prepare wrote.
LockSurvives(doc, path, context) ==
    ContextOk(context, doc.issue) => LoadPlanLock(MakePlanLock(doc, path, context))

\* An accepted pattern is in normal form, so it does not leave the repository,
\* and covers no file of a forbidden directory that it does not name itself.
PatternIsTame(pattern, file) ==
    /\ pattern.path # <<>>
    /\ Normal(pattern.path) = pattern.path
    /\ file \notin Range(pattern.path) =>
          \A f \in Forbidden : ~PathMatches(pattern, Append(Front(f), file))

Usable(doc, path, known, context, file, others) ==
    ParsePlan(doc, path, known) = <<>> =>
      /\ LockSurvives(doc, path, context)
      /\ Range(doc.risks) \subseteq known
      /\ \A i \in DOMAIN doc.allowed : PatternIsTame(Pattern(doc.allowed[i]), file)
      /\ \A i \in DOMAIN doc.contracts : \A other \in others :
            PathMatches(Pattern(doc.contracts[i].path), other) => other = doc.contracts[i].path

\* Two halves of one protocol: prepare writes a lock from any plan and branch
\* it accepts (parse_plan), and evaluate reads it back with checks of its own
\* (load_plan_lock).  Whatever prepare accepts, evaluate accepts; and an
\* accepted plan is one for the rest of the gate to work with: known risks, no
\* pattern that leaves the repository or covers a forbidden directory,
\* contracts by exact name.
PreparedPlanIsUsable ==
    Is("plan") => Usable(input.doc, input.path, Risks, Context(input.branch), "any file",
                         Paths \cup {<<"docs", "api">>, <<"docs", "any file">>})

\* If the checks that a change set calls for pass, every risk of every changed
\* path, by the text of the policy, has a check that was answered for it: by
\* evaluate itself or by a command that passed.
RisksHaveEvidence(p, changed, plan, outcome) ==
    LET requested == RequestedBy(changed, plan, LoadedPolicy(p))
        results == SetToSeq(RunRequiredChecks(requested, outcome))
    IN  LoadRiskPolicy(p) /\ RunnerVerdict(results, requested) = "PASS" =>
          \A path \in changed \ {plan.path} : \A i \in DOMAIN p.rules :
             (\E q \in Range(p.rules[i].patterns) : PathMatches(Pattern(q), path)) =>
                 \A r \in Range(p.rules[i].risks) :
                    \E c \in Range(p.riskChecks[r]) : c \in Inline \/ outcome[c] = "PASS"

\* From the policy file to the verdict: whatever file load_risk_policy accepts,
\* no path with a risk passes without a check of that risk that was done and
\* passed, whether the plan declares the risk or not.  This takes the loader,
\* classify_risks, required_check_ids and run_required_checks together.
AcceptedPolicyIsEnforced ==
    Is("policy") =>
      \A changed \in SUBSET PolicyPaths, declared \in SUBSET Range(input.policy.knownRisks), outcome \in Outcomes :
         RisksHaveEvidence(input.policy, changed, PlanWith(declared), outcome)

-----------------------------------------------------------------------------
(* Path lists of git *)

\* A changed file may be called "M" or "R".
FileNames == {"M", "R", "f"}
Records == {<<s, a>> : s \in {"M", "D"}, a \in FileNames}
           \cup {<<s, a, b>> : s \in {"R100", "C"}, a \in FileNames, b \in FileNames}
StreamInputs ==
    [kind : {"stream"}, records : UNION {[1..n -> Records] : n \in 0..MaxTokens}, kept : 0..6, ended : BOOLEAN]

\* The tokens of the first n records, and the paths they name.
TokensOf(records, n) == FlattenSeq([k \in 1..n |-> records[k]])
PathsOf(records, n) == FlattenSeq([k \in 1..n |-> Tail(records[k])])

SurvivesTransport(records, kept, ended) ==
    LET all == TokensOf(records, Len(records))
        cut == SubSeq(all, 1, IF kept < Len(all) THEN kept ELSE Len(all))
        answer == ParseNameStatus(cut, ended)
    IN  /\ ParseNameStatus(all, TRUE) = [ok |-> TRUE, paths |-> PathsOf(records, Len(records))]
        /\ answer.ok => \E n \in 0..Len(records) :
                           cut = TokensOf(records, n) /\ answer.paths = PathsOf(records, n)
        /\ answer.ok => cut = <<>> \/ ended

\* The path list of git survives its transport (parse_name_status): read in
\* full, it names every path of every record, old and new names of renames
\* and copies included and in order, whatever the files are called.  A list
\* that was cut off is either refused or has lost whole records only.
PathsSurviveTransport == Is("stream") => SurvivesTransport(input.records, input.kept, input.ended)

-----------------------------------------------------------------------------
(* Documentation *)

Existing == {<<"docs">>, <<"docs", "a">>, <<"README">>, <<"src">>, <<"src", "main">>, <<>>}
Links == [form : {"plain", "scheme"}, dir : {<<>>, <<"docs">>},
          path : {<<"docs", "a">>, <<"a">>, <<"..", "README">>, <<"..", "src", ".", "main">>, <<"/", "docs">>}]
         \cup {[form |-> "blank", dir |-> <<>>, path |-> <<>>], [form |-> "fragment", dir |-> <<>>, path |-> <<"x">>]}
DocInputs ==
    [kind : {"doc"}, links : {l \in SUBSET Links : Cardinality(l) <= 2}, existing : {Existing},
     sources : SUBSET {<<"src", "Root.java">>, <<"src", "main", "App.java">>},
     agents : SUBSET {<<>>, <<"src">>, <<"src", "main">>}]
    \cup [kind : {"doc"}, links : {{}}, existing : {{<<>>, <<"README">>}}, sources : {{}}, agents : {{}, {<<>>}}]

\* The places inside the repository that the links lead through.
Places == Existing \cup {<<"a">>, <<"docs", "docs">>, <<"docs", "docs", "a">>}

\* The reference for a link: follow it from its directory through such places,
\* one segment a time.
Follows(places, from, segments, to) ==
    \E walk \in [1..(Len(segments) + 1) -> places] :
        /\ walk[1] = from /\ walk[Len(segments) + 1] = to
        /\ \A k \in DOMAIN segments :
              walk[k + 1] = CASE segments[k] = "." -> walk[k]
                              [] segments[k] = ".." -> IF walk[k] = <<>> THEN <<"..">> ELSE Front(walk[k])
                              [] OTHER -> Append(walk[k], segments[k])

LinkLeads(link, places, existing) ==
    \/ link.form \in {"scheme", "fragment"}
    \/ link.form = "plain" /\ \E e \in existing : Follows(places, link.dir, link.path, e)

DocsJudged(tree, places) ==
    DocContextExit(tree) = 0 <=>
      /\ <<"src">> \in tree.existing
      /\ \A l \in tree.links : LinkLeads(l, places, tree.existing)
      /\ \A s \in tree.sources : \E a \in tree.agents : IsStrictPrefix(a, s)

\* check-doc-context.py exits with 0 exactly when there is a src directory,
\* every local link, followed segment by segment, ends at something that
\* exists, and every source file has an AGENTS.md in a directory above it, the
\* root included: nothing is missed and there is no false alarm.
DocCheckIsRight == Is("doc") => DocsJudged(input, Places)

-----------------------------------------------------------------------------
Init == \/ input \in CountInputs \/ input \in ChangeInputs \/ input \in RunInputs
        \/ input \in ResultInputs \/ input \in PlanInputs \/ input \in PolicyInputs
        \/ input \in StreamInputs \/ input \in DocInputs
Next == UNCHANGED input
Spec == Init /\ [][Next]_input
=============================================================================
