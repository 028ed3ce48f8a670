----------------------------- MODULE GateParsing ----------------------------
(***************************************************************************)
(* What agent-harness.py reads before it judges anything: plan, risk       *)
(* policy, branch name, plan lock and the path lists of git; and what      *)
(* check-doc-context.py reads of the documentation.                        *)
(*                                                                         *)
(* A JSON document is a record of what its fields hold.  A text is a       *)
(* string, Blank when it is empty, padded or no string at all.  A path or  *)
(* pattern is the sequence of segments between its slashes, so that a      *)
(* leading, trailing or double slash is an empty segment "".               *)
(***************************************************************************)
EXTENDS Integers, Sequences, FiniteSets, SequencesExt

CONSTANTS
    Blank,       \* a value that _non_empty_string and string_array refuse
    Wild,        \* a segment with one of the characters * ? [ ]
    Control      \* a segment with a backslash or a control character

\* A check that raises: the first of a sequence of violations that applies,
\* <<>> when the document is accepted.
FirstOf(violations) ==
    LET applies == {i \in DOMAIN violations : violations[i][1]}
    IN  IF applies = {} THEN <<>> ELSE <<violations[Min(applies)][2], violations[Min(applies)][3]>>

\* string_array and policy_string_array: no blank value, none twice.
StringArrayOk(values, required) ==
    /\ \A i \in DOMAIN values : values[i] # Blank
    /\ required => values # <<>>
    /\ Cardinality(Range(values)) = Len(values)

-----------------------------------------------------------------------------
(* Patterns *)

IsBelow(pattern) == Len(pattern) > 1 /\ Last(pattern) = "**"
Body(pattern) == IF IsBelow(pattern) THEN Front(pattern) ELSE pattern

\* _validate_repository_pattern
PatternOk(pattern) ==
    \A i \in DOMAIN Body(pattern) : Body(pattern)[i] \notin {"", ".", "..", "**", Wild, Control}

\* FORBIDDEN_PLAN_PATTERNS
Forbidden == {<<"**">>} \cup
    {Append(d, "**") : d \in {<<"src">>, <<"src", "main">>, <<"src", "main", "java">>, <<"src", "test">>,
                              <<"docs">>, <<"harness">>, <<"scripts">>, <<".github">>}}

\* What the rest of the harness makes of an accepted pattern.
Pattern(pattern) == [below |-> IsBelow(pattern), path |-> Body(pattern)]

\* contract_change_path: "<exact path> v<positive number>".
ContractChangeOk(c) == c.version > 0 /\ PatternOk(c.path) /\ ~IsBelow(c.path)

-----------------------------------------------------------------------------
(* Plan, branch and lock *)

PlanKinds == {"legacy", "readable"}

\* plan_path_matches_issue: harness/plans/7.json or harness/plans/issue-7-slug.json.
PlanPathMatches(path, issue) == path.kind \in PlanKinds /\ path.issue = issue

\* parse_plan, in the order of its checks.
ParsePlan(doc, path, known) ==
    FirstOf(<<
        <<~doc.fields, "FAIL", "plan.schema">>,
        <<doc.issue < 1, "FAIL", "plan.schema">>,
        <<doc.target = Blank, "FAIL", "plan.schema">>,
        <<doc.target # "main", "REPLAN_REQUIRED", "plan.target">>,
        <<~PlanPathMatches(path, doc.issue), "FAIL", "plan.path">>,
        <<doc.objective = Blank, "FAIL", "plan.schema">>,
        <<~StringArrayOk(doc.allowed, TRUE), "FAIL", "plan.schema">> >>
      \o [i \in DOMAIN doc.allowed |->
            IF doc.allowed[i] \in Forbidden
              THEN <<TRUE, "REPLAN_REQUIRED", "plan.scope">>
              ELSE <<doc.allowed[i] # Blank /\ ~PatternOk(doc.allowed[i]), "FAIL", "plan.schema">>]
      \o <<
        <<~StringArrayOk(doc.criteria, TRUE), "FAIL", "plan.schema">>,
        <<~StringArrayOk(doc.risks, FALSE), "FAIL", "plan.schema">>,
        <<~(Range(doc.risks) \subseteq known), "FAIL", "plan.schema">>,
        <<~StringArrayOk(doc.contracts, FALSE), "FAIL", "plan.schema">>,
        <<\E i \in DOMAIN doc.contracts : ~ContractChangeOk(doc.contracts[i]),
          "REPLAN_REQUIRED", "plan.contract-changes">>,
        <<~StringArrayOk(doc.nonGoals, TRUE), "FAIL", "plan.schema">> >>)

\* validate_branch: (feature|fix|refactor|docs)/<issue>-<lowercase-kebab>.
BranchOk(branch, issue) ==
    /\ branch.type \in {"feature", "fix", "refactor", "docs"}
    /\ branch.slug
    /\ branch.issue = issue

\* make_plan_lock and plan_lock_payload
MakePlanLock(doc, path, context) ==
    [issue |-> doc.issue, path |-> path, hash |-> doc.hash, target |-> doc.target,
     branch |-> context.branch, base |-> context.base, mergeBase |-> context.mergeBase]

\* Mutant: the lock only knows plan paths of the older form.
LoadPlanLockLegacy(lock) ==
    /\ lock.issue >= 1
    /\ lock.path.kind = "legacy" /\ lock.path.issue = lock.issue
    /\ lock.target = "main"
    /\ BranchOk(lock.branch, lock.issue)
    /\ \A sha \in {lock.hash, lock.base, lock.mergeBase} : sha # Blank

\* load_plan_lock; Blank is a hash that is not lowercase hex of its length.
LoadPlanLock(lock) ==
    /\ lock.issue >= 1
    /\ PlanPathMatches(lock.path, lock.issue)
    /\ lock.target = "main"
    /\ BranchOk(lock.branch, lock.issue)
    /\ \A sha \in {lock.hash, lock.base, lock.mergeBase} : sha # Blank

\* resolve_local_git_context refuses a branch and hashes of the wrong form.
ContextOk(context, issue) ==
    BranchOk(context.branch, issue) /\ context.base # Blank /\ context.mergeBase # Blank

-----------------------------------------------------------------------------
(* Risk policy *)

\* Mutant: risks without a check are accepted.
RiskChecksOkWhenEmpty(p) ==
    /\ DOMAIN p.riskChecks = Range(p.knownRisks)
    /\ \A r \in DOMAIN p.riskChecks : StringArrayOk(p.riskChecks[r], FALSE)

\* riskChecks of load_risk_policy: a list for each risk, no check in two.
RiskChecksOk(p) ==
    /\ DOMAIN p.riskChecks = Range(p.knownRisks)
    /\ \A r \in DOMAIN p.riskChecks : StringArrayOk(p.riskChecks[r], TRUE)
    /\ \A r, s \in DOMAIN p.riskChecks :
          Range(p.riskChecks[r]) \cap Range(p.riskChecks[s]) # {} => r = s

\* load_risk_policy
LoadRiskPolicy(p) ==
    /\ StringArrayOk(p.knownRisks, TRUE)
    /\ p.rules # <<>>
    /\ \A i \in DOMAIN p.rules :
          /\ p.rules[i].id # Blank
          /\ StringArrayOk(p.rules[i].patterns, TRUE)
          /\ \A k \in DOMAIN p.rules[i].patterns : PatternOk(p.rules[i].patterns[k])
          /\ StringArrayOk(p.rules[i].risks, FALSE)
          /\ Range(p.rules[i].risks) \subseteq Range(p.knownRisks)
    /\ \A i, j \in DOMAIN p.rules :
          \/ i = j
          \/ p.rules[i].id # p.rules[j].id /\ Range(p.rules[i].patterns) \cap Range(p.rules[j].patterns) = {}
    /\ StringArrayOk(p.protected, TRUE)
    /\ \A k \in DOMAIN p.protected : PatternOk(p.protected[k])
    /\ RiskChecksOk(p)

\* The policy load_risk_policy returns; riskChecks holds a set for each risk.
LoadedPolicy(p) ==
    [rules |-> [i \in DOMAIN p.rules |-> [patterns |-> {Pattern(q) : q \in Range(p.rules[i].patterns)},
                                         risks |-> Range(p.rules[i].risks)]],
     protected |-> {Pattern(q) : q \in Range(p.protected)},
     riskChecks |-> [r \in DOMAIN p.riskChecks |-> Range(p.riskChecks[r])]]

-----------------------------------------------------------------------------
(* git diff --name-status -z: tokens, each ended by NUL.  A token is a     *)
(* status or a path, and a file may have the name of a status.             *)

OnePath == {"A", "D", "M", "T", "U", "X", "B"}
TwoPaths == {"R100", "R", "C75", "C"}

\* The empty path, which _decode_git_path refuses.
NoName == ""

\* Mutant: only renames have two paths.
PathCountOfRename(status) == IF status \in {"R100", "R"} THEN 2 ELSE 1

PathCount(status) == IF status \in TwoPaths THEN 2 ELSE 1

\* One round of the loop: a status says how many paths follow it.
ReadToken(acc, token) ==
    CASE ~acc.ok -> acc
      [] acc.ok /\ acc.need = 0 ->
           [acc EXCEPT !.ok = token \in OnePath \cup TwoPaths, !.need = PathCount(token)]
      [] OTHER ->
           [ok |-> token # NoName, need |-> acc.need - 1, paths |-> Append(acc.paths, token)]

\* The loop: the reader after the last of the tokens.
ReadTokens(tokens) ==
    LET after[k \in 0..Len(tokens)] ==
            IF k = 0 THEN [ok |-> TRUE, need |-> 0, paths |-> <<>>]
            ELSE ReadToken(after[k - 1], tokens[k])
    IN  after[Len(tokens)]

\* parse_name_status: ended tells whether the stream ends with NUL.
ParseNameStatus(tokens, ended) ==
    LET end == ReadTokens(tokens)
    IN  [ok |-> tokens = <<>> \/ (ended /\ end.ok /\ end.need = 0), paths |-> end.paths]

-----------------------------------------------------------------------------
(* check-doc-context.py *)

\* One segment of Path.resolve: "." and empty segments vanish, ".." goes up,
\* out of the repository too; "/" starts an absolute path.
Enter(place, s) ==
    CASE s \in {"", "."} -> place
      [] s = ".." /\ place = <<"/">> -> place
      [] s = ".." /\ place # <<>> /\ Last(place) \notin {"..", "/"} -> Front(place)
      [] OTHER -> Append(place, s)

\* Path.resolve
Normal(segments) ==
    LET at[k \in 0..Len(segments)] == IF k = 0 THEN <<>> ELSE Enter(at[k - 1], segments[k])
    IN  at[Len(segments)]

\* local_link_target: None for another scheme, a fragment or //host; otherwise
\* the path without title, query and fragment, taken from the file's directory.
IsLocal(link) == link.form \notin {"scheme", "fragment", "host"} /\ link.path # <<>>
LinkTarget(link) == Normal((IF Head(link.path) = "/" THEN <<>> ELSE link.dir) \o link.path)

\* broken_markdown_links; existing holds what exists, directories included.
LinkBroken(link, existing) == IsLocal(link) /\ LinkTarget(link) \notin existing

\* Mutant: the walk ends before it has looked at the root.
HasContextBelowRoot(source, agents) ==
    \E k \in 1..(Len(source) - 1) : SubSeq(source, 1, k) \in agents

\* source_files_without_context: from the parent up to and including ROOT.
HasContext(source, agents) == \E k \in 0..(Len(source) - 1) : SubSeq(source, 1, k) \in agents

\* main; a blank target raises IndexError, which ends the script with 1 too.
DocContextExit(tree) ==
    IF \/ \E l \in tree.links : l.form = "blank"
       \/ \E l \in tree.links : LinkBroken(l, tree.existing)
       \/ <<"src">> \notin tree.existing
       \/ \E s \in tree.sources : ~HasContext(s, tree.agents)
      THEN 1 ELSE 0
=============================================================================
