---------------------------- MODULE MCHarnessGate ---------------------------
(***************************************************************************)
(* HarnessGate for TLC: two commits with the same plan on the issue        *)
(* branch, one within the plan and one outside, a wider second plan, a     *)
(* plan that does not parse and a change of an existing migration, V1.     *)
(***************************************************************************)
EXTENDS HarnessGate

MCTouches == [good |-> {"a"}, wide |-> {"a", "V2"}, bad |-> {"a", "V1"}]
MCAllowed == [narrow |-> {"a", "V1"}, broad |-> {"a", "V2", "V1"}, broken |-> {}]
MCCommits ==
    << [branch |-> "issue", fork |-> 1, plan |-> "narrow", code |-> "good"],
       [branch |-> "issue", fork |-> 1, plan |-> "narrow", code |-> "wide"],
       [branch |-> "main", fork |-> 1, plan |-> "narrow", code |-> "good"] >>
=============================================================================
