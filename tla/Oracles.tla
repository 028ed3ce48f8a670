------------------------------- MODULE Oracles ------------------------------
(***************************************************************************)
(* harness-oracles.py: main and run_oracle, the oracles that only read the *)
(* source tree, and the two that do more: the cycle search of the          *)
(* architecture oracle (CycleSearch) and the multi-instance oracle         *)
(* (StackOracle).                                                          *)
(*                                                                         *)
(* A package below com.example.coffee is the sequence of its segments, the *)
(* root package itself is <<>>.  A layer is a package cut to its first     *)
(* segment, or to two below domain and infra; External is no layer.        *)
(***************************************************************************)
EXTENDS CycleSearch, StackOracle, SequencesExt

CONSTANTS Tree,       \* source trees an oracle may be run on, by check id
          StaticIds   \* oracle ids other than oracle.multi-instance

VARIABLES
    checkId,  \* the command line argument
    tree,     \* the source tree, as far as this oracle reads it
    phase,    \* scan, search or done
    result    \* the exit code of main

staticVars == <<checkId, tree, phase, result>>
vars == <<searchVars, stackVars, staticVars>>

-----------------------------------------------------------------------------
(* validate_architecture *)

External == <<>>

Layer(p) ==
    IF p = <<>> THEN External
    ELSE IF Head(p) \in {"domain", "infra"} /\ Len(p) >= 2 THEN SubSeq(p, 1, 2)
    ELSE <<Head(p)>>

\* Equal, or followed by a dot.
LayerMatches(actual, declared) == IsPrefix(declared, actual)

\* JAVA_IMPORT_PATTERN: static and wildcard imports do not match.  The name
\* is the package and the class, below com.example.coffee.
MatchedImports(f) == {i.name : i \in {j \in f.imports : j.form = "plain"}}

Dependencies(files) ==
    UNION {{<<Layer(f.package), Layer(n)>> : n \in MatchedImports(f)} : f \in files}

\* What trees are made of: packages and migrations have names, Node is the
\* set of all layers, and the rules of architecture.json name layers (a rule
\* about a package inside a layer would never match).
ASSUME TreeAssumption ==
    /\ "oracle.multi-instance" \notin StaticIds
    /\ "oracle.architecture" \in StaticIds =>
          \A t \in Tree["oracle.architecture"] :
             /\ \A r \in t.rules : \A q \in {r.from, r.to} : q \in Seq(STRING) /\ Layer(q) = q
             /\ \A f \in t.files : /\ f.package \in Seq(STRING)
                                   /\ \A n \in MatchedImports(f) : n \in Seq(STRING)
             /\ Dependencies(t.files) \subseteq Node \X Node
    /\ "oracle.api-contract" \in StaticIds =>
          \A t \in Tree["oracle.api-contract"] :
             t.endpoints \in Seq([method : STRING, path : Seq(STRING), controller : STRING])
    /\ "oracle.migration-fresh" \in StaticIds =>
          \A t \in Tree["oracle.migration-fresh"] : t.names \in Seq(Nat)

Forbidden(t) ==
    \E d \in Dependencies(t.files), r \in t.rules :
        LayerMatches(d[1], r.from) /\ LayerMatches(d[2], r.to)

\* contract: the contract's form is right and every file declares its package.
ArchitectureReadable(t) == t.contract /\ t.rules # {} /\ t.files # {}

-----------------------------------------------------------------------------
(* validate_api_contract.  A path is the sequence of its segments, so that  *)
(* joining a base and a suffix is concatenation.                           *)

Upper(method) == IF method = "get" THEN "GET" ELSE method

Key(e) == <<Upper(e.method), e.path>>

\* A substring test: the text "GET /menus/popular" mentions "GET /menus".
Mentions(text, key) == \E d \in text : d.method = key[1] /\ IsPrefix(key[2], d.path)

ControllerRoutes(controllers) ==
    UNION {{[method |-> Upper(m.method), path |-> c.base \o m.suffix, controller |-> c.class] :
              m \in c.mappings} : c \in controllers}

\* Mutant: duplicate endpoints are not looked for, the last one counts.
EndpointsReadableTwice(t) ==
    /\ t.endpoints # <<>>
    /\ \A k \in DOMAIN t.endpoints : Mentions(t.doc, Key(t.endpoints[k]))

EndpointsReadable(t) ==
    /\ t.endpoints # <<>>
    /\ \A j, k \in DOMAIN t.endpoints : Key(t.endpoints[j]) = Key(t.endpoints[k]) => j = k
    /\ \A k \in DOMAIN t.endpoints : Mentions(t.doc, Key(t.endpoints[k]))

\* expected_controllers: the last entry of a key.
ExpectedController(t, key) ==
    LET ks == {k \in DOMAIN t.endpoints : Key(t.endpoints[k]) = key}
    IN  t.endpoints[CHOOSE k \in ks : \A j \in ks : j <= k].controller

RoutesAgree(t) ==
    LET routes == ControllerRoutes(t.controllers)
        keys == {Key(t.endpoints[k]) : k \in DOMAIN t.endpoints}
    IN  /\ {<<r.method, r.path>> : r \in routes} = keys
        /\ \A r \in routes : ExpectedController(t, <<r.method, r.path>>) = r.controller

\* Contracted codes exist, with the contracted status, and are documented.
ErrorsAgree(t) ==
    /\ t.errors # {}
    /\ \A e \in t.errors : /\ \E c \in t.enum : c = e
                           /\ e.code \in t.docCodes

ApiContractHolds(t) == EndpointsReadable(t) /\ RoutesAgree(t) /\ t.wrapper /\ ErrorsAgree(t)

-----------------------------------------------------------------------------
(* validate_migration_sequence, validate_test_sources *)

\* A file's version, 0 when the name does not match the pattern.
MigrationSequenceHolds(t) ==
    /\ t.names # <<>>
    /\ \A k \in DOMAIN t.names : t.names[k] # 0
    /\ Cardinality(Range(t.names)) = Len(t.names)
    /\ Range(t.names) = 1..Max(Range(t.names))

TestSourcesExist(t) == t.wantedTests \subseteq t.testFiles

-----------------------------------------------------------------------------
(* run_oracle and main: OracleFailure and OSError are exit code 1 *)

Answer(ok) == phase' = "done" /\ result' = (IF ok THEN 0 ELSE 1)

ScanArchitecture ==
    /\ phase = "scan" /\ checkId = "oracle.architecture"
    /\ IF ~ArchitectureReadable(tree) \/ Forbidden(tree)
         THEN Answer(FALSE) /\ UNCHANGED searchVars
         ELSE /\ phase' = "search"
              /\ StartSearch(Dependencies(tree.files))
              /\ UNCHANGED result
    /\ UNCHANGED <<checkId, tree, stackVars>>

SearchLayers == phase = "search" /\ SearchStep /\ UNCHANGED <<staticVars, stackVars>>

SearchReturns ==
    /\ phase = "search" /\ search = "over"
    /\ Answer(cycle = <<>>)
    /\ UNCHANGED <<checkId, tree, searchVars, stackVars>>

ScanTree ==
    /\ phase = "scan" /\ checkId # "oracle.architecture"
    /\ Answer(/\ checkId = "oracle.api-contract" => ApiContractHolds(tree)
              /\ checkId = "oracle.migration-fresh" => MigrationSequenceHolds(tree)
              /\ TestSourcesExist(tree))
    /\ UNCHANGED <<checkId, tree, searchVars, stackVars>>

\* A static oracle with one of its trees, or multi-instance oracles side by side.
Init ==
    /\ SearchInit
    /\ \/ /\ checkId \in StaticIds
          /\ tree \in Tree[checkId]
          /\ phase = "scan" /\ result = NoExit
          /\ StackInit("done")
       \/ /\ checkId = "oracle.multi-instance"
          /\ tree = {} /\ phase = "done" /\ result = NoExit
          /\ StackInit("start")

RunMultiInstance == StackStep /\ UNCHANGED <<searchVars, staticVars>>

Next == ScanArchitecture \/ SearchLayers \/ SearchReturns \/ ScanTree \/ RunMultiInstance

\* Every process runs on; interrupts, kills and hanging commands are not fair.
Spec ==
    /\ Init /\ [][Next]_vars
    /\ WF_vars(ScanArchitecture \/ SearchLayers \/ SearchReturns \/ ScanTree)
    /\ \A o \in Oracle : WF_vars(OracleStep(o) /\ UNCHANGED <<searchVars, staticVars>>)

-----------------------------------------------------------------------------
(* Correctness *)

\* The verdict of oracle.architecture, stated on the imports it can see: it
\* passes when none runs against a rule of the contract, read as package
\* prefixes, and no set of layers imports in a circle; it fails only for an
\* unreadable contract, such an import, or a path that is a cycle of layers.
ArchitectureVerdictIsRight ==
    checkId = "oracle.architecture" =>
        LET against == \E f \in tree.files, r \in tree.rules : \E n \in MatchedImports(f) :
                          IsPrefix(r.from, f.package) /\ IsPrefix(r.to, n)
            circle == \E S \in (SUBSET {Layer(f.package) : f \in tree.files}) \ {{}} :
                         \A l \in S : \E f \in tree.files : \E n \in MatchedImports(f) :
                            Layer(f.package) = l /\ Layer(n) \in S \ {l}
        IN  /\ result = 0 => ~against /\ ~circle
            /\ result = 1 => ~ArchitectureReadable(tree) \/ against \/ IsCycle(cycle)

\* Exit 0 of the other static oracles.  oracle.api-contract: every entry of
\* the contract, read one by one, is a route of the controller it names, every
\* route is an entry, and every error code has the status it is promised.
\* oracle.migration-fresh: the k-th version is k, so that Flyway runs every
\* file, each once and in the order of the numbers.
ScanPassIsSound ==
    result = 0 =>
        /\ checkId = "oracle.api-contract" =>
              /\ \A k \in DOMAIN tree.endpoints :
                    [method |-> Upper(tree.endpoints[k].method), path |-> tree.endpoints[k].path,
                     controller |-> tree.endpoints[k].controller] \in ControllerRoutes(tree.controllers)
              /\ \A r \in ControllerRoutes(tree.controllers) : \E k \in DOMAIN tree.endpoints :
                    Key(tree.endpoints[k]) = <<r.method, r.path>>
              /\ tree.errors \subseteq tree.enum
        /\ checkId = "oracle.migration-fresh" =>
              \A k \in 1..Len(tree.names) :
                 Cardinality({j \in DOMAIN tree.names : tree.names[j] <= k}) = k

\* Every oracle ends: the cycle search visits each node once, and each docker
\* command has a timeout, so that a hanging docker does not stop the harness.
OraclesEnd ==
    /\ phase = "scan" ~> result \in {0, 1}
    /\ \A o \in Oracle : at[o] = "start" ~> at[o] = "done"
=============================================================================
