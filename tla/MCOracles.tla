------------------------------ MODULE MCOracles -----------------------------
(***************************************************************************)
(* Oracles for TLC.  Architecture: every dependency graph on four layers,  *)
(* and trees with the root package, two packages of one layer and imports  *)
(* the pattern does not match, under the rules of architecture.json.       *)
(***************************************************************************)
EXTENDS Oracles

CONSTANTS o1, o2, q1, q2, kafka, app1, app2

Ids == {"oracle.architecture", "oracle.api-contract", "oracle.migration-fresh", "oracle.transaction"}

\* Layers in the order in which Python sorts their names.
Layers == << <<"CoffeeApplication">>, <<"domain", "order">>, <<"domain", "point">>,
             <<"domain", "ranking">>, External, <<"global">>, <<"infra", "redis">> >>
LayerNodes == Range(Layers)
LayerOrder == [l \in Range(Layers) |-> CHOOSE k \in DOMAIN Layers : Layers[k] = l]

Rule(a, b) == [from |-> a, to |-> b]
ContractRules == {Rule(<<"domain", "order">>, <<"domain", "ranking">>),
                  Rule(<<"domain", "order">>, <<"infra">>),
                  Rule(<<"global">>, <<"domain">>),
                  Rule(<<"global">>, <<"infra">>)}
Plain(n) == [form |-> "plain", name |-> n]

\* Every graph on four layers that the rule does not touch.
Four == {<<"domain", "order">>, <<"domain", "point">>, <<"global">>, <<"infra", "redis">>}
GraphTrees ==
    {[contract |-> TRUE, rules |-> {Rule(<<"domain", "order">>, <<"domain", "ranking">>)},
      files |-> {[package |-> l, imports |-> {Plain(Append(m, "C")) : m \in imports[l]}] : l \in Four}] :
       imports \in {g \in [Four -> SUBSET Four] : \A l \in Four : l \notin g[l]}}

Packages == {<<>>, <<"domain", "order", "service">>, <<"domain", "order", "entity">>, <<"global", "error">>}
Imports == {Plain(<<"CoffeeApplication">>), Plain(<<"domain", "order", "entity", "Order">>),
            Plain(<<"domain", "order", "service", "OrderService">>),
            Plain(<<"global", "error", "ErrorCode">>), Plain(<<"infra", "redis", "Counter">>),
            [form |-> "static", name |-> <<"infra", "redis", "Counter">>],
            [form |-> "wildcard", name |-> <<"domain", "order", "entity">>]}
RuleTrees ==
    {[contract |-> TRUE, rules |-> ContractRules,
      files |-> {[package |-> p, imports |-> {one[p]}] : p \in Packages}] : one \in [Packages -> Imports]}
UnreadableTrees ==
    {t \in {[contract |-> c, rules |-> r, files |-> f] :
              c \in BOOLEAN, r \in {{}, ContractRules},
              f \in {{}, {[package |-> <<"global", "error">>, imports |-> {}]}}} : ~ArchitectureReadable(t)}

Endpoint(m, p, c) == [method |-> m, path |-> p, controller |-> c]
Mapping(m, p) == [method |-> m, suffix |-> p]
Endpoints == {Endpoint("get", <<"menus">>, "Menu"), Endpoint("GET", <<"menus">>, "Ranking"),
              Endpoint("GET", <<"menus", "popular">>, "Ranking")}
Menu == [class |-> "Menu", base |-> <<"menus">>, mappings |-> {Mapping("GET", <<>>)}]
Popular == [class |-> "Ranking", base |-> <<>>, mappings |-> {Mapping("GET", <<"menus", "popular">>)}]
Error(s) == [code |-> "MENU_NOT_FOUND", status |-> s]
ApiTrees ==
    {[endpoints |-> e, doc |-> {[method |-> "GET", path |-> p] : p \in d}, controllers |-> c,
      wrapper |-> w, errors |-> x, enum |-> {Error(404)}, docCodes |-> {"MENU_NOT_FOUND"},
      wantedTests |-> {"OrderIntegrationTest"}, testFiles |-> {"OrderIntegrationTest"}] :
       e \in UNION {[1..n -> Endpoints] : n \in 0..2},
       d \in SUBSET {<<"menus">>, <<"menus", "popular">>},
       c \in SUBSET {Menu, Popular}, w \in BOOLEAN, x \in {{}, {Error(404)}, {Error(400)}}}

MigrationTrees ==
    {[names |-> v, wantedTests |-> {"CoffeeApplicationTests"}, testFiles |-> f] :
       v \in UNION {[1..n -> 0..4] : n \in 0..3}, f \in SUBSET {"CoffeeApplicationTests"}}
TestTrees ==
    {[wantedTests |-> {"PointChargeIntegrationTest", "OrderIntegrationTest"}, testFiles |-> f] :
       f \in SUBSET {"PointChargeIntegrationTest", "OrderIntegrationTest"}}

Trees == [id \in Ids |->
            CASE id = "oracle.architecture" -> GraphTrees \cup RuleTrees \cup UnreadableTrees
              [] id = "oracle.api-contract" -> ApiTrees
              [] id = "oracle.migration-fresh" -> MigrationTrees
              [] id = "oracle.transaction" -> TestTrees]
=============================================================================
