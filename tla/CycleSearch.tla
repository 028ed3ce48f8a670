----------------------------- MODULE CycleSearch ----------------------------
(***************************************************************************)
(* _find_cycle of harness-oracles.py: the depth first search the           *)
(* architecture oracle runs on the package layers.  The recursive visit    *)
(* is a stack: todo holds, innermost last, the targets each call still has *)
(* to visit; its first element is the loop over all nodes.                 *)
(***************************************************************************)
EXTENDS Integers, Sequences, FiniteSets

CONSTANTS Node,   \* names of layers
          Order   \* Order[n]: place of n when names are sorted

ASSUME NodeAssumption == /\ IsFiniteSet(Node)
                         /\ Order \in [Node -> Nat]
                         /\ \A m, n \in Node : Order[m] = Order[n] => m = n

VARIABLES
    edges,     \* the argument
    visiting,  \* nodes whose call of visit has not returned
    visited,   \* nodes whose call returned None
    path,      \* the calls of visit that are open
    todo,      \* targets the open calls have yet to visit
    cycle,     \* the cycle found, <<>> when there is none
    search,    \* idle, running or over
    rank       \* auxiliary: rank[n], how many nodes were visited before n

searchVars == <<edges, visiting, visited, path, todo, cycle, search, rank>>

-----------------------------------------------------------------------------
\* Mutant: the search forgets the targets of nodes that sort first.
TargetsFromSmaller(n) == {m \in Node : <<n, m>> \in edges /\ Order[n] < Order[m]}

\* The graph: an edge from a node to itself is left out.
Targets(n) == {m \in Node : <<n, m>> \in edges /\ m # n}

GraphNodes == {n \in Node : Targets(n) # {} \/ \E m \in Node : n \in Targets(m)}

Top(s) == s[Len(s)]
Pop(s) == SubSeq(s, 1, Len(s) - 1)

\* n is the next element of sorted(S).
IsNext(n, S) == n \in S /\ \A m \in S : Order[n] <= Order[m]

SearchTypeOK ==
    /\ edges \subseteq Node \X Node
    /\ visiting \subseteq Node
    /\ visited \subseteq Node
    /\ path \in Seq(Node)
    /\ todo \in Seq(SUBSET Node)
    /\ cycle \in Seq(Node)
    /\ search \in {"idle", "running", "over"}
    /\ rank \in [visited -> Nat]

SearchInit ==
    /\ edges = {} /\ visiting = {} /\ visited = {}
    /\ path = <<>> /\ todo = <<{}>> /\ cycle = <<>>
    /\ search = "idle"
    /\ rank = [n \in {} |-> 0]

\* _find_cycle(E) builds its graph and starts the loop over all nodes.
StartSearch(E) ==
    /\ search = "idle"
    /\ edges' = E
    /\ todo' = <<GraphNodes'>>
    /\ search' = "running"
    /\ UNCHANGED <<visiting, visited, path, cycle, rank>>

-----------------------------------------------------------------------------
Remaining(n) == [todo EXCEPT ![Len(todo)] = @ \ {n}]

\* visit(n) of a node that is being visited: the path from it is a cycle.
VisitOpen(n) ==
    /\ search = "running" /\ IsNext(n, Top(todo))
    /\ n \in visiting
    /\ LET start == CHOOSE k \in DOMAIN path : path[k] = n /\ \A j \in 1..(k - 1) : path[j] # n
       IN  cycle' = Append(SubSeq(path, start, Len(path)), n)
    /\ search' = "over"
    /\ UNCHANGED <<edges, visiting, visited, path, todo, rank>>

\* visit(n) of a node that was visited before returns at once.
VisitAgain(n) ==
    /\ search = "running" /\ IsNext(n, Top(todo))
    /\ n \notin visiting /\ n \in visited
    /\ todo' = Remaining(n)
    /\ UNCHANGED <<edges, visiting, visited, path, cycle, search, rank>>

\* visit(n) of a new node goes on with its targets.
VisitNew(n) ==
    /\ search = "running" /\ IsNext(n, Top(todo))
    /\ n \notin visiting /\ n \notin visited
    /\ visiting' = visiting \cup {n}
    /\ path' = Append(path, n)
    /\ todo' = Append(Remaining(n), Targets(n))
    /\ UNCHANGED <<edges, visited, cycle, search, rank>>

\* Mutant: a node that is done is not taken out of visiting.
ReturnStillVisiting ==
    /\ search = "running" /\ Len(todo) > 1 /\ Top(todo) = {}
    /\ path' = Pop(path) /\ todo' = Pop(todo)
    /\ visited' = visited \cup {Top(path)}
    /\ rank' = [n \in visited' |-> IF n \in visited THEN rank[n] ELSE Cardinality(visited)]
    /\ UNCHANGED <<edges, visiting, cycle, search>>

\* All targets visited: visit returns None to its caller.
Return ==
    /\ search = "running" /\ Len(todo) > 1 /\ Top(todo) = {}
    /\ path' = Pop(path) /\ todo' = Pop(todo)
    /\ visiting' = visiting \ {Top(path)}
    /\ visited' = visited \cup {Top(path)}
    /\ rank' = [n \in visited' |-> IF n \in visited THEN rank[n] ELSE Cardinality(visited)]
    /\ UNCHANGED <<edges, cycle, search>>

\* The loop over sorted(graph) is done: no cycle.
NoCycle ==
    /\ search = "running" /\ todo = <<{}>>
    /\ search' = "over"
    /\ UNCHANGED <<edges, visiting, visited, path, todo, cycle, rank>>

SearchStep == (\E n \in Node : VisitOpen(n) \/ VisitAgain(n) \/ VisitNew(n)) \/ Return \/ NoCycle

SearchNext == (\E E \in SUBSET (Node \X Node) : StartSearch(E)) \/ SearchStep

SearchSpec == SearchInit /\ [][SearchNext]_searchVars

-----------------------------------------------------------------------------
(* Correctness *)

IsCycle(c) ==
    /\ Len(c) > 2
    /\ c[1] = c[Len(c)]
    /\ \A k \in 1..(Len(c) - 1) : c[k + 1] \in Targets(c[k])
    /\ \A j, k \in 1..(Len(c) - 1) : c[j] = c[k] => j = k

\* Every way through the graph comes to an end: there is no set of nodes each
\* of which leads on to another node of the set.
Acyclic == \A S \in SUBSET Node : S = {} \/ \E n \in S : Targets(n) \cap S = {}

\* The open calls are a path through the graph, none of them twice.
CallsArePath ==
    /\ Len(todo) = Len(path) + 1
    /\ visiting = {path[k] : k \in DOMAIN path}
    /\ visiting \cap visited = {}
    /\ \A j, k \in DOMAIN path : path[j] = path[k] => j = k
    /\ \A k \in 1..(Len(path) - 1) : path[k + 1] \in Targets(path[k])

\* What an open call no longer has to visit is done or is the next call.
NothingForgotten ==
    /\ \A k \in 1..Len(path) :
          /\ todo[k + 1] \subseteq Targets(path[k])
          /\ Targets(path[k]) \ todo[k + 1] \subseteq
               visited \cup (IF k < Len(path) THEN {path[k + 1]} ELSE {})
    /\ todo[1] \subseteq GraphNodes
    /\ GraphNodes \ todo[1] \subseteq visited \cup (IF path = <<>> THEN {} ELSE {path[1]})

\* Visited nodes lead only to nodes visited before them.
VisitedInOrder ==
    /\ visiting \cup visited \subseteq GraphNodes
    /\ \A n \in visited : rank[n] < Cardinality(visited)
    /\ \A n \in visited : \A m \in Targets(n) : m \in visited /\ rank[m] < rank[n]

\* At the end a reported path is a simple cycle, and without one every node
\* was visited, so that rank falls along every edge and there is none.
VerdictIsRight ==
    /\ search = "idle" => path = <<>> /\ visited = {} /\ cycle = <<>>
    /\ cycle # <<>> => IsCycle(cycle)
    /\ search = "over" /\ cycle = <<>> => visited = GraphNodes /\ Acyclic

\* The inductive invariant of the search: what it knows while it runs is
\* enough for its verdict, in both directions, on every graph.
SearchInv == SearchTypeOK /\ CallsArePath /\ NothingForgotten /\ VisitedInOrder /\ VerdictIsRight
=============================================================================
