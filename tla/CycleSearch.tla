---------------------------- MODULE CycleSearch ----------------------------
(***************************************************************************)
(* Graph.Cycle (internal/workflow/graph.go): the search of a workflow's    *)
(* graph for a dependency cycle, a depth-first walk told step by step.     *)
(* Node ids are numbers, in the order of the ids.                          *)
(***************************************************************************)
EXTENDS Reachability, FiniteSetsExt

VARIABLES
  graph,     \* the graph under search, before the first search without nodes
  path,      \* the nodes on the walk
  colour,    \* node -> white, gray, black
  cycle      \* the cycle found, its first node repeated at the end; <<>> if none

searchVars == <<graph, path, colour, cycle>>

\* An edge may come from a node that is missing; every edge leads to a node of the workflow.
DependencyGraphs ==
  {G \in [node : SUBSET Nat, edge : SUBSET (Nat \X Nat)] :
     IsFiniteSet(G.node) /\ \A e \in G.edge : e[2] \in G.node}

Succ(n) == Successors(graph, n)
ColourOf(c) == {n \in graph.node : colour[n] = c}

\* Successors in order: those already looked at are black, or have ended the search.
Ahead(n) == {m \in Succ(n) : colour[m] # "black"}
NextOf(n) == Min(Ahead(n))

Enter(n) == path' = Append(path, n) /\ colour' = [colour EXCEPT ![n] = "gray"]

Begin ==
  /\ graph' \in DependencyGraphs
  /\ colour' = [n \in graph'.node |-> "white"]
  /\ path' = <<>> /\ cycle' = <<>>

StartAtNode ==
  /\ cycle = <<>> /\ path = <<>> /\ ColourOf("white") # {}
  /\ Enter(Min(ColourOf("white")))
  /\ UNCHANGED <<graph, cycle>>

Descend ==
  /\ cycle = <<>> /\ path # <<>> /\ Ahead(Last(path)) # {}
  /\ colour[NextOf(Last(path))] = "white"
  /\ Enter(NextOf(Last(path)))
  /\ UNCHANGED <<graph, cycle>>

\* Seeded fault: a finished node stays gray, as if it were on the walk.
BacktrackStayingGray ==
  /\ cycle = <<>> /\ path # <<>> /\ Ahead(Last(path)) = {}
  /\ path' = Front(path)
  /\ UNCHANGED <<graph, colour, cycle>>

Backtrack ==
  /\ cycle = <<>> /\ path # <<>> /\ Ahead(Last(path)) = {}
  /\ path' = Front(path)
  /\ colour' = [colour EXCEPT ![Last(path)] = "black"]
  /\ UNCHANGED <<graph, cycle>>

\* The walk from m on, and m again.
WalkFrom(m) == Append(SubSeq(path, Max({1, SelectInSeq(path, LAMBDA n : n = m)}), Len(path)), m)

\* Back at a node of the walk: that is a cycle, and the first one ends the search.
CloseCycle ==
  /\ cycle = <<>> /\ path # <<>> /\ Ahead(Last(path)) # {}
  /\ colour[NextOf(Last(path))] = "gray"
  /\ cycle' = WalkFrom(NextOf(Last(path)))
  /\ UNCHANGED <<graph, path, colour>>

\* Every node has been left, and nothing was found.
NothingFound == cycle = <<>> /\ path = <<>> /\ ColourOf("white") = {}
-----------------------------------------------------------------------------
SearchInit ==
  graph = [node |-> {}, edge |-> {}] /\ colour = <<>> /\ path = <<>> /\ cycle = <<>>

SearchNext == Begin \/ StartAtNode \/ Descend \/ Backtrack \/ CloseCycle

SearchSpec == SearchInit /\ [][SearchNext]_searchVars
-----------------------------------------------------------------------------
\* A cycle that is reported is a walk along edges that meets no node twice before it closes,
\* and a graph in which none is reported has none (graph.go Cycle).
ReportedCycleIsReal ==
  /\ cycle # <<>> =>
       /\ Len(cycle) > 1 /\ cycle[1] = Last(cycle)
       /\ \A i \in 1..Len(cycle) - 1 : cycle[i + 1] \in Succ(cycle[i])
       /\ \A i, j \in 1..Len(cycle) - 1 : cycle[i] = cycle[j] => i = j
  /\ NothingFound => \A n \in graph.node : ~IsOnCycle(graph, n)
=============================================================================
