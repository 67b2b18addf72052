---------------------------- MODULE Reachability ----------------------------
(***************************************************************************)
(* What a walk along the edges of a graph leads to: the reference with     *)
(* which the searches for cycles are compared. A graph has the form of     *)
(* module Graphs: a record of its nodes and its edges.                     *)
(***************************************************************************)
EXTENDS Graphs

\* No edge leads out of the set.
IsClosed(G, S) == \A n \in S : Successors(G, n) \subseteq S

\* The nodes that one or more edges lead to from n: what every closed set holds that holds the
\* successors of n.
ReachedFrom(G, n) ==
  {m \in G.node :
     \A S \in SUBSET G.node : Successors(G, n) \subseteq S /\ IsClosed(G, S) => m \in S}

\* The nodes from which n can be reached and that n can reach.
InCycleWith(G, n) == {m \in ReachedFrom(G, n) : n \in ReachedFrom(G, m)}

IsOnCycle(G, n) == n \in ReachedFrom(G, n)
=============================================================================
