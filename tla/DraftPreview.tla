---------------------------- MODULE DraftPreview ----------------------------
(***************************************************************************)
(* The Preview of a Product Workflow Draft (internal/product): the edges   *)
(* it draws from a Draft that may be incomplete, and the groups of nodes   *)
(* that depend on each other, found by the walk of cycleGroups, one step   *)
(* an action. Node ids are numbers in the order of the ids; 0 is blank.    *)
(***************************************************************************)
EXTENDS Reachability, FiniteSetsExt

CONSTANT Drafts   \* the Drafts to look at: sequences of node entries

DraftEntries == [id : Nat, inputs : SUBSET Nat, dependsOn : SUBSET Nat]

ASSUME DraftsAssumption == \A d \in Drafts : d \in Seq(DraftEntries)

VARIABLES
  draft,     \* entries: their id, the sources of their inputs, dependsOn
  index,     \* node -> when it was first visited, 0 before
  lowlink,   \* node -> the oldest node on the stack known to be reachable
  stack,     \* visited nodes whose group is not known yet
  visits,    \* nested visits: a node, and the neighbours still to look at
  groups,
  previewed

previewVars == <<draft, index, lowlink, stack, visits, groups, previewed>>

\* nodesByID: entries with a blank id are shown, and nothing can refer to them.
\* Entries of one id are one node of the graph, with the edges of all of them.
Ids(entries) == {e.id : e \in Range(entries)} \ {0}

\* A source that is not there is diagnosed and draws no edge; an unknown port draws one.
DataEdges == UNION {{<<source, e.id>> : source \in e.inputs \cap Ids(draft)} : e \in Range(draft)}

ControlEdges == UNION {{<<source, e.id>> : source \in e.dependsOn \cap Ids(draft)} : e \in Range(draft)}

DrawnEdges == DataEdges \cup ControlEdges

Adjacent(n) == {m \in Ids(draft) : <<n, m>> \in DrawnEdges}
-----------------------------------------------------------------------------
(* cycleGroups.                                                            *)

Unvisited == {n \in Ids(draft) : index[n] = 0}
Top == Last(visits)
Lowered(n, k) == [lowlink EXCEPT ![n] = Min({@, k})]

Open(n, open) ==
  LET now == Cardinality(Ids(draft) \ Unvisited) + 1 IN
  /\ index' = [index EXCEPT ![n] = now]
  /\ lowlink' = [lowlink EXCEPT ![n] = now]
  /\ stack' = Append(stack, n)
  /\ visits' = Append(open, [node |-> n, todo |-> Adjacent(n)])
  /\ UNCHANGED <<draft, groups, previewed>>

VisitRoot ==
  /\ visits = <<>> /\ Unvisited # {}
  /\ Open(Min(Unvisited), visits)

\* The visit on top has looked at one more neighbour.
LookedAt(m) == [visits EXCEPT ![Len(visits)].todo = @ \ {m}]

VisitNeighbour ==
  /\ visits # <<>> /\ Top.todo # {}
  /\ LET m == Min(Top.todo) IN m \in Unvisited /\ Open(m, LookedAt(m))

\* Seeded fault: a node whose group is complete lowers the link like one on the stack.
IsOpenOrComplete(m) == m \notin Unvisited

IsOpen(m) == m \in Range(stack)

LookBack ==
  /\ visits # <<>> /\ Top.todo # {}
  /\ LET m == Min(Top.todo) IN
     /\ m \notin Unvisited
     /\ lowlink' = IF IsOpen(m) THEN Lowered(Top.node, index[m]) ELSE lowlink
     /\ visits' = LookedAt(m)
  /\ UNCHANGED <<draft, index, stack, groups, previewed>>

\* The caller of a visit lowers its own link by the link of the node visited.
Leave ==
  /\ visits # <<>> /\ Top.todo = {}
  /\ LET n == Top.node
         at == SelectInSeq(stack, LAMBDA m : m = n)
         group == {stack[i] : i \in at..Len(stack)}
         complete == lowlink[n] = index[n] IN
     /\ stack' = IF complete THEN SubSeq(stack, 1, at - 1) ELSE stack
     /\ groups' = IF complete /\ (Cardinality(group) > 1 \/ n \in Adjacent(n))
                  THEN groups \cup {group} ELSE groups
     /\ lowlink' = IF Len(visits) = 1 THEN lowlink
                   ELSE Lowered(visits[Len(visits) - 1].node, lowlink[n])
  /\ visits' = Front(visits)
  /\ UNCHANGED <<draft, index, previewed>>

ShowPreview ==
  /\ visits = <<>> /\ Unvisited = {} /\ ~previewed
  /\ previewed' = TRUE
  /\ UNCHANGED <<draft, index, lowlink, stack, visits, groups>>
-----------------------------------------------------------------------------
PreviewInit ==
  /\ draft \in Drafts
  /\ index = [n \in Ids(draft) |-> 0] /\ lowlink = index
  /\ stack = <<>> /\ visits = <<>> /\ groups = {} /\ previewed = FALSE

PreviewNext == VisitRoot \/ VisitNeighbour \/ LookBack \/ Leave \/ ShowPreview

PreviewSpec == PreviewInit /\ [][PreviewNext]_previewVars
-----------------------------------------------------------------------------
DraftGraph == [node |-> Ids(draft), edge |-> DrawnEdges]

\* The groups of a Preview are the sets of nodes that reach each other and themselves along
\* its edges: none is missing, split, joined to another or shown twice (application.go
\* cycleGroups).
GroupsAreCycles ==
  previewed =>
    groups = {InCycleWith(DraftGraph, n) : n \in {k \in DraftGraph.node : IsOnCycle(DraftGraph, k)}}
=============================================================================
