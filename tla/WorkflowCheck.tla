--------------------------- MODULE WorkflowCheck ---------------------------
(***************************************************************************)
(* What stands between a workflow file and the Engine: the loading of node *)
(* definitions, the semantic validation of the workflow against them, and  *)
(* the search of its graph for a dependency cycle.                         *)
(***************************************************************************)
EXTENDS PortTypes, CycleSearch

CONSTANTS
  Cases,        \* pairs of a setup and the workflows to check in it
  MaxElements   \* bound: elements of a list value, for what a type stands for

VARIABLES
  setup,     \* definitions, executor versions, registered kinds, llm.yaml
  wf,        \* the workflow: its nodes, and whether its one project is there
  phase,     \* "load", "validate", "search", "done"
  errors,
  warnings   \* "advise" warnings, and at most one with the nodes of a cycle

checkVars == <<setup, wf, phase, errors, warnings, searchVars>>

ProjectContext == 0
ContextOutputs == [code |-> <<"SourceCode">>]

Nodes == DOMAIN wf.nodes
Spec(id) == wf.nodes[id]
Def(id) == setup.defs[Spec(id).node]
IsBound(id, port) == port \in DOMAIN Spec(id).inputs
From(id, port) == Spec(id).inputs[port]   \* [node, output]
-----------------------------------------------------------------------------
(* Loading a definition checks the text of its ports, and no more of them. *)

PortTexts(d) == {d.inputs[p].type : p \in DOMAIN d.inputs} \cup Range(d.outputs)

DefinitionsAreRead ==
  \A name \in DOMAIN setup.defs : \A text \in PortTexts(setup.defs[name]) : WellFormed(text)

LoadDefinitions ==
  /\ phase = "load"
  /\ IF DefinitionsAreRead THEN phase' = "validate" /\ UNCHANGED errors
                           ELSE phase' = "done" /\ errors' = {<<"definition">>}
  /\ UNCHANGED <<setup, wf, warnings, searchVars>>
-----------------------------------------------------------------------------
(* The checks. An error names what it is about.                            *)

When(condition, error) == IF condition THEN {error} ELSE {}

\* dependsOn is a set of ids here: empty and repeated entries have no counterpart.
DependencyErrors == {<<"depends on itself", id>> : id \in {n \in Nodes : n \in Spec(n).dependsOn}}

\* Of the file alone.  Its empty fields, ids with a dot and malformed references have no counterpart.
StructuralErrors == When(Nodes = {}, <<"no nodes">>) \cup DependencyErrors

\* Without a version, the newest registered one is taken; with one, that one must exist.
HasExecutor(spec) ==
  /\ spec.node \in DOMAIN setup.executors
  /\ setup.executors[spec.node] # {}
  /\ spec.version # 0 => spec.version \in setup.executors[spec.node]

\* Configurations and host requirements, which each executor checks for itself, are taken to pass.
InstanceErrors ==
  {<<"no definition or executor", id>> :
     id \in {n \in Nodes : Spec(n).node \notin DOMAIN setup.defs \/ ~HasExecutor(Spec(n))}}

KindErrors ==
  {<<"unregistered kind", id>> :
     id \in {n \in Nodes : \E text \in PortTexts(Def(n)) : ~(KindsIn(TypeOf(text)) \subseteq setup.kinds)}}

ReservedErrors == {<<"reserved id", id>> : id \in Nodes \cap {ProjectContext}}

Unbound ==
  UNION {{<<"not bound", id, p>> : p \in {q \in DOMAIN Def(id).inputs : ~Def(id).inputs[q].optional /\ ~IsBound(id, q)}} :
         id \in Nodes}

\* Outputs a binding may name: of the project, or of a node of the workflow.
Exports(from) ==
  IF from = ProjectContext THEN ContextOutputs
  ELSE IF from \in Nodes THEN Def(from).outputs ELSE <<>>

Produced(id, port) == TypeOf(Exports(From(id, port).node)[From(id, port).output])
Expected(id, port) == TypeOf(Def(id).inputs[port].type)

BindingErrors(id) ==
  LET bound == DOMAIN Spec(id).inputs
      declared == {p \in bound : p \in DOMAIN Def(id).inputs}
      resolved == {p \in declared : From(id, p).output \in DOMAIN Exports(From(id, p).node)} IN
  {<<"not declared", id, p>> : p \in bound \ declared} \cup
  {<<"no such output", id, p>> : p \in declared \ resolved} \cup
  {<<"type mismatch", id, p>> : p \in {q \in resolved : ~Covers(Expected(id, q), Produced(id, q))}}

InputErrors == Unbound \cup UNION {BindingErrors(id) : id \in Nodes}

ControlErrors == {<<"depends on nothing", id>> : id \in {n \in Nodes : ~(Spec(n).dependsOn \subseteq Nodes)}}

Sources == {id \in Nodes : Spec(id).inputs = <<>> /\ Spec(id).dependsOn = {}}
EntryErrors ==
  IF Cardinality(Sources) # 1 THEN {<<"not one source", Sources>>}
  ELSE {<<"source is not human", id>> : id \in {s \in Sources : Def(s).type # "human"}}

ApprovalErrors ==
  {<<"approval of nothing", id>> :
     id \in {n \in Nodes : Def(n).type = "human" /\ Spec(n).node = "human-approval" /\ Spec(n).dependsOn = {}}}

Agents == {id \in Nodes : Def(id).type = "agent"}
LLMErrors ==
  {<<"llm of a node that is no agent", id>> : id \in {n \in Nodes \ Agents : Spec(n).llm}} \cup
  {<<"llm not resolved", id>> : id \in {n \in Agents : setup.llm = "dangling"}} \cup
  When(Agents # {} /\ setup.llm = "absent", <<"no llm.yaml">>)

ProjectErrors == When(~wf.project, <<"not one project">>)

ContractErrors ==
  KindErrors \cup ReservedErrors \cup InputErrors \cup ControlErrors \cup EntryErrors
    \cup ApprovalErrors \cup LLMErrors \cup ProjectErrors

\* A failed round of such an agent cannot be retried with advice.
WithoutAdvise == {id \in Agents : "advise" \notin DOMAIN Def(id).inputs}

\* BuildGraph: a data edge for each binding to a node, a control edge for each dependency.
Edges ==
  UNION {{<<From(id, p).node, id>> : p \in {q \in DOMAIN Spec(id).inputs : From(id, q).node # ProjectContext}} : id \in Nodes}
    \cup UNION {{<<d, id>> : d \in Spec(id).dependsOn} : id \in Nodes}

BuildGraph == [node |-> Nodes, edge |-> Edges]

\* The first two kinds of error end the validation; all others are collected.
Validate ==
  LET early == IF StructuralErrors # {} THEN StructuralErrors ELSE InstanceErrors IN
  /\ phase = "validate"
  /\ IF early # {}
     THEN phase' = "done" /\ errors' = early /\ UNCHANGED <<warnings, searchVars>>
     ELSE /\ phase' = "search"
          /\ errors' = ContractErrors
          /\ warnings' = {<<"no advise", id>> : id \in WithoutAdvise}
          /\ graph' = BuildGraph
          /\ Begin
  /\ UNCHANGED <<setup, wf>>
-----------------------------------------------------------------------------
(* checkCycle: the steps of CycleSearch, and what its end means.           *)

Searching == phase = "search" /\ UNCHANGED <<setup, wf, errors>>

Search ==
  /\ Searching
  /\ StartAtNode \/ Descend \/ Backtrack
  /\ UNCHANGED <<phase, warnings>>

\* A human on a cycle makes it a path of iteration; without one, it is warned about.
CycleWarning(nodes) == When(\A n \in nodes : Def(n).type # "human", <<"cycle", nodes>>)

ReportCycle ==
  /\ Searching
  /\ CloseCycle
  /\ phase' = "done"
  /\ warnings' = warnings \cup CycleWarning(Range(cycle'))

ReportNothing ==
  /\ Searching
  /\ NothingFound
  /\ phase' = "done"
  /\ UNCHANGED <<warnings, searchVars>>
-----------------------------------------------------------------------------
CheckInit ==
  /\ \E c \in Cases : setup = c[1] /\ wf \in c[2]
  /\ phase = "load" /\ errors = {} /\ warnings = {}
  /\ SearchInit

CheckNext == LoadDefinitions \/ Validate \/ Search \/ ReportCycle \/ ReportNothing
-----------------------------------------------------------------------------
(* Properties.                                                             *)

RECURSIVE ValuesOf(_)
\* What a type stands for: values that are leaves, and short lists of values.
ValuesOf(expr) ==
  CASE expr.form = "union" -> UNION {ValuesOf(m) : m \in Range(expr.members)}
    [] expr.form = "list"  -> {<<"list", s>> : s \in UNION {[1..n -> ValuesOf(expr.elem)] : n \in 0..MaxElements}}
    [] OTHER               -> {<<expr.form, expr>>}

Fits(id, port) == ValuesOf(Produced(id, port)) \subseteq ValuesOf(Expected(id, port))

Returnable == KindNames \cup AtomNames

\* In a workflow that passed, every bound input accepts all its source may produce, also by
\* what the engine lets an executor return; and no binding is refused for a type that fits
\* (semantic.go checkInputs, compatible.go, engine.go validateOutputs).
BindingsFit ==
  phase = "done" /\ errors # {<<"definition">>} =>
    /\ errors = {} =>
         \A id \in Nodes : \A port \in DOMAIN Spec(id).inputs :
           /\ Fits(id, port)
           /\ \A kind \in Returnable :
                MatchesKind(Produced(id, port), kind) => MatchesKind(Expected(id, port), kind)
    /\ \A id \in Nodes : \A port \in DOMAIN Spec(id).inputs :
         <<"type mismatch", id, port>> \in errors => ~Fits(id, port)

MachineGraph ==
  LET machines == {n \in Nodes : Def(n).type # "human"} IN
  [node |-> machines, edge |-> Edges \cap (machines \X machines)]

\* A workflow that passed is warned about whenever it holds a cycle without a human, which
\* nothing but the convergence guard stops (semantic.go checkCycle).
MachineCyclesAreWarned ==
  phase = "done" /\ errors = {} =>
    \A n \in MachineGraph.node :
      IsOnCycle(MachineGraph, n) => \E w \in warnings : w[1] = "cycle"
=============================================================================
