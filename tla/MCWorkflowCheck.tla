-------------------------- MODULE MCWorkflowCheck --------------------------
(***************************************************************************)
(* Workflow files of the runtime, and Drafts of the product application:   *)
(* every pair of a dozen port types across one binding; one node whose     *)
(* every field may be wrong; and every graph over a human entry and three  *)
(* nodes, and over three nodes of a Draft. A behavior takes the steps of   *)
(* one of the two programs, for one workflow or one Draft.                 *)
(***************************************************************************)
EXTENDS WorkflowCheck, DraftPreview

vars == <<checkVars, previewVars>>

\* The other of the two has nothing to do.
NoWorkflow ==
  /\ setup = <<>> /\ wf = [nodes |-> <<>>, project |-> TRUE]
  /\ phase = "done" /\ errors = {<<"definition">>} /\ warnings = {}
  /\ SearchInit

NoDraft ==
  /\ draft = <<>> /\ index = <<>> /\ lowlink = index
  /\ stack = <<>> /\ visits = <<>> /\ groups = {} /\ previewed = TRUE

Init == (CheckInit /\ NoDraft) \/ (NoWorkflow /\ PreviewInit)

CheckStep == CheckNext /\ UNCHANGED previewVars
PreviewStep == PreviewNext /\ UNCHANGED checkVars
Next == CheckStep \/ PreviewStep

Behaviors == Init /\ [][Next]_vars
-----------------------------------------------------------------------------
Atoms == {"string", "bool", "markdown", "file"}
KindWords == {"SourceCode", "OpenAPI"}
FileExtensions == {"jpg"}

Code == KindRef("SourceCode")
Api == KindRef("OpenAPI")
Bool == Atomic("bool", "")
Types ==
  {Code, Api, Bool, Atomic("file", ""), Atomic("file", "jpg"),
   Union(<<Code, Api>>), Union(<<Api, Bool, Code>>), Union(<<Code, List(Api)>>),
   List(Code), List(Union(<<Code, Api>>)), Union(<<List(Code), List(Api)>>),
   List(List(Union(<<Code, Bool>>)))}
Malformed == {<<>>, <<"SourceCode", "|">>, <<"[", "bool">>, <<"file", ":">>, <<"bool", "bool">>}

Port(text, optional) == [type |-> text, optional |-> optional]
Markdown == <<"markdown">>

\* Definitions: the output of the entry and the input of the agent have the given texts.
SetupWith(given, taken) ==
  [defs |->
     [d \in {"human-input", "human-approval", "agent", "silent", "tool"} |->
        CASE d = "human-input"    -> [type |-> "human", inputs |-> <<>>, outputs |-> [out |-> given]]
          [] d = "human-approval" -> [type |-> "human", inputs |-> <<>>, outputs |-> [out |-> Markdown]]
          [] d = "agent"          -> [type |-> "agent", outputs |-> [out |-> Markdown],
                                      inputs |-> [in |-> Port(taken, FALSE), advise |-> Port(Markdown, TRUE)]]
          [] d = "silent"         -> [type |-> "agent", outputs |-> [out |-> Markdown], inputs |-> <<>>]
          [] d = "tool"           -> [type |-> "automation", outputs |-> [out |-> <<"OpenAPI">>],
                                      inputs |-> [code |-> Port(<<"SourceCode">>, TRUE)]]],
   executors |-> [d \in {"human-input", "human-approval", "agent", "tool"} |-> {1, 2}],
   kinds |-> KindWords, llm |-> "resolves"]

Setup == SetupWith(Markdown, Markdown)

Ref(node, output) == [node |-> node, output |-> output]
Node(def, inputs, deps) ==
  [node |-> def, version |-> 0, inputs |-> inputs, dependsOn |-> deps, llm |-> FALSE]
Entry == Node("human-input", <<>>, {})
File(nodes) == [nodes |-> nodes, project |-> TRUE]

TypeCases ==
  {<<SetupWith(a, b), {File(<<Entry, Node("agent", [in |-> Ref(1, "out")], {})>>)}>> :
     a \in {Text(t) : t \in Types} \cup Malformed, b \in {Text(t) : t \in Types}}

\* The second node has one or several things wrong with it, or the setup has.
Spoiled(s) ==
  {s, [s EXCEPT !.kinds = {}], [s EXCEPT !.llm = "absent"], [s EXCEPT !.llm = "dangling"],
   [s EXCEPT !.executors = [d \in {"human-input", "agent"} |-> {1}]]}
Targets == {Ref(n, o) : n \in {0, 1, 2, 9}, o \in {"out", "code", "missing"}}
Bindings ==
  {<<>>} \cup {[in |-> r] : r \in Targets} \cup {[in |-> Ref(1, "out"), advise |-> r] : r \in Targets}
    \cup {[code |-> r] : r \in Targets}
Seconds ==
  {[node |-> d, version |-> v, inputs |-> i, dependsOn |-> deps, llm |-> l] :
     d \in {"agent", "silent", "tool", "human-approval", "unknown"}, v \in {0, 2}, i \in Bindings,
     deps \in {{}, {1}, {2}, {9}}, l \in BOOLEAN}
FieldFiles ==
  {File(<<Entry, n>>) : n \in Seconds} \cup {File(<<n>>) : n \in {Entry, Node("tool", <<>>, {})}} \cup {File(<<>>), File((0 :> Entry))}
SpoiledCases ==
  {<<s, {[File(<<Entry, Node(d, <<>>, {1})>>) EXCEPT !.project = p] : d \in {"agent", "tool"}, p \in BOOLEAN}>> :
     s \in Spoiled(SetupWith(<<"SourceCode">>, Markdown))}

\* Every graph of control edges over an entry and three nodes, one of which may use its own output.
Three == {2, 3, 4}
GraphFile(humans, own, deps) ==
  File([n \in 1..4 |->
          IF n = 1 THEN Entry
          ELSE Node(IF n \in humans THEN "human-approval" ELSE "tool",
                    IF n = own THEN [code |-> Ref(n, "out")] ELSE <<>>, deps[n])])
GraphFiles ==
  {GraphFile(humans, own, (2 :> a) @@ (3 :> b) @@ (4 :> c)) :
     humans \in SUBSET Three, own \in {0, 4}, a \in SUBSET {1, 3, 4}, b \in SUBSET {1, 2, 4}, c \in SUBSET {1, 2, 3}}

AllCases == TypeCases \cup SpoiledCases \cup {<<Setup, FieldFiles \cup GraphFiles>>}

\* Every graph over three nodes; and two entries of one id, or of none, or with missing sources.
DraftEntry(id, inputs, deps) == [id |-> id, inputs |-> inputs, dependsOn |-> deps]
AllDrafts ==
  {[n \in 1..3 |-> DraftEntry(n, deps[n] \cap {2}, deps[n] \ {2})] : deps \in [1..3 -> SUBSET (1..3)]}
    \cup {<<DraftEntry(1, i, {}), DraftEntry(2, {1}, d), DraftEntry(k, {2}, d)>> :
            i \in SUBSET {2, 9}, d \in SUBSET {1, 2, 9}, k \in {0, 1, 2}}
=============================================================================
