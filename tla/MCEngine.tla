------------------------------ MODULE MCEngine ------------------------------
(***************************************************************************)
(* Small workflows for checking Engine, the constants that describe them,  *)
(* and a count of rounds that the program does not keep.                   *)
(***************************************************************************)
EXTENDS Engine

None(N) == [n \in N |-> {}]

\* req -> code -> review (approval) -> ship; a rejection's advice goes back to code.
ReviewNodes     == {"req", "code", "review", "ship"}
ReviewRequires  == [None(ReviewNodes) EXCEPT !["code"] = {"req"}, !["ship"] = {"code"}]
ReviewAccepts   == None(ReviewNodes)
ReviewAdvise    == [None(ReviewNodes) EXCEPT !["code"] = {"review"}]
ReviewDependsOn == [None(ReviewNodes) EXCEPT !["review"] = {"code"}, !["ship"] = {"review"}]
ReviewRank      == [n \in ReviewNodes |-> CASE n = "code" -> 1 [] n = "req" -> 2
                                            [] n = "review" -> 3 [] n = "ship" -> 4]

\* A machine cycle beside a parallel worker: code reads test's report, test and lint read code.
LoopNodes     == {"req", "code", "lint", "test"}
LoopRequires  == [None(LoopNodes) EXCEPT !["code"] = {"req"}, !["lint"] = {"code"},
                                         !["test"] = {"code"}]
LoopAccepts   == [None(LoopNodes) EXCEPT !["code"] = {"test"}]
LoopAdvise    == None(LoopNodes)
LoopDependsOn == None(LoopNodes)
LoopRank      == [n \in LoopNodes |-> CASE n = "code" -> 1 [] n = "lint" -> 2
                                        [] n = "req" -> 3 [] n = "test" -> 4]
\* The same cycle, where code comes before lint when both wait in the list.
VetRank       == [n \in LoopNodes |-> CASE n = "code" -> 1 [] n = "test" -> 2
                                        [] n = "req" -> 3 [] n = "lint" -> 4]

\* ui and api are both revised by review, which follows api only.
PairNodes     == {"req", "api", "ui", "review"}
PairRequires  == [None(PairNodes) EXCEPT !["api"] = {"req"}, !["ui"] = {"req"}]
PairAccepts   == None(PairNodes)
PairAdvise    == [None(PairNodes) EXCEPT !["api"] = {"review"}, !["ui"] = {"review"}]
PairDependsOn == [None(PairNodes) EXCEPT !["review"] = {"api"}]
PairRank      == [n \in PairNodes |-> CASE n = "api" -> 1 [] n = "req" -> 2
                                        [] n = "review" -> 3 [] n = "ui" -> 4]

\* docs is revised by accept too, but starts on its own; ship waits for accept and may keep a slot.
BesideNodes     == {"accept", "api", "docs", "req", "ship"}
BesideRequires  == [None(BesideNodes) EXCEPT !["api"] = {"req"}, !["ship"] = {"api"}]
BesideAccepts   == None(BesideNodes)
BesideAdvise    == [None(BesideNodes) EXCEPT !["api"] = {"accept"}, !["docs"] = {"accept"}]
BesideDependsOn == [None(BesideNodes) EXCEPT !["accept"] = {"api"}, !["ship"] = {"accept"}]
BesideRank      == [n \in BesideNodes |-> CASE n = "accept" -> 1 [] n = "api" -> 2
                        [] n = "docs" -> 3 [] n = "req" -> 4 [] n = "ship" -> 5]
-----------------------------------------------------------------------------
VARIABLE since   \* machine node -> rounds begun since a human last answered

countedVars == <<vars, since>>

\* A requirement, a decision or advice arrives.
HumanSpeaks ==
  \E n \in Nodes :
    \/ n \in HumanInputs /\ outputVersion'[n] > outputVersion[n]
    \/ task[n] = "prompt" /\ task'[n] = "approve"
    \/ adviseRetry'[n] \notin {0, adviseRetry[n]}

Begins(n) == Machine(n) /\ Round(n)' > Round(n)

Count ==
  since' = [n \in Nodes |-> IF HumanSpeaks THEN 0 ELSE IF Begins(n) THEN since[n] + 1 ELSE since[n]]

CountedInit == Init /\ since = [n \in Nodes |-> 0]

CountedNext == Next /\ Count

CountedSpec == CountedInit /\ [][CountedNext]_countedVars /\ Fairness

\* A machine round that begins is failed at once if it is one too many since the human last
\* answered, and only then: the counters behind the guard are bounded rightly, and reset for
\* every node by each kind of answer and by nothing else (engine.go:221-232, 311-345).
MachineStopsInTime ==
  [][\A n \in Nodes : Begins(n) =>
       (Status(n)' = "Failed" <=> since'[n] > ConvergenceLimit)]_countedVars
=============================================================================
