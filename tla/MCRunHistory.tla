---------------------------- MODULE MCRunHistory ----------------------------
(***************************************************************************)
(* Small instances of RunHistoryView: the texts "a" and "a with layout"    *)
(* mean the same, and "broken" has diagnostics.                            *)
(***************************************************************************)
EXTENDS RunHistoryView

CONSTANTS p1, p2, r1, r2, m1, m2

OneProcess == {p1}
TwoProcesses == {p1, p2}
OneRun == {r1}
TwoRuns == {r1, r2}
OneModel == {m1}
TwoModels == {m1, m2}

AllTexts == {"a", "a with layout", "broken"}
AllMeanings == {"A", "BROKEN"}
MeaningOf ==
  [text \in AllTexts |-> IF text = "broken" THEN "BROKEN" ELSE "A"]
RunnableMeanings == {"A"}
=============================================================================
