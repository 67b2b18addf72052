--------------------------- MODULE MCProductShell ---------------------------
(* Small instances of ProductShell. *)
EXTENDS ProductShell, TLC

CONSTANTS w1, w2, t1, t2

TwoWorkflows == {w1, w2}
OneWorkflow == {w1}
TwoTexts == {t1, t2}
OneText == {t1}

\* Workflows are interchangeable, and so are texts.
Symmetry == Permutations({w1, w2}) \cup Permutations(Texts)
=============================================================================
