-------------------------- MODULE MCWorkflowHistory --------------------------
(***************************************************************************)
(* Small instances of WorkflowHistory: an old program that knows executor  *)
(* 1 of a definition, a new one that knows 2 as well, and two files of the *)
(* same workflow, the newer of which has one node less.                    *)
(***************************************************************************)
EXTENDS WorkflowHistory

Old == "old program"
New == "new program"

TwoProcesses == {Old, New}

SeedsOf ==
  [p \in TwoProcesses |-> [d \in {"coder"} |-> IF p = Old THEN {1} ELSE {1, 2}]]

Spec1 == [def |-> "coder", executor |-> 1]
Unpinned == [def |-> "coder", executor |-> 0]

PlanOf ==
  [p \in TwoProcesses |->
     IF p = Old THEN [n \in {"code", "test"} |-> IF n = "code" THEN Unpinned ELSE Spec1]
     ELSE [n \in {"code"} |-> Unpinned]]

Typed == {{Old}, {Old, New}}
\* The old program's engine is only started and stopped.
RoundsOf == [p \in TwoProcesses |-> IF p = Old THEN 0 ELSE 2]

NoDatabaseOrOld == {0, 3}
=============================================================================
