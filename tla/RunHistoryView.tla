--------------------------- MODULE RunHistoryView ---------------------------
(***************************************************************************)
(* A reader of the history beside the writers of ProductRun:               *)
(* GetProductRun (internal/history/product_history.go) reads the Run row,  *)
(* its node runs and its artifacts in three queries and no transaction, so *)
(* the transactions of a StartRun call or of a restart may fall between.   *)
(***************************************************************************)
EXTENDS ProductRun

CONSTANT NoRun  \* a reader that has asked for nothing

ASSUME NoRunAssumption == NoRun \notin RunIds

VARIABLE view  \* the Run that is read and what has been read of it so far

viewVars == <<view, vars>>

Parts == {"status", "nodes", "artifacts"}

EmptyView ==
  [run |-> NoRun, read |-> {}, status |-> "absent", nodes |-> NoNodes, artifacts |-> {}]

ViewInit == Init /\ view = EmptyView
-----------------------------------------------------------------------------
\* Seeded fault: the Run row is read last.
ReadBeforeReversed ==
  [status |-> {"nodes", "artifacts"}, nodes |-> {"artifacts"}, artifacts |-> {}]

\* The order of the three queries: what has been read before each.
ReadBefore ==
  [status |-> {}, nodes |-> {"status"}, artifacts |-> {"status", "nodes"}]

\* The user opens a Run of the history list.
OpenRun(r) ==
  /\ up # {}
  /\ runs[r] # NoRow
  /\ view' = [EmptyView EXCEPT !.run = r]
  /\ UNCHANGED vars

Reads(part) ==
  /\ view.run # NoRun
  /\ view.read = ReadBefore[part]

ReadStatus ==
  /\ Reads("status")
  /\ view' = [view EXCEPT !.read = @ \cup {"status"}, !.status = runs[view.run].status]
  /\ UNCHANGED vars

\* listProductNodeRuns
ReadNodes ==
  /\ Reads("nodes")
  /\ view' = [view EXCEPT !.read = @ \cup {"nodes"}, !.nodes = nodes[view.run]]
  /\ UNCHANGED vars

\* listProductRunArtifacts
ReadArtifacts ==
  /\ Reads("artifacts")
  /\ view' = [view EXCEPT !.read = @ \cup {"artifacts"}, !.artifacts = artifacts[view.run]]
  /\ UNCHANGED vars

ViewNext ==
  \/ Next /\ view' = IF up' = {} THEN EmptyView ELSE view
  \/ \E r \in RunIds : OpenRun(r)
  \/ ReadStatus
  \/ ReadNodes
  \/ ReadArtifacts

ViewSpec == ViewInit /\ [][ViewNext]_viewVars
FairViewSpec == ViewSpec /\ Reopening
-----------------------------------------------------------------------------
(* Properties.                                                             *)

Read == view.read = Parts

\* What a reader is shown as closed is all there: no agent at work, and for a Run that
\* succeeded both turns and both conversations.  The row is read first and a closed Run is
\* never written again, so the two later queries can only find more.
ClosedViewIsComplete ==
  Read /\ view.status # "running" =>
    /\ view.nodes.agent # "running"
    /\ view.status = "succeeded" =>
         /\ view.nodes = [human |-> "succeeded", agent |-> "succeeded"]
         /\ view.artifacts = Ports
=============================================================================
