----------------------------- MODULE RunArchive -----------------------------
(***************************************************************************)
(* What the history of Product Runs promises to its readers: a Run appears *)
(* once, running, with a definition that never changes; its evidence only  *)
(* grows while it runs; it closes once, and a closed Run never changes;    *)
(* a Run that succeeded shows both turns and both conversations, and no    *)
(* closed Run shows a node still at work.                                  *)
(***************************************************************************)
EXTENDS Naturals

CONSTANTS RunIds, Definitions

VARIABLE archive  \* run -> what a reader finds of it

Absent == [status |-> "absent"]

Evidence == [human : {"none", "succeeded"},
             agent : {"none", "running", "succeeded", "failed", "unknown-outcome"},
             artifacts : SUBSET {"source", "final"}]

Nothing == [human |-> "none", agent |-> "none", artifacts |-> {}]

Complete == [human |-> "succeeded", agent |-> "succeeded", artifacts |-> {"source", "final"}]

ArchiveInit == archive = [r \in RunIds |-> Absent]

\* Only r changes, and into one of these.
Becomes(r, found) == archive'[r] \in found /\ archive' = [archive EXCEPT ![r] = archive'[r]]

Publish(r) ==
  /\ archive[r] = Absent
  /\ Becomes(r, [status : {"running"}, definition : Definitions, evidence : {Nothing}])

Progress(r) ==
  /\ archive[r].status = "running"
  /\ archive[r].evidence.agent = "none"
  /\ archive' = [archive EXCEPT ![r].evidence =
       [human |-> "succeeded", agent |-> "running", artifacts |-> {"source"}]]

Grows(before, after) ==
  /\ before.human = "succeeded" => after.human = "succeeded"
  /\ before.artifacts \subseteq after.artifacts
  /\ after.agent # "running"

Close(r) ==
  /\ archive[r].status = "running"
  /\ Becomes(r, [status : {"succeeded", "failed", "interrupted"},
                 definition : {archive[r].definition},
                 evidence : Evidence])
  /\ Grows(archive[r].evidence, archive'[r].evidence)
  /\ archive'[r].status = "succeeded" <=> archive'[r].evidence = Complete

\* A restart closes whatever the last process left running; finished evidence stays.
Interrupted(run) ==
  [run EXCEPT !.status = "interrupted",
              !.evidence.agent = IF @ = "running" THEN "unknown-outcome" ELSE @]

CloseLeftovers ==
  archive' = [r \in RunIds |->
    IF archive[r].status = "running" THEN Interrupted(archive[r]) ELSE archive[r]]

ArchiveNext ==
  \/ \E r \in RunIds : Publish(r) \/ Progress(r) \/ Close(r)
  \/ CloseLeftovers

ArchiveSpec == ArchiveInit /\ [][ArchiveNext]_archive
=============================================================================
