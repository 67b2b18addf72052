----------------------------- MODULE RunRecord -----------------------------
(***************************************************************************)
(* What the history of workflow Runs promises to its readers: a Run is     *)
(* listed with all of its nodes from the first; nothing that was found is  *)
(* taken back, a round is found again under its id and no earlier in its   *)
(* course; of the rounds of a node, numbered without a gap, only the       *)
(* newest may be under way; and a Run that is finished never changes.      *)
(***************************************************************************)
EXTENDS Naturals

CONSTANT Runs

VARIABLE record  \* run -> what a reader finds of it

Absent == [status |-> "absent", finished |-> FALSE, rounds |-> {}]

RecordInit == record = [r \in Runs |-> Absent]

\* The course of a round.
Stage ==
  [Pending |-> 0, Ready |-> 1, WaitingHuman |-> 2, Running |-> 3, Succeeded |-> 4, Failed |-> 4]

Ended == {"Succeeded", "Failed"}

\* A node that waited before its first round keeps its entry for it.
GoesOn(before, after) ==
  /\ after.id = before.id /\ after.node = before.node
  /\ after.round = before.round \/ (before.round = 0 /\ after.round = 1)
  /\ after.status = before.status \/ Stage[before.status] < Stage[after.status]

Listed(run) == {h.node : h \in run.rounds}

NothingTakenBack(before, after) ==
  /\ \A h \in before.rounds : \E g \in after.rounds : GoesOn(h, g)
  /\ before.status = "Failed" => after.status = "Failed"
  /\ before # Absent => Listed(after) = Listed(before)

WellNumbered(rounds) ==
  \A h \in rounds :
    /\ h.round > 1 => \E g \in rounds : g.node = h.node /\ g.round = h.round - 1
    /\ \A g \in rounds :
         /\ g.id = h.id \/ (g.node = h.node /\ g.round = h.round) => g = h
         /\ g.node = h.node /\ g.round < h.round => g.status \in Ended

\* A prompt that was cancelled stays as it was.
Settled(run) ==
  IF run.finished
    THEN /\ run.status \in {"Stopped", "Failed"}
         /\ \A h \in run.rounds : h.status \in Ended \cup {"Pending", "WaitingHuman"}
    ELSE run.status \in {"Running", "Failed"}

\* A transaction of the process of r.
Write(r) ==
  /\ ~ record[r].finished
  /\ record' = [record EXCEPT ![r] = record'[r]]
  /\ NothingTakenBack(record[r], record'[r])
  /\ WellNumbered(record'[r].rounds)
  /\ Settled(record'[r])

RecordNext == \E r \in Runs : Write(r)

RecordSpec == RecordInit /\ [][RecordNext]_record
=============================================================================
