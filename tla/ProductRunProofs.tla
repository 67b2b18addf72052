-------------------------- MODULE ProductRunProofs --------------------------
(***************************************************************************)
(* Theorems about ProductRun, for any number of processes, calls, texts    *)
(* and models: type correctness, what a lock version means, what a Run is  *)
(* bound to, and that the stored history implements RunArchive.  From the  *)
(* latter follows what a reader of three queries may believe: a closed Run *)
(* never changes, so what is read of it at three moments is what stands at *)
(* the last of them.                                                       *)
(***************************************************************************)
EXTENDS RunHistoryView, SequenceTheorems, TLAPS

-----------------------------------------------------------------------------
(* The inductive invariant.                                                *)

\* Before BeginRun a call has no row; from there on it has one.
CallsHaveRows ==
  \A r \in RunIds :
    /\ calls[r].at \in {"unused", "read", "resolved"} => runs[r] = NoRow
    /\ calls[r].at \in {"begun", "sourced", "calling", "ending"} => runs[r] # NoRow
    /\ calls[r].at = "resolved" => calls[r].draft.model \in Models

\* Evidence is recorded when the call reaches its stage and not before.
EvidenceFollowsCalls ==
  \A r \in RunIds :
    /\ runs[r] = NoRow \/ calls[r].at \in {"begun", "sourced"} =>
         nodes[r] = NoNodes /\ artifacts[r] = {}
    /\ calls[r].at \in {"sourced", "calling"} => "source" \in files[r]
    /\ calls[r].at = "calling" => artifacts[r] \subseteq {"source"}

\* An ending completes what is recorded: it takes nothing back, leaves no agent at work and
\* is a success exactly when everything is there.
EndingFits(r, e) ==
  /\ e.status # "none"
  /\ e.nodes.agent # "running"
  /\ nodes[r].human = "succeeded" => e.nodes.human = "succeeded"
  /\ e.nodes.agent = "none" => nodes[r].agent = "none"
  /\ artifacts[r] \subseteq e.artifacts
  /\ e.artifacts \subseteq files[r]
  /\ e.nodes.agent = "succeeded" => e.status = "succeeded"
  /\ e.status = "succeeded" =>
       e.nodes.human = "succeeded" /\ e.nodes.agent = "succeeded" /\ e.artifacts = Ports

EndingsFit == \A r \in RunIds : calls[r].at = "ending" => EndingFits(r, calls[r].ending)

\* No closed Run shows an agent at work, whoever closed it and in whatever order the calls of
\* two processes ran: part of what RunArchive says of a closed Run, here of its rows.
ClosedRunIsSettled ==
  \A r \in RunIds : runs[r].status # "running" => nodes[r].agent # "running"

\* No window and no call is ahead of the row.
VersionsAreOld ==
  /\ \A p \in Processes : page[p].version <= draft.version
  /\ \A r \in RunIds : calls[r].draft.version <= draft.version

IInv ==
  /\ TypeOK
  /\ CallsHaveRows
  /\ EvidenceFollowsCalls
  /\ EndingsFit
  /\ VersionsAreOld
  /\ TokenNamesContent
  /\ RunMatchesItsRevision
  /\ ClosedRunIsSettled
  /\ ArtifactsAreOnDisk
-----------------------------------------------------------------------------
(* Types.                                                                  *)

LEMMA DraftTypes ==
  ASSUME TypeOK, NEW token \in Nat, NEW d \in Drafts
  PROVE  /\ DraftAfterSave(token, d) \in Drafts
         /\ DraftAfterBegin(d) \in Drafts
         /\ d.model \in Models => Definition(d) \in [meaning : Meanings, model : Models]
  <1>1. draft \in Drafts /\ draft.version + 1 \in Nat
    BY DEF TypeOK, Drafts
  <1>2. [d EXCEPT !.version = draft.version + 1] \in Drafts
    BY <1>1 DEF Drafts
  <1>3. Meaning[d.text] \in Meanings
    BY ContentAssumption DEF Drafts
  <1>4. QED
    BY <1>1, <1>2, <1>3 DEF DraftAfterSave, DraftAfterBegin, Definition

LEMMA StepType ==
  ASSUME TypeOK, NEW r \in RunIds, NEW e \in Endings,
         NEW at \in {"begun", "sourced", "calling", "ending", "over", "resolved"}
  PROVE  /\ Step(r, at) => calls' \in [RunIds -> Calls]
         /\ EndsWith(r, e) => calls' \in [RunIds -> Calls]
  <1>1. calls[r] \in Calls
    BY DEF TypeOK
  <1>2. /\ [calls[r] EXCEPT !.at = at] \in Calls
        /\ [calls[r] EXCEPT !.at = "ending", !.ending = e] \in Calls
    BY <1>1 DEF Calls
  <1>3. QED
    BY <1>2 DEF TypeOK, Step, EndsWith

LEMMA EndingType ==
  ASSUME NEW status \in {"failed", "interrupted", "succeeded"},
         NEW human \in {"none", "succeeded"},
         NEW agent \in {"none", "succeeded", "failed", "unknown-outcome"},
         NEW items \in SUBSET Ports
  PROVE  Ending(status, human, agent, items) \in Endings
  BY DEF Ending, Endings, NodeStates

LEMMA RevisionForType ==
  ASSUME TypeOK, NEW d \in Drafts
  PROVE  /\ RevisionFor(d) \in Nat \ {0}
         /\ RevisionsOf(d) # {} => /\ RevisionFor(d) \in DOMAIN revisions
                                   /\ revisions[RevisionFor(d)] = Definition(d)
  <1>1. DOMAIN revisions = 1..Len(revisions) /\ Len(revisions) \in Nat
    BY DEF TypeOK
  <1>2. RevisionsOf(d) # {} => RevisionFor(d) \in RevisionsOf(d)
    BY DEF RevisionFor
  <1>3. QED
    BY <1>1, <1>2 DEF RevisionFor, RevisionsOf

LEMMA InitTyped == Init => IInv
  <1> SUFFICES ASSUME Init PROVE IInv
    OBVIOUS
  <1>1. NoDraft \in Drafts /\ draft \in Drafts
    BY ContentAssumption DEF Init, NoDraft, Drafts, Preference
  <1>2. NoEnding \in Endings /\ NoNodes \in NodeStates
    BY DEF NoEnding, Ending, Endings, NoNodes, NodeStates
  <1>3. TypeOK
    <2>1. revisions \in Seq([meaning : Meanings, model : Models])
      BY DEF Init
    <2>2. (CHOOSE p \in Processes : TRUE) \in Processes
      BY ContentAssumption
    <2>3. calls \in [RunIds -> Calls]
      BY <1>1, <1>2, <2>2 DEF Init, Calls
    <2>4. QED
      BY <1>1, <1>2, <2>1, <2>3 DEF Init, TypeOK, RunRows, NoRow
  <1>4. Holders = {draft}
    BY DEF Init, Holders, NoDraft
  <1>5. TokenNamesContent
    BY <1>4, <1>1 DEF TokenNamesContent, SameContent, Init, NoDraft
  <1>6. QED
    <2>1. CallsHaveRows /\ EvidenceFollowsCalls /\ EndingsFit
      BY DEF Init, CallsHaveRows, EvidenceFollowsCalls, EndingsFit
    <2>2. VersionsAreOld
      <3>1. draft.version = 1 /\ NoDraft.version = 0
        BY DEF Init, NoDraft
      <3>2. /\ \A p \in Processes : page[p] = NoDraft
            /\ \A r \in RunIds : calls[r].draft = NoDraft
        BY DEF Init
      <3>3. QED
        BY <3>1, <3>2 DEF VersionsAreOld
    <2>3. RunMatchesItsRevision /\ ClosedRunIsSettled /\ ArtifactsAreOnDisk
      BY DEF Init, RunMatchesItsRevision, ClosedRunIsSettled, ArtifactsAreOnDisk, NoNodes
    <2>4. QED
      BY <1>3, <1>5, <2>1, <2>2, <2>3 DEF IInv

LEMMA TypeStep ==
  ASSUME IInv, [Next]_vars
  PROVE  TypeOK'
  <1>1. ASSUME NEW p \in Processes, OpenWorkspace(p) PROVE TypeOK'
    <2>1. runs' \in [RunIds -> RunRows]
      BY <1>1 DEF IInv, TypeOK, OpenWorkspace, Unfinished, RunRows, NoRow
    <2>2. nodes' \in [RunIds -> NodeStates]
      BY <1>1 DEF IInv, TypeOK, OpenWorkspace, NodeStates
    <2>3. QED
      BY <1>1, <2>1, <2>2 DEF IInv, TypeOK, OpenWorkspace
  <1>2. ASSUME NEW p \in Processes, OpenWorkspaceFails(p) PROVE TypeOK'
    BY <1>2, ContentAssumption DEF IInv, TypeOK, OpenWorkspaceFails, rows
  <1>3. ASSUME NEW p \in Processes, Exit(p) PROVE TypeOK'
    <2>1. NoDraft \in Drafts
      BY ContentAssumption DEF NoDraft, Drafts, Preference
    <2>2. page' \in [Processes -> Drafts]
      BY <1>3, <2>1 DEF IInv, TypeOK, Exit
    <2>3. calls' \in [RunIds -> Calls]
      BY SMTT(30), <1>3 DEF IInv, TypeOK, Exit, Calls
    <2>4. QED
      BY <1>3, <2>2, <2>3 DEF IInv, TypeOK, Exit, rows
  <1>4. ASSUME NEW p \in Processes, GetDraft(p) PROVE TypeOK'
    BY <1>4, ContentAssumption DEF IInv, TypeOK, GetDraft, rows
  <1>5. ASSUME NEW p \in Processes, UpdateDraft(p) PROVE TypeOK'
    <2>1. PICK text \in Texts, model \in liveModels \cup {NoModel, page[p].model} :
            draft' = DraftAfterSave(page[p].version, [text |-> text, model |-> model, version |-> 0])
      BY <1>5 DEF UpdateDraft
    <2>2. page[p].version \in Nat /\ [text |-> text, model |-> model, version |-> 0] \in Drafts
      BY DEF IInv, TypeOK, Drafts, Preference
    <2>3. draft' \in Drafts
      BY <2>1, <2>2, DraftTypes DEF IInv
    <2>4. QED
      BY <1>5, <2>3 DEF IInv, TypeOK, UpdateDraft, rows
  <1>6. ASSUME NEW m \in Models, DeleteModel(m) PROVE TypeOK'
    BY <1>6, ContentAssumption DEF IInv, TypeOK, DeleteModel, rows
  <1>7. ASSUME NEW p \in Processes, NEW r \in RunIds, ReadDraft(p, r) PROVE TypeOK'
    <2>1. NoEnding \in Endings
      BY DEF NoEnding, Ending, Endings, NodeStates
    <2>2. calls' \in [RunIds -> Calls]
      BY <1>7, <2>1 DEF IInv, TypeOK, ReadDraft, Calls
    <2>3. QED
      BY <1>7, <2>2 DEF IInv, TypeOK, ReadDraft, rows
  <1>8. ASSUME NEW r \in RunIds, MaterializeModel(r) PROVE TypeOK'
    <2>1. PICK m \in liveModels :
            calls' = [calls EXCEPT ![r].at = "resolved", ![r].draft.model = m]
      BY <1>8 DEF MaterializeModel
    <2>2. [calls[r].draft EXCEPT !.model = m] \in Drafts
      BY DEF IInv, TypeOK, Calls, Drafts, Preference
    <2>3. calls' \in [RunIds -> Calls]
      BY ZenonT(30), <2>1, <2>2 DEF IInv, TypeOK, Calls
    <2>4. QED
      BY <1>8, <2>3 DEF IInv, TypeOK, MaterializeModel, rows
  <1>9. ASSUME NEW r \in RunIds, PreflightFails(r) PROVE TypeOK'
    <2>1. NoEnding \in Endings
      BY DEF NoEnding, Ending, Endings, NodeStates
    <2>2. calls' \in [RunIds -> Calls]
      BY <1>9, <2>1, StepType DEF IInv, PreflightFails
    <2>3. QED
      BY <1>9, <2>2 DEF IInv, TypeOK, PreflightFails, rows, NodeStates, Ports
  <1>10. ASSUME NEW r \in RunIds, BeginRun(r) PROVE TypeOK'
    <2> DEFINE d == calls[r].draft
    <2>1. d \in Drafts /\ d.model \in Models
      BY <1>10 DEF IInv, TypeOK, Calls, CallsHaveRows, BeginRun
    <2>2. draft' \in Drafts /\ Definition(d) \in [meaning : Meanings, model : Models]
      BY <1>10, <2>1, DraftTypes, 0 \in Nat DEF IInv, BeginRun
    <2>3. revisions' \in Seq([meaning : Meanings, model : Models])
      BY <1>10, <2>2, AppendProperties DEF IInv, TypeOK, BeginRun
    <2>4. RevisionFor(d) \in Nat \ {0}
      BY <2>1, RevisionForType DEF IInv
    <2>5. runs' \in [RunIds -> RunRows]
      BY <1>10, <2>1, <2>4 DEF IInv, TypeOK, BeginRun, RunRows
    <2>6. calls' \in [RunIds -> Calls]
      BY ZenonT(30), <1>10, <2>2 DEF IInv, TypeOK, BeginRun, Calls
    <2>7. QED
      BY <1>10, <2>2, <2>3, <2>5, <2>6 DEF IInv, TypeOK, BeginRun
  <1>11. ASSUME NEW r \in RunIds, PutSource(r) PROVE TypeOK'
    <2>1. NoEnding \in Endings
      BY DEF NoEnding, Ending, Endings, NodeStates
    <2>2. calls' \in [RunIds -> Calls]
      BY <1>11, <2>1, StepType DEF IInv, PutSource
    <2>3. QED
      BY <1>11, <2>2 DEF IInv, TypeOK, PutSource, rows, NodeStates, Ports
  <1>12. ASSUME NEW r \in RunIds, PutSourceFails(r) PROVE TypeOK'
    <2>1. calls' \in [RunIds -> Calls]
      BY <1>12, StepType, EndingType DEF IInv, PutSourceFails, Ports
    <2>2. QED
      BY <1>12, <2>1 DEF IInv, TypeOK, PutSourceFails, rows, Ports
  <1>13. ASSUME NEW r \in RunIds, RecordProgress(r) PROVE TypeOK'
    <2>1. NoEnding \in Endings
      BY DEF NoEnding, Ending, Endings, NodeStates
    <2>2. calls' \in [RunIds -> Calls]
      BY <1>13, <2>1, StepType DEF IInv, RecordProgress
    <2>3. QED
      BY <1>13, <2>2 DEF IInv, TypeOK, RecordProgress, rows, NodeStates, Ports
  <1>14. ASSUME NEW r \in RunIds, RecordProgressFails(r) PROVE TypeOK'
    <2>1. calls' \in [RunIds -> Calls]
      BY <1>14, StepType, EndingType DEF IInv, RecordProgressFails, Ports
    <2>2. QED
      BY <1>14, <2>1 DEF IInv, TypeOK, RecordProgressFails, rows, Ports
  <1>15. ASSUME NEW r \in RunIds, Answer(r) PROVE TypeOK'
    <2>1. calls' \in [RunIds -> Calls]
      BY <1>15, StepType, EndingType DEF IInv, Answer, Ports
    <2>2. QED
      BY <1>15, <2>1 DEF IInv, TypeOK, Answer, rows, Ports
  <1>16. ASSUME NEW r \in RunIds, AgentFails(r) PROVE TypeOK'
    <2>1. calls' \in [RunIds -> Calls]
      BY <1>16, StepType, EndingType DEF IInv, AgentFails, Ports
    <2>2. QED
      BY <1>16, <2>1 DEF IInv, TypeOK, AgentFails, rows, Ports
  <1>17. ASSUME NEW r \in RunIds, AgentIsCancelled(r) PROVE TypeOK'
    <2>1. calls' \in [RunIds -> Calls]
      BY <1>17, StepType, EndingType DEF IInv, AgentIsCancelled, Ports
    <2>2. QED
      BY <1>17, <2>1 DEF IInv, TypeOK, AgentIsCancelled, rows, Ports
  <1>18. ASSUME NEW r \in RunIds, FinishRun(r) PROVE TypeOK'
    <2> DEFINE e == calls[r].ending
    <2>1. e \in Endings /\ e.status # "none" /\ calls[r].draft \in Drafts /\ calls[r].process \in Processes
      BY <1>18 DEF IInv, TypeOK, Calls, FinishRun, EndingsFit, EndingFits
    <2>2. runs' \in [RunIds -> RunRows]
      BY <1>18, <2>1 DEF IInv, TypeOK, FinishRun, AcceptsEnding, RunRows, NoRow, Endings
    <2>3. nodes' \in [RunIds -> NodeStates]
      BY <1>18, <2>1 DEF IInv, TypeOK, FinishRun, NodeStates, Endings, Upsert
    <2>4. artifacts' \in [RunIds -> SUBSET Ports] /\ page' \in [Processes -> Drafts]
      BY <1>18, <2>1 DEF IInv, TypeOK, FinishRun, Endings
    <2>5. NoEnding \in Endings
      BY DEF NoEnding, Ending, Endings, NodeStates
    <2>6. calls' \in [RunIds -> Calls]
      BY <1>18, <2>5, StepType DEF IInv, FinishRun
    <2>7. QED
      BY <1>18, <2>2, <2>3, <2>4, <2>6 DEF IInv, TypeOK, FinishRun
  <1>19. ASSUME NEW r \in RunIds, FinishRunFails(r) PROVE TypeOK'
    <2>1. NoEnding \in Endings
      BY DEF NoEnding, Ending, Endings, NodeStates
    <2>2. calls' \in [RunIds -> Calls]
      BY <1>19, <2>1, StepType DEF IInv, FinishRunFails
    <2>3. QED
      BY <1>19, <2>2 DEF IInv, TypeOK, FinishRunFails, rows, NodeStates, Ports
  <1>20. CASE UNCHANGED vars
    BY <1>20 DEF vars, rows, IInv, TypeOK
  <1>21. QED
    BY <1>1, <1>2, <1>3, <1>4, <1>5, <1>6, <1>7, <1>8, <1>9, <1>10, <1>11, <1>12, <1>13, <1>14,
       <1>15, <1>16, <1>17, <1>18, <1>19, <1>20 DEF Next, Begins, Executes
-----------------------------------------------------------------------------
(* What the steps preserve.                                                *)

LEMMA RowsStep ==
  ASSUME IInv, [Next]_vars
  PROVE  CallsHaveRows'
  <1>1. ASSUME NEW p \in Processes, OpenWorkspace(p) PROVE CallsHaveRows'
    BY <1>1 DEF IInv, TypeOK, OpenWorkspace, CallsHaveRows, Calls, Unfinished, NoRow
  <1>2. ASSUME NEW p \in Processes, OpenWorkspaceFails(p) PROVE CallsHaveRows'
    BY <1>2 DEF IInv, TypeOK, OpenWorkspaceFails, rows, CallsHaveRows, Calls
  <1>3. ASSUME NEW p \in Processes, Exit(p) PROVE CallsHaveRows'
    BY <1>3 DEF IInv, TypeOK, Exit, rows, CallsHaveRows, Calls
  <1>4. ASSUME NEW p \in Processes, GetDraft(p) PROVE CallsHaveRows'
    BY <1>4 DEF IInv, TypeOK, GetDraft, rows, CallsHaveRows, Calls
  <1>5. ASSUME NEW p \in Processes, UpdateDraft(p) PROVE CallsHaveRows'
    BY <1>5 DEF IInv, TypeOK, UpdateDraft, rows, CallsHaveRows, Calls
  <1>6. ASSUME NEW m \in Models, DeleteModel(m) PROVE CallsHaveRows'
    BY <1>6 DEF IInv, TypeOK, DeleteModel, rows, CallsHaveRows, Calls
  <1>7. ASSUME NEW p \in Processes, NEW r \in RunIds, ReadDraft(p, r) PROVE CallsHaveRows'
    BY <1>7 DEF IInv, TypeOK, ReadDraft, rows, CallsHaveRows, Calls
  <1>8. ASSUME NEW r \in RunIds, MaterializeModel(r) PROVE CallsHaveRows'
    BY <1>8 DEF IInv, TypeOK, MaterializeModel, rows, CallsHaveRows, Calls
  <1>9. ASSUME NEW r \in RunIds, PreflightFails(r) PROVE CallsHaveRows'
    BY <1>9 DEF IInv, TypeOK, PreflightFails, rows, CallsHaveRows, Calls, Step
  <1>10. ASSUME NEW r \in RunIds, BeginRun(r) PROVE CallsHaveRows'
    BY <1>10 DEF IInv, TypeOK, BeginRun, CallsHaveRows, Calls, NoRow
  <1>11. ASSUME NEW r \in RunIds, PutSource(r) PROVE CallsHaveRows'
    BY <1>11 DEF IInv, TypeOK, PutSource, rows, CallsHaveRows, Calls, Step
  <1>12. ASSUME NEW r \in RunIds, PutSourceFails(r) PROVE CallsHaveRows'
    BY <1>12 DEF IInv, TypeOK, PutSourceFails, rows, CallsHaveRows, Calls, EndsWith, Ending
  <1>13. ASSUME NEW r \in RunIds, RecordProgress(r) PROVE CallsHaveRows'
    BY <1>13 DEF IInv, TypeOK, RecordProgress, CallsHaveRows, Calls, Step, AcceptsProgress, NoRow
  <1>14. ASSUME NEW r \in RunIds, RecordProgressFails(r) PROVE CallsHaveRows'
    BY <1>14 DEF IInv, TypeOK, RecordProgressFails, rows, CallsHaveRows, Calls, EndsWith, Ending
  <1>15. ASSUME NEW r \in RunIds, Answer(r) PROVE CallsHaveRows'
    BY <1>15 DEF IInv, TypeOK, Answer, rows, CallsHaveRows, Calls, EndsWith, Ending, Ports
  <1>16. ASSUME NEW r \in RunIds, AgentFails(r) PROVE CallsHaveRows'
    BY <1>16 DEF IInv, TypeOK, AgentFails, rows, CallsHaveRows, Calls, EndsWith, Ending
  <1>17. ASSUME NEW r \in RunIds, AgentIsCancelled(r) PROVE CallsHaveRows'
    BY <1>17 DEF IInv, TypeOK, AgentIsCancelled, rows, CallsHaveRows, Calls, EndsWith, Ending
  <1>18. ASSUME NEW r \in RunIds, FinishRun(r) PROVE CallsHaveRows'
    BY <1>18 DEF IInv, TypeOK, FinishRun, CallsHaveRows, Calls, Step, AcceptsEnding, NoRow
  <1>19. ASSUME NEW r \in RunIds, FinishRunFails(r) PROVE CallsHaveRows'
    BY <1>19 DEF IInv, TypeOK, FinishRunFails, rows, CallsHaveRows, Calls, Step
  <1>20. CASE UNCHANGED vars
    BY <1>20 DEF vars, rows, IInv, CallsHaveRows
  <1>21. QED
    BY <1>1, <1>2, <1>3, <1>4, <1>5, <1>6, <1>7, <1>8, <1>9, <1>10, <1>11, <1>12, <1>13, <1>14,
       <1>15, <1>16, <1>17, <1>18, <1>19, <1>20 DEF Next, Begins, Executes

LEMMA EvidenceStep ==
  ASSUME IInv, [Next]_vars
  PROVE  EvidenceFollowsCalls'
  <1>1. ASSUME NEW p \in Processes, OpenWorkspace(p) PROVE EvidenceFollowsCalls'
    BY <1>1 DEF IInv, TypeOK, OpenWorkspace, CallsHaveRows, EvidenceFollowsCalls, Calls,
       Unfinished, NoRow, NoNodes
  <1>2. ASSUME NEW p \in Processes, OpenWorkspaceFails(p) PROVE EvidenceFollowsCalls'
    BY <1>2 DEF IInv, TypeOK, OpenWorkspaceFails, rows, CallsHaveRows, EvidenceFollowsCalls, Calls
  <1>3. ASSUME NEW p \in Processes, Exit(p) PROVE EvidenceFollowsCalls'
    BY <1>3 DEF IInv, TypeOK, Exit, rows, CallsHaveRows, EvidenceFollowsCalls, Calls
  <1>4. ASSUME NEW p \in Processes, GetDraft(p) PROVE EvidenceFollowsCalls'
    BY <1>4 DEF IInv, TypeOK, GetDraft, rows, CallsHaveRows, EvidenceFollowsCalls, Calls
  <1>5. ASSUME NEW p \in Processes, UpdateDraft(p) PROVE EvidenceFollowsCalls'
    BY <1>5 DEF IInv, TypeOK, UpdateDraft, rows, CallsHaveRows, EvidenceFollowsCalls, Calls
  <1>6. ASSUME NEW m \in Models, DeleteModel(m) PROVE EvidenceFollowsCalls'
    BY <1>6 DEF IInv, TypeOK, DeleteModel, rows, CallsHaveRows, EvidenceFollowsCalls, Calls
  <1>7. ASSUME NEW p \in Processes, NEW r \in RunIds, ReadDraft(p, r) PROVE EvidenceFollowsCalls'
    BY <1>7 DEF IInv, TypeOK, ReadDraft, rows, CallsHaveRows, EvidenceFollowsCalls, Calls
  <1>8. ASSUME NEW r \in RunIds, MaterializeModel(r) PROVE EvidenceFollowsCalls'
    BY <1>8 DEF IInv, TypeOK, MaterializeModel, rows, CallsHaveRows, EvidenceFollowsCalls, Calls
  <1>9. ASSUME NEW r \in RunIds, PreflightFails(r) PROVE EvidenceFollowsCalls'
    BY <1>9 DEF IInv, TypeOK, PreflightFails, rows, CallsHaveRows, EvidenceFollowsCalls, Calls,
       Step
  <1>10. ASSUME NEW r \in RunIds, BeginRun(r) PROVE EvidenceFollowsCalls'
    BY <1>10 DEF IInv, TypeOK, BeginRun, CallsHaveRows, EvidenceFollowsCalls, Calls, NoRow
  <1>11. ASSUME NEW r \in RunIds, PutSource(r) PROVE EvidenceFollowsCalls'
    BY <1>11 DEF IInv, TypeOK, PutSource, rows, CallsHaveRows, EvidenceFollowsCalls, Calls, Step
  <1>12. ASSUME NEW r \in RunIds, PutSourceFails(r) PROVE EvidenceFollowsCalls'
    BY <1>12 DEF IInv, TypeOK, PutSourceFails, rows, CallsHaveRows, EvidenceFollowsCalls, Calls,
       EndsWith, Ending, NoNodes
  <1>13. ASSUME NEW r \in RunIds, RecordProgress(r) PROVE EvidenceFollowsCalls'
    BY <1>13 DEF IInv, TypeOK, RecordProgress, CallsHaveRows, EvidenceFollowsCalls, Calls, Step,
       AcceptsProgress, NoRow
  <1>14. ASSUME NEW r \in RunIds, RecordProgressFails(r) PROVE EvidenceFollowsCalls'
    BY <1>14 DEF IInv, TypeOK, RecordProgressFails, rows, CallsHaveRows, EvidenceFollowsCalls,
       Calls, EndsWith, Ending, NoNodes
  <1>15. ASSUME NEW r \in RunIds, Answer(r) PROVE EvidenceFollowsCalls'
    BY <1>15 DEF IInv, TypeOK, Answer, rows, CallsHaveRows, EvidenceFollowsCalls, Calls,
       EndsWith, Ending, Ports
  <1>16. ASSUME NEW r \in RunIds, AgentFails(r) PROVE EvidenceFollowsCalls'
    BY <1>16 DEF IInv, TypeOK, AgentFails, rows, CallsHaveRows, EvidenceFollowsCalls, Calls,
       EndsWith, Ending
  <1>17. ASSUME NEW r \in RunIds, AgentIsCancelled(r) PROVE EvidenceFollowsCalls'
    BY <1>17 DEF IInv, TypeOK, AgentIsCancelled, rows, CallsHaveRows, EvidenceFollowsCalls,
       Calls, EndsWith, Ending
  <1>18. ASSUME NEW r \in RunIds, FinishRun(r) PROVE EvidenceFollowsCalls'
    <2>1. /\ calls[r].ending \in Endings
          /\ runs[r] \in RunRows /\ runs[r].status = "running"
      BY <1>18 DEF IInv, TypeOK, Calls, FinishRun, AcceptsEnding
    <2>2. runs'[r].status = calls[r].ending.status
      BY <1>18, <2>1 DEF IInv, TypeOK, FinishRun, RunRows, NoRow
    <2>3. runs'[r] # NoRow
      BY <2>1, <2>2 DEF NoRow, Endings
    <2>4. \A q \in RunIds \ {r} :
            /\ runs'[q] = runs[q] /\ nodes'[q] = nodes[q] /\ artifacts'[q] = artifacts[q]
            /\ calls'[q] = calls[q] /\ files'[q] = files[q]
      BY <1>18 DEF IInv, TypeOK, FinishRun, Step
    <2>5. calls'[r].at = "over"
      BY <1>18 DEF IInv, TypeOK, Calls, FinishRun, Step
    <2>6. QED
      BY <2>3, <2>4, <2>5 DEF IInv, EvidenceFollowsCalls
  <1>19. ASSUME NEW r \in RunIds, FinishRunFails(r) PROVE EvidenceFollowsCalls'
    BY <1>19 DEF IInv, TypeOK, FinishRunFails, rows, CallsHaveRows, EvidenceFollowsCalls, Calls,
       Step
  <1>20. CASE UNCHANGED vars
    BY <1>20 DEF vars, rows, IInv, CallsHaveRows, EvidenceFollowsCalls
  <1>21. QED
    BY <1>1, <1>2, <1>3, <1>4, <1>5, <1>6, <1>7, <1>8, <1>9, <1>10, <1>11, <1>12, <1>13, <1>14,
       <1>15, <1>16, <1>17, <1>18, <1>19, <1>20 DEF Next, Begins, Executes

LEMMA EndingsStep ==
  ASSUME IInv, [Next]_vars
  PROVE  EndingsFit'
  <1>1. ASSUME NEW p \in Processes, OpenWorkspace(p) PROVE EndingsFit'
    BY <1>1 DEF IInv, TypeOK, OpenWorkspace, CallsHaveRows, EvidenceFollowsCalls, EndingsFit,
       EndingFits, Calls, NodeStates, Unfinished, NoRow, NoNodes
  <1>2. ASSUME NEW p \in Processes, OpenWorkspaceFails(p) PROVE EndingsFit'
    BY <1>2 DEF IInv, TypeOK, OpenWorkspaceFails, rows, CallsHaveRows, EvidenceFollowsCalls,
       EndingsFit, EndingFits, Calls, NodeStates
  <1>3. ASSUME NEW p \in Processes, Exit(p) PROVE EndingsFit'
    BY <1>3 DEF IInv, TypeOK, Exit, rows, CallsHaveRows, EvidenceFollowsCalls, EndingsFit,
       EndingFits, Calls, NodeStates
  <1>4. ASSUME NEW p \in Processes, GetDraft(p) PROVE EndingsFit'
    BY <1>4 DEF IInv, TypeOK, GetDraft, rows, CallsHaveRows, EvidenceFollowsCalls, EndingsFit,
       EndingFits, Calls, NodeStates
  <1>5. ASSUME NEW p \in Processes, UpdateDraft(p) PROVE EndingsFit'
    BY <1>5 DEF IInv, TypeOK, UpdateDraft, rows, CallsHaveRows, EvidenceFollowsCalls, EndingsFit,
       EndingFits, Calls, NodeStates
  <1>6. ASSUME NEW m \in Models, DeleteModel(m) PROVE EndingsFit'
    BY <1>6 DEF IInv, TypeOK, DeleteModel, rows, CallsHaveRows, EvidenceFollowsCalls, EndingsFit,
       EndingFits, Calls, NodeStates
  <1>7. ASSUME NEW p \in Processes, NEW r \in RunIds, ReadDraft(p, r) PROVE EndingsFit'
    BY <1>7 DEF IInv, TypeOK, ReadDraft, rows, CallsHaveRows, EvidenceFollowsCalls, EndingsFit,
       EndingFits, Calls, NodeStates
  <1>8. ASSUME NEW r \in RunIds, MaterializeModel(r) PROVE EndingsFit'
    BY <1>8 DEF IInv, TypeOK, MaterializeModel, rows, CallsHaveRows, EvidenceFollowsCalls,
       EndingsFit, EndingFits, Calls, NodeStates
  <1>9. ASSUME NEW r \in RunIds, PreflightFails(r) PROVE EndingsFit'
    BY <1>9 DEF IInv, TypeOK, PreflightFails, rows, CallsHaveRows, EvidenceFollowsCalls,
       EndingsFit, EndingFits, Calls, NodeStates, Step
  <1>10. ASSUME NEW r \in RunIds, BeginRun(r) PROVE EndingsFit'
    BY <1>10 DEF IInv, TypeOK, BeginRun, CallsHaveRows, EvidenceFollowsCalls, EndingsFit,
       EndingFits, Calls, NodeStates, NoRow
  <1>11. ASSUME NEW r \in RunIds, PutSource(r) PROVE EndingsFit'
    BY <1>11 DEF IInv, TypeOK, PutSource, rows, CallsHaveRows, EvidenceFollowsCalls, EndingsFit,
       EndingFits, Calls, NodeStates, Step
  <1>12. ASSUME NEW r \in RunIds, PutSourceFails(r) PROVE EndingsFit'
    BY <1>12 DEF IInv, TypeOK, PutSourceFails, rows, CallsHaveRows, EvidenceFollowsCalls,
       EndingsFit, EndingFits, Calls, NodeStates, EndsWith, Ending, NoNodes
  <1>13. ASSUME NEW r \in RunIds, RecordProgress(r) PROVE EndingsFit'
    BY <1>13 DEF IInv, TypeOK, RecordProgress, CallsHaveRows, EvidenceFollowsCalls, EndingsFit,
       EndingFits, Calls, NodeStates, Step, AcceptsProgress, NoRow
  <1>14. ASSUME NEW r \in RunIds, RecordProgressFails(r) PROVE EndingsFit'
    BY <1>14 DEF IInv, TypeOK, RecordProgressFails, rows, CallsHaveRows, EvidenceFollowsCalls,
       EndingsFit, EndingFits, Calls, NodeStates, EndsWith, Ending, NoNodes
  <1>15. ASSUME NEW r \in RunIds, Answer(r) PROVE EndingsFit'
    BY <1>15 DEF IInv, TypeOK, Answer, rows, CallsHaveRows, EvidenceFollowsCalls, EndingsFit,
       EndingFits, Calls, NodeStates, EndsWith, Ending, Ports
  <1>16. ASSUME NEW r \in RunIds, AgentFails(r) PROVE EndingsFit'
    BY <1>16 DEF IInv, TypeOK, AgentFails, rows, CallsHaveRows, EvidenceFollowsCalls, EndingsFit,
       EndingFits, Calls, NodeStates, EndsWith, Ending
  <1>17. ASSUME NEW r \in RunIds, AgentIsCancelled(r) PROVE EndingsFit'
    BY <1>17 DEF IInv, TypeOK, AgentIsCancelled, rows, CallsHaveRows, EvidenceFollowsCalls,
       EndingsFit, EndingFits, Calls, NodeStates, EndsWith, Ending
  <1>18. ASSUME NEW r \in RunIds, FinishRun(r) PROVE EndingsFit'
    BY <1>18 DEF IInv, TypeOK, FinishRun, CallsHaveRows, EvidenceFollowsCalls, EndingsFit,
       EndingFits, Calls, NodeStates, Step, AcceptsEnding, NoRow
  <1>19. ASSUME NEW r \in RunIds, FinishRunFails(r) PROVE EndingsFit'
    BY <1>19 DEF IInv, TypeOK, FinishRunFails, rows, CallsHaveRows, EvidenceFollowsCalls,
       EndingsFit, EndingFits, Calls, NodeStates, Step
  <1>20. CASE UNCHANGED vars
    BY <1>20 DEF vars, rows, IInv, CallsHaveRows, EvidenceFollowsCalls, EndingsFit, EndingFits
  <1>21. QED
    BY <1>1, <1>2, <1>3, <1>4, <1>5, <1>6, <1>7, <1>8, <1>9, <1>10, <1>11, <1>12, <1>13, <1>14,
       <1>15, <1>16, <1>17, <1>18, <1>19, <1>20 DEF Next, Begins, Executes

LEMMA SettledStep ==
  ASSUME IInv, [Next]_vars
  PROVE  ClosedRunIsSettled'
  <1>1. ASSUME NEW p \in Processes, OpenWorkspace(p) PROVE ClosedRunIsSettled'
    BY <1>1 DEF IInv, TypeOK, OpenWorkspace, CallsHaveRows, ClosedRunIsSettled,
       EvidenceFollowsCalls, EndingsFit, EndingFits, NodeStates, NoNodes, Unfinished, NoRow
  <1>2. ASSUME NEW p \in Processes, OpenWorkspaceFails(p) PROVE ClosedRunIsSettled'
    BY <1>2 DEF IInv, TypeOK, OpenWorkspaceFails, rows, CallsHaveRows, ClosedRunIsSettled,
       EvidenceFollowsCalls, EndingsFit, EndingFits, NodeStates, NoNodes
  <1>3. ASSUME NEW p \in Processes, Exit(p) PROVE ClosedRunIsSettled'
    BY <1>3 DEF IInv, TypeOK, Exit, rows, CallsHaveRows, ClosedRunIsSettled,
       EvidenceFollowsCalls, EndingsFit, EndingFits, NodeStates, NoNodes
  <1>4. ASSUME NEW p \in Processes, GetDraft(p) PROVE ClosedRunIsSettled'
    BY <1>4 DEF IInv, TypeOK, GetDraft, rows, CallsHaveRows, ClosedRunIsSettled,
       EvidenceFollowsCalls, EndingsFit, EndingFits, NodeStates, NoNodes
  <1>5. ASSUME NEW p \in Processes, UpdateDraft(p) PROVE ClosedRunIsSettled'
    BY <1>5 DEF IInv, TypeOK, UpdateDraft, rows, CallsHaveRows, ClosedRunIsSettled,
       EvidenceFollowsCalls, EndingsFit, EndingFits, NodeStates, NoNodes
  <1>6. ASSUME NEW m \in Models, DeleteModel(m) PROVE ClosedRunIsSettled'
    BY <1>6 DEF IInv, TypeOK, DeleteModel, rows, CallsHaveRows, ClosedRunIsSettled,
       EvidenceFollowsCalls, EndingsFit, EndingFits, NodeStates, NoNodes
  <1>7. ASSUME NEW p \in Processes, NEW r \in RunIds, ReadDraft(p, r) PROVE ClosedRunIsSettled'
    BY <1>7 DEF IInv, TypeOK, ReadDraft, rows, CallsHaveRows, ClosedRunIsSettled,
       EvidenceFollowsCalls, EndingsFit, EndingFits, NodeStates, NoNodes
  <1>8. ASSUME NEW r \in RunIds, MaterializeModel(r) PROVE ClosedRunIsSettled'
    BY <1>8 DEF IInv, TypeOK, MaterializeModel, rows, CallsHaveRows, ClosedRunIsSettled,
       EvidenceFollowsCalls, EndingsFit, EndingFits, NodeStates, NoNodes
  <1>9. ASSUME NEW r \in RunIds, PreflightFails(r) PROVE ClosedRunIsSettled'
    BY <1>9 DEF IInv, TypeOK, PreflightFails, rows, CallsHaveRows, ClosedRunIsSettled,
       EvidenceFollowsCalls, EndingsFit, EndingFits, NodeStates, NoNodes, Step
  <1>10. ASSUME NEW r \in RunIds, BeginRun(r) PROVE ClosedRunIsSettled'
    BY <1>10 DEF IInv, TypeOK, BeginRun, CallsHaveRows, ClosedRunIsSettled, EvidenceFollowsCalls,
       EndingsFit, EndingFits, NodeStates, NoNodes, NoRow
  <1>11. ASSUME NEW r \in RunIds, PutSource(r) PROVE ClosedRunIsSettled'
    BY <1>11 DEF IInv, TypeOK, PutSource, rows, CallsHaveRows, ClosedRunIsSettled,
       EvidenceFollowsCalls, EndingsFit, EndingFits, NodeStates, NoNodes, Step
  <1>12. ASSUME NEW r \in RunIds, PutSourceFails(r) PROVE ClosedRunIsSettled'
    BY <1>12 DEF IInv, TypeOK, PutSourceFails, rows, CallsHaveRows, ClosedRunIsSettled,
       EvidenceFollowsCalls, EndingsFit, EndingFits, NodeStates, NoNodes, EndsWith, Ending
  <1>13. ASSUME NEW r \in RunIds, RecordProgress(r) PROVE ClosedRunIsSettled'
    BY <1>13 DEF IInv, TypeOK, RecordProgress, CallsHaveRows, ClosedRunIsSettled,
       EvidenceFollowsCalls, EndingsFit, EndingFits, NodeStates, NoNodes, Step, AcceptsProgress,
       NoRow
  <1>14. ASSUME NEW r \in RunIds, RecordProgressFails(r) PROVE ClosedRunIsSettled'
    BY <1>14 DEF IInv, TypeOK, RecordProgressFails, rows, CallsHaveRows, ClosedRunIsSettled,
       EvidenceFollowsCalls, EndingsFit, EndingFits, NodeStates, NoNodes, EndsWith, Ending
  <1>15. ASSUME NEW r \in RunIds, Answer(r) PROVE ClosedRunIsSettled'
    BY <1>15 DEF IInv, TypeOK, Answer, rows, CallsHaveRows, ClosedRunIsSettled,
       EvidenceFollowsCalls, EndingsFit, EndingFits, NodeStates, NoNodes, EndsWith, Ending, Ports
  <1>16. ASSUME NEW r \in RunIds, AgentFails(r) PROVE ClosedRunIsSettled'
    BY <1>16 DEF IInv, TypeOK, AgentFails, rows, CallsHaveRows, ClosedRunIsSettled,
       EvidenceFollowsCalls, EndingsFit, EndingFits, NodeStates, NoNodes, EndsWith, Ending
  <1>17. ASSUME NEW r \in RunIds, AgentIsCancelled(r) PROVE ClosedRunIsSettled'
    BY <1>17 DEF IInv, TypeOK, AgentIsCancelled, rows, CallsHaveRows, ClosedRunIsSettled,
       EvidenceFollowsCalls, EndingsFit, EndingFits, NodeStates, NoNodes, EndsWith, Ending
  <1>18. ASSUME NEW r \in RunIds, FinishRun(r) PROVE ClosedRunIsSettled'
    BY <1>18 DEF IInv, TypeOK, FinishRun, CallsHaveRows, ClosedRunIsSettled,
       EvidenceFollowsCalls, EndingsFit, EndingFits, NodeStates, NoNodes, Upsert, Step,
       AcceptsEnding, NoRow
  <1>19. ASSUME NEW r \in RunIds, FinishRunFails(r) PROVE ClosedRunIsSettled'
    BY <1>19 DEF IInv, TypeOK, FinishRunFails, rows, CallsHaveRows, ClosedRunIsSettled,
       EvidenceFollowsCalls, EndingsFit, EndingFits, NodeStates, NoNodes, Step
  <1>20. CASE UNCHANGED vars
    BY <1>20 DEF vars, rows, IInv, CallsHaveRows, ClosedRunIsSettled, EvidenceFollowsCalls,
       EndingsFit, EndingFits, NoNodes
  <1>21. QED
    BY <1>1, <1>2, <1>3, <1>4, <1>5, <1>6, <1>7, <1>8, <1>9, <1>10, <1>11, <1>12, <1>13, <1>14,
       <1>15, <1>16, <1>17, <1>18, <1>19, <1>20 DEF Next, Begins, Executes

LEMMA OnDiskStep ==
  ASSUME IInv, [Next]_vars
  PROVE  ArtifactsAreOnDisk'
  <1>1. ASSUME NEW p \in Processes, OpenWorkspace(p) PROVE ArtifactsAreOnDisk'
    BY <1>1 DEF IInv, TypeOK, OpenWorkspace, CallsHaveRows, EvidenceFollowsCalls, EndingsFit,
       EndingFits, ArtifactsAreOnDisk, Unfinished, NoRow, NoNodes
  <1>2. ASSUME NEW p \in Processes, OpenWorkspaceFails(p) PROVE ArtifactsAreOnDisk'
    BY <1>2 DEF IInv, TypeOK, OpenWorkspaceFails, rows, CallsHaveRows, EvidenceFollowsCalls,
       EndingsFit, EndingFits, ArtifactsAreOnDisk
  <1>3. ASSUME NEW p \in Processes, Exit(p) PROVE ArtifactsAreOnDisk'
    BY <1>3 DEF IInv, TypeOK, Exit, rows, CallsHaveRows, EvidenceFollowsCalls, EndingsFit,
       EndingFits, ArtifactsAreOnDisk
  <1>4. ASSUME NEW p \in Processes, GetDraft(p) PROVE ArtifactsAreOnDisk'
    BY <1>4 DEF IInv, TypeOK, GetDraft, rows, CallsHaveRows, EvidenceFollowsCalls, EndingsFit,
       EndingFits, ArtifactsAreOnDisk
  <1>5. ASSUME NEW p \in Processes, UpdateDraft(p) PROVE ArtifactsAreOnDisk'
    BY <1>5 DEF IInv, TypeOK, UpdateDraft, rows, CallsHaveRows, EvidenceFollowsCalls, EndingsFit,
       EndingFits, ArtifactsAreOnDisk
  <1>6. ASSUME NEW m \in Models, DeleteModel(m) PROVE ArtifactsAreOnDisk'
    BY <1>6 DEF IInv, TypeOK, DeleteModel, rows, CallsHaveRows, EvidenceFollowsCalls, EndingsFit,
       EndingFits, ArtifactsAreOnDisk
  <1>7. ASSUME NEW p \in Processes, NEW r \in RunIds, ReadDraft(p, r) PROVE ArtifactsAreOnDisk'
    BY <1>7 DEF IInv, TypeOK, ReadDraft, rows, CallsHaveRows, EvidenceFollowsCalls, EndingsFit,
       EndingFits, ArtifactsAreOnDisk
  <1>8. ASSUME NEW r \in RunIds, MaterializeModel(r) PROVE ArtifactsAreOnDisk'
    BY <1>8 DEF IInv, TypeOK, MaterializeModel, rows, CallsHaveRows, EvidenceFollowsCalls,
       EndingsFit, EndingFits, ArtifactsAreOnDisk
  <1>9. ASSUME NEW r \in RunIds, PreflightFails(r) PROVE ArtifactsAreOnDisk'
    BY <1>9 DEF IInv, TypeOK, PreflightFails, rows, CallsHaveRows, EvidenceFollowsCalls,
       EndingsFit, EndingFits, ArtifactsAreOnDisk, Step
  <1>10. ASSUME NEW r \in RunIds, BeginRun(r) PROVE ArtifactsAreOnDisk'
    BY <1>10 DEF IInv, TypeOK, BeginRun, CallsHaveRows, EvidenceFollowsCalls, EndingsFit,
       EndingFits, ArtifactsAreOnDisk, NoRow
  <1>11. ASSUME NEW r \in RunIds, PutSource(r) PROVE ArtifactsAreOnDisk'
    BY <1>11 DEF IInv, TypeOK, PutSource, rows, CallsHaveRows, EvidenceFollowsCalls, EndingsFit,
       EndingFits, ArtifactsAreOnDisk, Step
  <1>12. ASSUME NEW r \in RunIds, PutSourceFails(r) PROVE ArtifactsAreOnDisk'
    BY <1>12 DEF IInv, TypeOK, PutSourceFails, rows, CallsHaveRows, EvidenceFollowsCalls,
       EndingsFit, EndingFits, ArtifactsAreOnDisk, EndsWith, Ending, NoNodes
  <1>13. ASSUME NEW r \in RunIds, RecordProgress(r) PROVE ArtifactsAreOnDisk'
    BY <1>13 DEF IInv, TypeOK, RecordProgress, CallsHaveRows, EvidenceFollowsCalls, EndingsFit,
       EndingFits, ArtifactsAreOnDisk, Step, AcceptsProgress, NoRow
  <1>14. ASSUME NEW r \in RunIds, RecordProgressFails(r) PROVE ArtifactsAreOnDisk'
    BY <1>14 DEF IInv, TypeOK, RecordProgressFails, rows, CallsHaveRows, EvidenceFollowsCalls,
       EndingsFit, EndingFits, ArtifactsAreOnDisk, EndsWith, Ending, NoNodes
  <1>15. ASSUME NEW r \in RunIds, Answer(r) PROVE ArtifactsAreOnDisk'
    BY <1>15 DEF IInv, TypeOK, Answer, rows, CallsHaveRows, EvidenceFollowsCalls, EndingsFit,
       EndingFits, ArtifactsAreOnDisk, EndsWith, Ending, Ports
  <1>16. ASSUME NEW r \in RunIds, AgentFails(r) PROVE ArtifactsAreOnDisk'
    BY <1>16 DEF IInv, TypeOK, AgentFails, rows, CallsHaveRows, EvidenceFollowsCalls, EndingsFit,
       EndingFits, ArtifactsAreOnDisk, EndsWith, Ending
  <1>17. ASSUME NEW r \in RunIds, AgentIsCancelled(r) PROVE ArtifactsAreOnDisk'
    BY <1>17 DEF IInv, TypeOK, AgentIsCancelled, rows, CallsHaveRows, EvidenceFollowsCalls,
       EndingsFit, EndingFits, ArtifactsAreOnDisk, EndsWith, Ending
  <1>18. ASSUME NEW r \in RunIds, FinishRun(r) PROVE ArtifactsAreOnDisk'
    BY <1>18 DEF IInv, TypeOK, FinishRun, CallsHaveRows, EvidenceFollowsCalls, EndingsFit,
       EndingFits, ArtifactsAreOnDisk, Step, AcceptsEnding, NoRow
  <1>19. ASSUME NEW r \in RunIds, FinishRunFails(r) PROVE ArtifactsAreOnDisk'
    BY <1>19 DEF IInv, TypeOK, FinishRunFails, rows, CallsHaveRows, EvidenceFollowsCalls,
       EndingsFit, EndingFits, ArtifactsAreOnDisk, Step
  <1>20. CASE UNCHANGED vars
    BY <1>20 DEF vars, rows, IInv, CallsHaveRows, EvidenceFollowsCalls, EndingsFit, EndingFits,
       ArtifactsAreOnDisk
  <1>21. QED
    BY <1>1, <1>2, <1>3, <1>4, <1>5, <1>6, <1>7, <1>8, <1>9, <1>10, <1>11, <1>12, <1>13, <1>14,
       <1>15, <1>16, <1>17, <1>18, <1>19, <1>20 DEF Next, Begins, Executes

(* Lock versions and Revisions.                                            *)

\* The row stays or takes a new version.
LEMMA DraftStep ==
  ASSUME IInv, [Next]_vars
  PROVE  draft' = draft \/ draft'.version = draft.version + 1
  <1>1. ASSUME NEW p \in Processes, OpenWorkspace(p) 
         PROVE  draft' = draft \/ draft'.version = draft.version + 1
    BY <1>1 DEF IInv, TypeOK, OpenWorkspace, Drafts, Calls, Unfinished
  <1>2. ASSUME NEW p \in Processes, OpenWorkspaceFails(p) 
         PROVE  draft' = draft \/ draft'.version = draft.version + 1
    BY <1>2 DEF IInv, TypeOK, OpenWorkspaceFails, rows, Drafts, Calls
  <1>3. ASSUME NEW p \in Processes, Exit(p) 
         PROVE  draft' = draft \/ draft'.version = draft.version + 1
    BY <1>3 DEF IInv, TypeOK, Exit, rows, Drafts, Calls, NoDraft
  <1>4. ASSUME NEW p \in Processes, GetDraft(p) 
         PROVE  draft' = draft \/ draft'.version = draft.version + 1
    BY <1>4 DEF IInv, TypeOK, GetDraft, rows, Drafts, Calls
  <1>5. ASSUME NEW p \in Processes, UpdateDraft(p) 
         PROVE  draft' = draft \/ draft'.version = draft.version + 1
    <2>1. PICK d :
            /\ draft' = DraftAfterSave(page[p].version, d)
            /\ d = [text |-> d.text, model |-> d.model, version |-> 0]
      BY <1>5 DEF UpdateDraft
    <2>2. [d EXCEPT !.version = draft.version + 1].version = draft.version + 1
      BY <2>1
    <2>3. QED
      BY <2>1, <2>2 DEF DraftAfterSave
  <1>6. ASSUME NEW m \in Models, DeleteModel(m) 
         PROVE  draft' = draft \/ draft'.version = draft.version + 1
    BY <1>6 DEF IInv, TypeOK, DeleteModel, rows, Drafts, Calls
  <1>7. ASSUME NEW p \in Processes, NEW r \in RunIds, ReadDraft(p, r) 
         PROVE  draft' = draft \/ draft'.version = draft.version + 1
    BY <1>7 DEF IInv, TypeOK, ReadDraft, rows, Drafts, Calls
  <1>8. ASSUME NEW r \in RunIds, MaterializeModel(r) 
         PROVE  draft' = draft \/ draft'.version = draft.version + 1
    BY <1>8 DEF IInv, TypeOK, MaterializeModel, rows, Drafts, Calls
  <1>9. ASSUME NEW r \in RunIds, PreflightFails(r) 
         PROVE  draft' = draft \/ draft'.version = draft.version + 1
    BY <1>9 DEF IInv, TypeOK, PreflightFails, rows, Drafts, Calls, Step
  <1>10. ASSUME NEW r \in RunIds, BeginRun(r) 
         PROVE  draft' = draft \/ draft'.version = draft.version + 1
    <2>1. draft' = DraftAfterBegin(calls[r].draft) /\ calls[r].draft \in Drafts
      BY <1>10 DEF IInv, TypeOK, Calls, BeginRun
    <2>2. [calls[r].draft EXCEPT !.version = draft.version + 1].version = draft.version + 1
      BY <2>1 DEF Drafts
    <2>3. QED
      BY <2>1, <2>2 DEF DraftAfterBegin
  <1>11. ASSUME NEW r \in RunIds, PutSource(r) 
         PROVE  draft' = draft \/ draft'.version = draft.version + 1
    BY <1>11 DEF IInv, TypeOK, PutSource, rows, Drafts, Calls, Step
  <1>12. ASSUME NEW r \in RunIds, PutSourceFails(r) 
         PROVE  draft' = draft \/ draft'.version = draft.version + 1
    BY <1>12 DEF IInv, TypeOK, PutSourceFails, rows, Drafts, Calls, EndsWith
  <1>13. ASSUME NEW r \in RunIds, RecordProgress(r) 
         PROVE  draft' = draft \/ draft'.version = draft.version + 1
    BY <1>13 DEF IInv, TypeOK, RecordProgress, Drafts, Calls, Step
  <1>14. ASSUME NEW r \in RunIds, RecordProgressFails(r) 
         PROVE  draft' = draft \/ draft'.version = draft.version + 1
    BY <1>14 DEF IInv, TypeOK, RecordProgressFails, rows, Drafts, Calls, EndsWith
  <1>15. ASSUME NEW r \in RunIds, Answer(r) 
         PROVE  draft' = draft \/ draft'.version = draft.version + 1
    BY <1>15 DEF IInv, TypeOK, Answer, rows, Drafts, Calls, EndsWith
  <1>16. ASSUME NEW r \in RunIds, AgentFails(r) 
         PROVE  draft' = draft \/ draft'.version = draft.version + 1
    BY <1>16 DEF IInv, TypeOK, AgentFails, rows, Drafts, Calls, EndsWith
  <1>17. ASSUME NEW r \in RunIds, AgentIsCancelled(r) 
         PROVE  draft' = draft \/ draft'.version = draft.version + 1
    BY <1>17 DEF IInv, TypeOK, AgentIsCancelled, rows, Drafts, Calls, EndsWith
  <1>18. ASSUME NEW r \in RunIds, FinishRun(r) 
         PROVE  draft' = draft \/ draft'.version = draft.version + 1
    BY <1>18 DEF IInv, TypeOK, FinishRun, Drafts, Calls, Step
  <1>19. ASSUME NEW r \in RunIds, FinishRunFails(r) 
         PROVE  draft' = draft \/ draft'.version = draft.version + 1
    BY <1>19 DEF IInv, TypeOK, FinishRunFails, rows, Drafts, Calls, Step
  <1>20. CASE UNCHANGED vars
    BY <1>20 DEF vars, rows, IInv
  <1>21. QED
    BY <1>1, <1>2, <1>3, <1>4, <1>5, <1>6, <1>7, <1>8, <1>9, <1>10, <1>11, <1>12, <1>13, <1>14,
       <1>15, <1>16, <1>17, <1>18, <1>19, <1>20 DEF Next, Begins, Executes

\* A window is given something that was there, or the new row.
LEMMA PageStep ==
  ASSUME IInv, [Next]_vars
  PROVE  \A q \in Processes : page'[q].version # 0 => page'[q] \in Holders \cup {draft'}
  <1>1. ASSUME NEW p \in Processes, OpenWorkspace(p)
         PROVE \A q \in Processes : page'[q].version # 0 => page'[q] \in Holders \cup {draft'}
    BY <1>1 DEF IInv, TypeOK, OpenWorkspace, Holders, CallsHaveRows, Calls, Unfinished, NoRow
  <1>2. ASSUME NEW p \in Processes, OpenWorkspaceFails(p)
         PROVE \A q \in Processes : page'[q].version # 0 => page'[q] \in Holders \cup {draft'}
    BY <1>2 DEF IInv, TypeOK, OpenWorkspaceFails, rows, Holders, CallsHaveRows, Calls
  <1>3. ASSUME NEW p \in Processes, Exit(p)
         PROVE \A q \in Processes : page'[q].version # 0 => page'[q] \in Holders \cup {draft'}
    BY <1>3 DEF IInv, TypeOK, Exit, rows, Holders, CallsHaveRows, Calls, NoDraft
  <1>4. ASSUME NEW p \in Processes, GetDraft(p)
         PROVE \A q \in Processes : page'[q].version # 0 => page'[q] \in Holders \cup {draft'}
    BY <1>4 DEF IInv, TypeOK, GetDraft, rows, Holders, CallsHaveRows, Calls
  <1>5. ASSUME NEW p \in Processes, UpdateDraft(p)
         PROVE \A q \in Processes : page'[q].version # 0 => page'[q] \in Holders \cup {draft'}
    BY <1>5 DEF IInv, TypeOK, UpdateDraft, rows, Holders, CallsHaveRows, Calls, DraftAfterSave
  <1>6. ASSUME NEW m \in Models, DeleteModel(m)
         PROVE \A q \in Processes : page'[q].version # 0 => page'[q] \in Holders \cup {draft'}
    BY <1>6 DEF IInv, TypeOK, DeleteModel, rows, Holders, CallsHaveRows, Calls
  <1>7. ASSUME NEW p \in Processes, NEW r \in RunIds, ReadDraft(p, r)
         PROVE \A q \in Processes : page'[q].version # 0 => page'[q] \in Holders \cup {draft'}
    BY <1>7 DEF IInv, TypeOK, ReadDraft, rows, Holders, CallsHaveRows, Calls
  <1>8. ASSUME NEW r \in RunIds, MaterializeModel(r)
         PROVE \A q \in Processes : page'[q].version # 0 => page'[q] \in Holders \cup {draft'}
    BY <1>8 DEF IInv, TypeOK, MaterializeModel, rows, Holders, CallsHaveRows, Calls
  <1>9. ASSUME NEW r \in RunIds, PreflightFails(r)
         PROVE \A q \in Processes : page'[q].version # 0 => page'[q] \in Holders \cup {draft'}
    BY <1>9 DEF IInv, TypeOK, PreflightFails, rows, Holders, CallsHaveRows, Calls, Step
  <1>10. ASSUME NEW r \in RunIds, BeginRun(r)
         PROVE \A q \in Processes : page'[q].version # 0 => page'[q] \in Holders \cup {draft'}
    BY <1>10 DEF IInv, TypeOK, BeginRun, Holders, CallsHaveRows, Calls, DraftAfterBegin
  <1>11. ASSUME NEW r \in RunIds, PutSource(r)
         PROVE \A q \in Processes : page'[q].version # 0 => page'[q] \in Holders \cup {draft'}
    BY <1>11 DEF IInv, TypeOK, PutSource, rows, Holders, CallsHaveRows, Calls, Step
  <1>12. ASSUME NEW r \in RunIds, PutSourceFails(r)
         PROVE \A q \in Processes : page'[q].version # 0 => page'[q] \in Holders \cup {draft'}
    BY <1>12 DEF IInv, TypeOK, PutSourceFails, rows, Holders, CallsHaveRows, Calls, EndsWith
  <1>13. ASSUME NEW r \in RunIds, RecordProgress(r)
         PROVE \A q \in Processes : page'[q].version # 0 => page'[q] \in Holders \cup {draft'}
    BY <1>13 DEF IInv, TypeOK, RecordProgress, Holders, CallsHaveRows, Calls, Step
  <1>14. ASSUME NEW r \in RunIds, RecordProgressFails(r)
         PROVE \A q \in Processes : page'[q].version # 0 => page'[q] \in Holders \cup {draft'}
    BY <1>14 DEF IInv, TypeOK, RecordProgressFails, rows, Holders, CallsHaveRows, Calls, EndsWith
  <1>15. ASSUME NEW r \in RunIds, Answer(r)
         PROVE \A q \in Processes : page'[q].version # 0 => page'[q] \in Holders \cup {draft'}
    BY <1>15 DEF IInv, TypeOK, Answer, rows, Holders, CallsHaveRows, Calls, EndsWith
  <1>16. ASSUME NEW r \in RunIds, AgentFails(r)
         PROVE \A q \in Processes : page'[q].version # 0 => page'[q] \in Holders \cup {draft'}
    BY <1>16 DEF IInv, TypeOK, AgentFails, rows, Holders, CallsHaveRows, Calls, EndsWith
  <1>17. ASSUME NEW r \in RunIds, AgentIsCancelled(r)
         PROVE \A q \in Processes : page'[q].version # 0 => page'[q] \in Holders \cup {draft'}
    BY <1>17 DEF IInv, TypeOK, AgentIsCancelled, rows, Holders, CallsHaveRows, Calls, EndsWith
  <1>18. ASSUME NEW r \in RunIds, FinishRun(r)
         PROVE \A q \in Processes : page'[q].version # 0 => page'[q] \in Holders \cup {draft'}
    BY <1>18 DEF IInv, TypeOK, FinishRun, Holders, CallsHaveRows, Calls, Step
  <1>19. ASSUME NEW r \in RunIds, FinishRunFails(r)
         PROVE \A q \in Processes : page'[q].version # 0 => page'[q] \in Holders \cup {draft'}
    BY <1>19 DEF IInv, TypeOK, FinishRunFails, rows, Holders, CallsHaveRows, Calls, Step
  <1>20. CASE UNCHANGED vars
    BY <1>20 DEF vars, rows, IInv, Holders, CallsHaveRows
  <1>21. QED
    BY <1>1, <1>2, <1>3, <1>4, <1>5, <1>6, <1>7, <1>8, <1>9, <1>10, <1>11, <1>12, <1>13, <1>14,
       <1>15, <1>16, <1>17, <1>18, <1>19, <1>20 DEF Next, Begins, Executes

\* A call whose Run began keeps its Draft; BeginRun gives it the new row.
LEMMA CallStep ==
  ASSUME IInv, [Next]_vars
  PROVE  \A q \in RunIds : runs'[q] # NoRow => calls'[q].draft \in Holders \cup {draft'}
  <1>1. ASSUME NEW p \in Processes, OpenWorkspace(p)
         PROVE \A q \in RunIds : runs'[q] # NoRow => calls'[q].draft \in Holders \cup {draft'}
    BY <1>1 DEF IInv, TypeOK, OpenWorkspace, Holders, CallsHaveRows, Calls, Unfinished, NoRow
  <1>2. ASSUME NEW p \in Processes, OpenWorkspaceFails(p)
         PROVE \A q \in RunIds : runs'[q] # NoRow => calls'[q].draft \in Holders \cup {draft'}
    BY <1>2 DEF IInv, TypeOK, OpenWorkspaceFails, rows, Holders, CallsHaveRows, Calls
  <1>3. ASSUME NEW p \in Processes, Exit(p)
         PROVE \A q \in RunIds : runs'[q] # NoRow => calls'[q].draft \in Holders \cup {draft'}
    BY <1>3 DEF IInv, TypeOK, Exit, rows, Holders, CallsHaveRows, Calls, NoDraft
  <1>4. ASSUME NEW p \in Processes, GetDraft(p)
         PROVE \A q \in RunIds : runs'[q] # NoRow => calls'[q].draft \in Holders \cup {draft'}
    BY <1>4 DEF IInv, TypeOK, GetDraft, rows, Holders, CallsHaveRows, Calls
  <1>5. ASSUME NEW p \in Processes, UpdateDraft(p)
         PROVE \A q \in RunIds : runs'[q] # NoRow => calls'[q].draft \in Holders \cup {draft'}
    BY <1>5 DEF IInv, TypeOK, UpdateDraft, rows, Holders, CallsHaveRows, Calls, DraftAfterSave
  <1>6. ASSUME NEW m \in Models, DeleteModel(m)
         PROVE \A q \in RunIds : runs'[q] # NoRow => calls'[q].draft \in Holders \cup {draft'}
    BY <1>6 DEF IInv, TypeOK, DeleteModel, rows, Holders, CallsHaveRows, Calls
  <1>7. ASSUME NEW p \in Processes, NEW r \in RunIds, ReadDraft(p, r)
         PROVE \A q \in RunIds : runs'[q] # NoRow => calls'[q].draft \in Holders \cup {draft'}
    BY <1>7 DEF IInv, TypeOK, ReadDraft, rows, Holders, CallsHaveRows, Calls
  <1>8. ASSUME NEW r \in RunIds, MaterializeModel(r)
         PROVE \A q \in RunIds : runs'[q] # NoRow => calls'[q].draft \in Holders \cup {draft'}
    BY <1>8 DEF IInv, TypeOK, MaterializeModel, rows, Holders, CallsHaveRows, Calls
  <1>9. ASSUME NEW r \in RunIds, PreflightFails(r)
         PROVE \A q \in RunIds : runs'[q] # NoRow => calls'[q].draft \in Holders \cup {draft'}
    BY <1>9 DEF IInv, TypeOK, PreflightFails, rows, Holders, CallsHaveRows, Calls, Step
  <1>10. ASSUME NEW r \in RunIds, BeginRun(r)
         PROVE \A q \in RunIds : runs'[q] # NoRow => calls'[q].draft \in Holders \cup {draft'}
    BY <1>10 DEF IInv, TypeOK, BeginRun, Holders, CallsHaveRows, Calls, DraftAfterBegin
  <1>11. ASSUME NEW r \in RunIds, PutSource(r)
         PROVE \A q \in RunIds : runs'[q] # NoRow => calls'[q].draft \in Holders \cup {draft'}
    BY <1>11 DEF IInv, TypeOK, PutSource, rows, Holders, CallsHaveRows, Calls, Step
  <1>12. ASSUME NEW r \in RunIds, PutSourceFails(r)
         PROVE \A q \in RunIds : runs'[q] # NoRow => calls'[q].draft \in Holders \cup {draft'}
    BY <1>12 DEF IInv, TypeOK, PutSourceFails, rows, Holders, CallsHaveRows, Calls, EndsWith
  <1>13. ASSUME NEW r \in RunIds, RecordProgress(r)
         PROVE \A q \in RunIds : runs'[q] # NoRow => calls'[q].draft \in Holders \cup {draft'}
    BY <1>13 DEF IInv, TypeOK, RecordProgress, Holders, CallsHaveRows, Calls, Step
  <1>14. ASSUME NEW r \in RunIds, RecordProgressFails(r)
         PROVE \A q \in RunIds : runs'[q] # NoRow => calls'[q].draft \in Holders \cup {draft'}
    BY <1>14 DEF IInv, TypeOK, RecordProgressFails, rows, Holders, CallsHaveRows, Calls, EndsWith
  <1>15. ASSUME NEW r \in RunIds, Answer(r)
         PROVE \A q \in RunIds : runs'[q] # NoRow => calls'[q].draft \in Holders \cup {draft'}
    BY <1>15 DEF IInv, TypeOK, Answer, rows, Holders, CallsHaveRows, Calls, EndsWith
  <1>16. ASSUME NEW r \in RunIds, AgentFails(r)
         PROVE \A q \in RunIds : runs'[q] # NoRow => calls'[q].draft \in Holders \cup {draft'}
    BY <1>16 DEF IInv, TypeOK, AgentFails, rows, Holders, CallsHaveRows, Calls, EndsWith
  <1>17. ASSUME NEW r \in RunIds, AgentIsCancelled(r)
         PROVE \A q \in RunIds : runs'[q] # NoRow => calls'[q].draft \in Holders \cup {draft'}
    BY <1>17 DEF IInv, TypeOK, AgentIsCancelled, rows, Holders, CallsHaveRows, Calls, EndsWith
  <1>18. ASSUME NEW r \in RunIds, FinishRun(r)
         PROVE \A q \in RunIds : runs'[q] # NoRow => calls'[q].draft \in Holders \cup {draft'}
    BY <1>18 DEF IInv, TypeOK, FinishRun, Holders, CallsHaveRows, Calls, Step
  <1>19. ASSUME NEW r \in RunIds, FinishRunFails(r)
         PROVE \A q \in RunIds : runs'[q] # NoRow => calls'[q].draft \in Holders \cup {draft'}
    BY <1>19 DEF IInv, TypeOK, FinishRunFails, rows, Holders, CallsHaveRows, Calls, Step
  <1>20. CASE UNCHANGED vars
    BY <1>20 DEF vars, rows, IInv, Holders, CallsHaveRows
  <1>21. QED
    BY <1>1, <1>2, <1>3, <1>4, <1>5, <1>6, <1>7, <1>8, <1>9, <1>10, <1>11, <1>12, <1>13, <1>14,
       <1>15, <1>16, <1>17, <1>18, <1>19, <1>20 DEF Next, Begins, Executes

\* A call's version is the one it had, or the row's.
LEMMA CallVersionStep ==
  ASSUME IInv, [Next]_vars
  PROVE  \A q \in RunIds :
           calls'[q].draft.version \in {calls[q].draft.version, draft.version, draft'.version}
  <1>1. ASSUME NEW p \in Processes, OpenWorkspace(p)
         PROVE \A q \in RunIds :
           calls'[q].draft.version \in {calls[q].draft.version, draft.version, draft'.version}
    BY <1>1 DEF IInv, TypeOK, OpenWorkspace, rows, Drafts, Calls, Unfinished, NoRow
  <1>2. ASSUME NEW p \in Processes, OpenWorkspaceFails(p)
         PROVE \A q \in RunIds :
           calls'[q].draft.version \in {calls[q].draft.version, draft.version, draft'.version}
    BY <1>2 DEF IInv, TypeOK, OpenWorkspaceFails, rows, Drafts, Calls
  <1>3. ASSUME NEW p \in Processes, Exit(p)
         PROVE \A q \in RunIds :
           calls'[q].draft.version \in {calls[q].draft.version, draft.version, draft'.version}
    BY <1>3 DEF IInv, TypeOK, Exit, rows, Drafts, Calls, NoDraft
  <1>4. ASSUME NEW p \in Processes, GetDraft(p)
         PROVE \A q \in RunIds :
           calls'[q].draft.version \in {calls[q].draft.version, draft.version, draft'.version}
    BY <1>4 DEF IInv, TypeOK, GetDraft, rows, Drafts, Calls
  <1>5. ASSUME NEW p \in Processes, UpdateDraft(p)
         PROVE \A q \in RunIds :
           calls'[q].draft.version \in {calls[q].draft.version, draft.version, draft'.version}
    BY <1>5 DEF IInv, TypeOK, UpdateDraft, rows, Drafts, Calls, DraftAfterSave
  <1>6. ASSUME NEW m \in Models, DeleteModel(m)
         PROVE \A q \in RunIds :
           calls'[q].draft.version \in {calls[q].draft.version, draft.version, draft'.version}
    BY <1>6 DEF IInv, TypeOK, DeleteModel, rows, Drafts, Calls
  <1>7. ASSUME NEW p \in Processes, NEW r \in RunIds, ReadDraft(p, r)
         PROVE \A q \in RunIds :
           calls'[q].draft.version \in {calls[q].draft.version, draft.version, draft'.version}
    BY <1>7 DEF IInv, TypeOK, ReadDraft, rows, Drafts, Calls
  <1>8. ASSUME NEW r \in RunIds, MaterializeModel(r)
         PROVE \A q \in RunIds :
           calls'[q].draft.version \in {calls[q].draft.version, draft.version, draft'.version}
    BY <1>8 DEF IInv, TypeOK, MaterializeModel, rows, Drafts, Calls
  <1>9. ASSUME NEW r \in RunIds, PreflightFails(r)
         PROVE \A q \in RunIds :
           calls'[q].draft.version \in {calls[q].draft.version, draft.version, draft'.version}
    BY <1>9 DEF IInv, TypeOK, PreflightFails, rows, Drafts, Calls, Step
  <1>10. ASSUME NEW r \in RunIds, BeginRun(r)
         PROVE \A q \in RunIds :
           calls'[q].draft.version \in {calls[q].draft.version, draft.version, draft'.version}
    BY <1>10 DEF IInv, TypeOK, Calls, BeginRun
  <1>11. ASSUME NEW r \in RunIds, PutSource(r)
         PROVE \A q \in RunIds :
           calls'[q].draft.version \in {calls[q].draft.version, draft.version, draft'.version}
    BY <1>11 DEF IInv, TypeOK, PutSource, rows, Drafts, Calls, Step
  <1>12. ASSUME NEW r \in RunIds, PutSourceFails(r)
         PROVE \A q \in RunIds :
           calls'[q].draft.version \in {calls[q].draft.version, draft.version, draft'.version}
    BY <1>12 DEF IInv, TypeOK, PutSourceFails, rows, Drafts, Calls, EndsWith
  <1>13. ASSUME NEW r \in RunIds, RecordProgress(r)
         PROVE \A q \in RunIds :
           calls'[q].draft.version \in {calls[q].draft.version, draft.version, draft'.version}
    BY <1>13 DEF IInv, TypeOK, RecordProgress, rows, Drafts, Calls, Step
  <1>14. ASSUME NEW r \in RunIds, RecordProgressFails(r)
         PROVE \A q \in RunIds :
           calls'[q].draft.version \in {calls[q].draft.version, draft.version, draft'.version}
    BY <1>14 DEF IInv, TypeOK, RecordProgressFails, rows, Drafts, Calls, EndsWith
  <1>15. ASSUME NEW r \in RunIds, Answer(r)
         PROVE \A q \in RunIds :
           calls'[q].draft.version \in {calls[q].draft.version, draft.version, draft'.version}
    BY <1>15 DEF IInv, TypeOK, Answer, rows, Drafts, Calls, EndsWith
  <1>16. ASSUME NEW r \in RunIds, AgentFails(r)
         PROVE \A q \in RunIds :
           calls'[q].draft.version \in {calls[q].draft.version, draft.version, draft'.version}
    BY <1>16 DEF IInv, TypeOK, AgentFails, rows, Drafts, Calls, EndsWith
  <1>17. ASSUME NEW r \in RunIds, AgentIsCancelled(r)
         PROVE \A q \in RunIds :
           calls'[q].draft.version \in {calls[q].draft.version, draft.version, draft'.version}
    BY <1>17 DEF IInv, TypeOK, AgentIsCancelled, rows, Drafts, Calls, EndsWith
  <1>18. ASSUME NEW r \in RunIds, FinishRun(r)
         PROVE \A q \in RunIds :
           calls'[q].draft.version \in {calls[q].draft.version, draft.version, draft'.version}
    BY <1>18 DEF IInv, TypeOK, FinishRun, rows, Drafts, Calls, Step
  <1>19. ASSUME NEW r \in RunIds, FinishRunFails(r)
         PROVE \A q \in RunIds :
           calls'[q].draft.version \in {calls[q].draft.version, draft.version, draft'.version}
    BY <1>19 DEF IInv, TypeOK, FinishRunFails, rows, Drafts, Calls, Step
  <1>20. CASE UNCHANGED vars
    BY <1>20 DEF vars, rows, IInv
  <1>21. QED
    BY <1>1, <1>2, <1>3, <1>4, <1>5, <1>6, <1>7, <1>8, <1>9, <1>10, <1>11, <1>12, <1>13, <1>14,
       <1>15, <1>16, <1>17, <1>18, <1>19, <1>20 DEF Next, Begins, Executes

LEMMA VersionsStep ==
  ASSUME IInv, [Next]_vars
  PROVE  VersionsAreOld'
  <1>1. TypeOK'
    BY TypeStep
  <1>2. /\ draft.version \in Nat /\ draft'.version \in Nat /\ draft.version <= draft'.version
        /\ \A q \in Processes : page'[q].version \in Nat
        /\ \A r \in RunIds : calls[r].draft.version \in Nat
    BY <1>1, DraftStep DEF IInv, TypeOK, Drafts, Calls
  <1>3. \A h \in Holders : h.version \in Nat /\ h.version <= draft.version
    BY DEF IInv, TypeOK, Holders, VersionsAreOld, Drafts, Calls
  <1>4. \A q \in Processes : page'[q].version <= draft'.version
    BY <1>2, <1>3, PageStep
  <1>5. \A r \in RunIds : calls'[r].draft.version <= draft'.version
    BY <1>2, CallVersionStep DEF IInv, VersionsAreOld
  <1>6. QED
    BY <1>4, <1>5 DEF VersionsAreOld

LEMMA TokenStep ==
  ASSUME IInv, [Next]_vars
  PROVE  TokenNamesContent'
  <1>1. Holders' \subseteq Holders \cup {draft'}
    BY PageStep, CallStep DEF Holders
  <1>2. \A h \in Holders : h.version \in Nat /\ h.version <= draft.version
    BY DEF IInv, TypeOK, Holders, VersionsAreOld, Drafts, Calls
  <1>3. CASE draft' = draft
    <2>1. draft \in Holders
      BY DEF Holders
    <2>2. QED
      BY <1>1, <1>3, <2>1 DEF IInv, TokenNamesContent, SameContent
  <1>4. CASE draft'.version = draft.version + 1
    <2>1. draft.version \in Nat
      BY DEF IInv, TypeOK, Drafts
    <2>2. \A h \in Holders : h.version # draft'.version
      BY <1>2, <1>4, <2>1
    <2>3. QED
      BY <1>1, <2>2 DEF IInv, TokenNamesContent, SameContent
  <1>5. QED
    BY <1>3, <1>4, DraftStep

LEMMA RevisionStep ==
  ASSUME IInv, [Next]_vars
  PROVE  RunMatchesItsRevision'
  <1>1. ASSUME NEW p \in Processes, OpenWorkspace(p) PROVE RunMatchesItsRevision'
    BY <1>1 DEF IInv, TypeOK, OpenWorkspace, RunMatchesItsRevision, CallsHaveRows, Definition,
       Calls, RunRows, Unfinished, NoRow
  <1>2. ASSUME NEW p \in Processes, OpenWorkspaceFails(p) PROVE RunMatchesItsRevision'
    BY <1>2 DEF IInv, TypeOK, OpenWorkspaceFails, rows, RunMatchesItsRevision, CallsHaveRows,
       Definition, Calls, RunRows
  <1>3. ASSUME NEW p \in Processes, Exit(p) PROVE RunMatchesItsRevision'
    BY <1>3 DEF IInv, TypeOK, Exit, rows, RunMatchesItsRevision, CallsHaveRows, Definition,
       Calls, RunRows, NoDraft
  <1>4. ASSUME NEW p \in Processes, GetDraft(p) PROVE RunMatchesItsRevision'
    BY <1>4 DEF IInv, TypeOK, GetDraft, rows, RunMatchesItsRevision, CallsHaveRows, Definition,
       Calls, RunRows
  <1>5. ASSUME NEW p \in Processes, UpdateDraft(p) PROVE RunMatchesItsRevision'
    BY <1>5 DEF IInv, TypeOK, UpdateDraft, rows, RunMatchesItsRevision, CallsHaveRows,
       Definition, Calls, RunRows, DraftAfterSave
  <1>6. ASSUME NEW m \in Models, DeleteModel(m) PROVE RunMatchesItsRevision'
    BY <1>6 DEF IInv, TypeOK, DeleteModel, rows, RunMatchesItsRevision, CallsHaveRows,
       Definition, Calls, RunRows
  <1>7. ASSUME NEW p \in Processes, NEW r \in RunIds, ReadDraft(p, r) PROVE RunMatchesItsRevision'
    BY <1>7 DEF IInv, TypeOK, ReadDraft, rows, RunMatchesItsRevision, CallsHaveRows, Definition,
       Calls, RunRows
  <1>8. ASSUME NEW r \in RunIds, MaterializeModel(r) PROVE RunMatchesItsRevision'
    BY <1>8 DEF IInv, TypeOK, MaterializeModel, rows, RunMatchesItsRevision, CallsHaveRows,
       Definition, Calls, RunRows
  <1>9. ASSUME NEW r \in RunIds, PreflightFails(r) PROVE RunMatchesItsRevision'
    BY <1>9 DEF IInv, TypeOK, PreflightFails, rows, RunMatchesItsRevision, CallsHaveRows,
       Definition, Calls, RunRows, Step
  <1>10. ASSUME NEW r \in RunIds, BeginRun(r) PROVE RunMatchesItsRevision'
    <2> DEFINE d == calls[r].draft
    <2>1. d \in Drafts /\ d.model \in Models /\ runs[r] = NoRow
      BY <1>10 DEF IInv, TypeOK, Calls, CallsHaveRows, BeginRun
    <2>2. draft' \in Drafts /\ Definition(draft') = Definition(d) /\ draft'.model = d.model
      BY <1>10, <2>1 DEF IInv, TypeOK, BeginRun, DraftAfterBegin, SameContent, Definition, Drafts
    <2>3. /\ RevisionFor(d) \in DOMAIN revisions'
          /\ revisions'[RevisionFor(d)] = Definition(d)
      <3>1. CASE RevisionsOf(d) = {}
        BY <1>10, <2>1, <3>1, AppendProperties DEF IInv, TypeOK, BeginRun, RevisionFor
      <3>2. CASE RevisionsOf(d) # {}
        BY <1>10, <2>1, <3>2, RevisionForType DEF IInv, BeginRun
      <3>3. QED
        BY <3>1, <3>2
    <2>4. \A i \in DOMAIN revisions : i \in DOMAIN revisions' /\ revisions'[i] = revisions[i]
      BY <1>10, AppendProperties DEF IInv, TypeOK, BeginRun
    <2>5. \A q \in RunIds \ {r} : runs'[q] = runs[q] /\ calls'[q].draft = calls[q].draft
      BY <1>10 DEF IInv, TypeOK, BeginRun
    <2>6. /\ runs'[r].revision = RevisionFor(d) /\ runs'[r].model = d.model
          /\ calls'[r].draft = draft'
      BY <1>10 DEF IInv, TypeOK, Calls, BeginRun
    <2>7. QED
      BY <2>2, <2>3, <2>4, <2>5, <2>6 DEF IInv, RunMatchesItsRevision, Definition
  <1>11. ASSUME NEW r \in RunIds, PutSource(r) PROVE RunMatchesItsRevision'
    BY <1>11 DEF IInv, TypeOK, PutSource, rows, RunMatchesItsRevision, CallsHaveRows, Definition,
       Calls, RunRows, Step
  <1>12. ASSUME NEW r \in RunIds, PutSourceFails(r) PROVE RunMatchesItsRevision'
    BY <1>12 DEF IInv, TypeOK, PutSourceFails, rows, RunMatchesItsRevision, CallsHaveRows,
       Definition, Calls, RunRows, EndsWith
  <1>13. ASSUME NEW r \in RunIds, RecordProgress(r) PROVE RunMatchesItsRevision'
    BY <1>13 DEF IInv, TypeOK, RecordProgress, RunMatchesItsRevision, CallsHaveRows, Definition,
       Calls, RunRows, Step
  <1>14. ASSUME NEW r \in RunIds, RecordProgressFails(r) PROVE RunMatchesItsRevision'
    BY <1>14 DEF IInv, TypeOK, RecordProgressFails, rows, RunMatchesItsRevision, CallsHaveRows,
       Definition, Calls, RunRows, EndsWith
  <1>15. ASSUME NEW r \in RunIds, Answer(r) PROVE RunMatchesItsRevision'
    BY <1>15 DEF IInv, TypeOK, Answer, rows, RunMatchesItsRevision, CallsHaveRows, Definition,
       Calls, RunRows, EndsWith
  <1>16. ASSUME NEW r \in RunIds, AgentFails(r) PROVE RunMatchesItsRevision'
    BY <1>16 DEF IInv, TypeOK, AgentFails, rows, RunMatchesItsRevision, CallsHaveRows,
       Definition, Calls, RunRows, EndsWith
  <1>17. ASSUME NEW r \in RunIds, AgentIsCancelled(r) PROVE RunMatchesItsRevision'
    BY <1>17 DEF IInv, TypeOK, AgentIsCancelled, rows, RunMatchesItsRevision, CallsHaveRows,
       Definition, Calls, RunRows, EndsWith
  <1>18. ASSUME NEW r \in RunIds, FinishRun(r) PROVE RunMatchesItsRevision'
    BY <1>18 DEF IInv, TypeOK, FinishRun, RunMatchesItsRevision, CallsHaveRows, Definition,
       Calls, RunRows, Step
  <1>19. ASSUME NEW r \in RunIds, FinishRunFails(r) PROVE RunMatchesItsRevision'
    BY <1>19 DEF IInv, TypeOK, FinishRunFails, rows, RunMatchesItsRevision, CallsHaveRows,
       Definition, Calls, RunRows, Step
  <1>20. CASE UNCHANGED vars
    BY <1>20 DEF vars, rows, IInv, RunMatchesItsRevision, CallsHaveRows, Definition
  <1>21. QED
    BY <1>1, <1>2, <1>3, <1>4, <1>5, <1>6, <1>7, <1>8, <1>9, <1>10, <1>11, <1>12, <1>13, <1>14,
       <1>15, <1>16, <1>17, <1>18, <1>19, <1>20 DEF Next, Begins, Executes

-----------------------------------------------------------------------------
(* The theorems.                                                           *)

\* Everything above is preserved by every step, for all processes, calls, texts and models.
THEOREM Inductive == Spec => []IInv
  <1>1. IInv /\ [Next]_vars => IInv'
    <2> SUFFICES ASSUME IInv, [Next]_vars PROVE IInv'
      OBVIOUS
    <2>1. QED
      BY TypeStep, RowsStep, EvidenceStep, EndingsStep, VersionsStep, TokenStep, RevisionStep,
         SettledStep, OnDiskStep DEF IInv
  <1>2. QED
    BY InitTyped, <1>1, PTL DEF Spec

\* Every row, file and remembered value keeps its type.
THEOREM TypeCorrect == Spec => []TypeOK
  BY Inductive, PTL DEF IInv

\* Holders of one lock version hold one content, whatever saves, starts, crashes and restarts
\* came before.
THEOREM TokensCorrect == Spec => []TokenNamesContent
  BY Inductive, PTL DEF IInv

\* A Run's Revision and snapshot are what its call executed.
THEOREM RevisionsCorrect == Spec => []RunMatchesItsRevision
  BY Inductive, PTL DEF IInv

\* A closed Run shows no agent at work, however many processes close and write it.
THEOREM ClosedCorrect == Spec => []ClosedRunIsSettled
  BY Inductive, PTL DEF IInv

\* An artifact row names a file that exists.
THEOREM ArtifactsCorrect == Spec => []ArtifactsAreOnDisk
  BY Inductive, PTL DEF IInv
-----------------------------------------------------------------------------
(* The history implements RunArchive.                                      *)

LEMMA OneRunChanges ==
  ASSUME NEW r \in RunIds, \A q \in RunIds \ {r} : Archive'[q] = Archive[q]
  PROVE  Archive' = [Archive EXCEPT ![r] = Archive'[r]]
  <1>1. Archive = [q \in RunIds |-> Archive[q]] /\ Archive' = [q \in RunIds |-> Archive'[q]]
    BY DEF Archive
  <1>2. QED
    BY <1>1

\* A step that leaves the rows alone is a stutter.
LEMMA RowsUnchanged == UNCHANGED rows => UNCHANGED Archive
  BY DEF rows, Archive

LEMMA InitArchive == Init => History!ArchiveInit
  BY DEF Init, History!ArchiveInit, Archive, History!Absent

LEMMA OpenWorkspaceCloses ==
  ASSUME IInv, NEW p \in Processes, OpenWorkspace(p)
  PROVE  History!CloseLeftovers
  <1> SUFFICES ASSUME NEW r \in RunIds
               PROVE  Archive'[r] = IF Archive[r].status = "running"
                                    THEN History!Interrupted(Archive[r]) ELSE Archive[r]
    BY DEF History!CloseLeftovers, Archive
  <1>1. revisions' = revisions /\ artifacts' = artifacts
    BY DEF OpenWorkspace
  <1>2. CASE runs[r].status = "running"
    <2>1. runs[r] # NoRow /\ runs'[r] = [runs[r] EXCEPT !.status = "interrupted"] /\ runs[r] \in RunRows
      BY <1>2 DEF IInv, TypeOK, OpenWorkspace, Unfinished, NoRow
    <2>2. /\ runs'[r].status = "interrupted" /\ runs'[r].revision = runs[r].revision
          /\ runs'[r] # NoRow
      BY <2>1 DEF RunRows, NoRow
    <2>3. /\ nodes'[r].human = nodes[r].human
          /\ nodes'[r].agent = IF nodes[r].agent = "running" THEN "unknown-outcome" ELSE nodes[r].agent
      BY <1>2 DEF IInv, TypeOK, OpenWorkspace, Unfinished, NodeStates
    <2>4. QED
      BY <1>1, <1>2, <2>1, <2>2, <2>3 DEF Archive, History!Interrupted
  <1>3. CASE runs[r].status # "running"
    <2>1. runs'[r] = runs[r] /\ nodes'[r] = nodes[r]
      BY <1>3 DEF OpenWorkspace, Unfinished
    <2>2. Archive[r].status # "running"
      BY <1>3 DEF Archive, NoRow
    <2>3. QED
      BY <1>1, <2>1, <2>2 DEF Archive
  <1>4. QED
    BY <1>2, <1>3

LEMMA BeginRunPublishes ==
  ASSUME IInv, IInv', NEW r \in RunIds, BeginRun(r)
  PROVE  History!Publish(r)
  <1>1. runs[r] = NoRow /\ nodes[r] = NoNodes /\ artifacts[r] = {}
    BY DEF IInv, BeginRun, CallsHaveRows, EvidenceFollowsCalls
  <1>2. runs'[r].status = "running" /\ runs'[r] # NoRow /\ nodes' = nodes /\ artifacts' = artifacts
    BY DEF IInv, TypeOK, BeginRun, NoRow
  <1>3. revisions'[runs'[r].revision] \in [meaning : Meanings, model : Models]
    <2>1. runs'[r].revision \in DOMAIN revisions'
      BY <1>2 DEF IInv, RunMatchesItsRevision
    <2>2. revisions' \in Seq([meaning : Meanings, model : Models])
      BY DEF IInv, TypeOK
    <2> DEFINE S == [meaning : Meanings, model : Models]
               s == revisions'
               i == runs'[r].revision
    <2> HIDE DEF S, s, i
    <2>3. s \in Seq(S) /\ i \in DOMAIN s
      BY <2>1, <2>2 DEF S, s, i
    <2>4. s[i] \in S
      BY <2>3
    <2>5. QED
      BY <2>4 DEF S, s, i
  <1>4. Archive'[r] = [status |-> "running", definition |-> revisions'[runs'[r].revision],
                       evidence |-> History!Nothing]
    <2>1. nodes'[r].human = "none" /\ nodes'[r].agent = "none" /\ artifacts'[r] = {}
      BY <1>1, <1>2 DEF NoNodes
    <2>2. QED
      BY <1>2, <2>1 DEF Archive, History!Nothing
  <1>5. \A q \in RunIds \ {r} : Archive'[q] = Archive[q]
    <2> SUFFICES ASSUME NEW q \in RunIds \ {r} PROVE Archive'[q] = Archive[q]
      OBVIOUS
    <2>1. runs'[q] = runs[q]
      BY DEF IInv, TypeOK, BeginRun
    <2>2. runs[q] # NoRow => revisions'[runs[q].revision] = revisions[runs[q].revision]
      <3>1. runs[q] # NoRow => runs[q].revision \in DOMAIN revisions
        BY DEF IInv, RunMatchesItsRevision
      <3>2. QED
        BY <3>1, AppendProperties DEF IInv, TypeOK, BeginRun
    <2>3. QED
      BY <1>2, <2>1, <2>2 DEF Archive
  <1>6. Archive' = [Archive EXCEPT ![r] = Archive'[r]]
    BY <1>5, OneRunChanges
  <1>7. Archive[r] = History!Absent
    BY <1>1 DEF Archive, History!Absent
  <1>8. QED
    BY <1>3, <1>4, <1>6, <1>7 DEF History!Publish, History!Becomes

LEMMA RecordProgressIsProgress ==
  ASSUME IInv, NEW r \in RunIds, RecordProgress(r)
  PROVE  History!Progress(r)
  <1>1. /\ runs[r] # NoRow /\ runs[r].status = "running"
        /\ nodes[r] = NoNodes /\ artifacts[r] = {}
    BY DEF IInv, RecordProgress, AcceptsProgress, CallsHaveRows, EvidenceFollowsCalls, NoRow
  <1>2. /\ nodes' = [nodes EXCEPT ![r] = [human |-> "succeeded", agent |-> "running"]]
        /\ artifacts' = [artifacts EXCEPT ![r] = {"source"}]
        /\ runs' = runs /\ revisions' = revisions
    BY <1>1 DEF RecordProgress
  <1>3. /\ Archive[r].status = "running" /\ Archive[r].evidence.agent = "none"
        /\ Archive[r] = [status |-> runs[r].status, definition |-> revisions[runs[r].revision],
                         evidence |-> History!Nothing]
    BY SMTT(30), <1>1 DEF Archive, NoNodes, History!Nothing
  <1>4. Archive'[r] = [Archive[r] EXCEPT !.evidence =
                         [human |-> "succeeded", agent |-> "running", artifacts |-> {"source"}]]
    <2>1. /\ nodes'[r].human = "succeeded" /\ nodes'[r].agent = "running"
          /\ artifacts'[r] = {"source"}
      BY <1>2 DEF IInv, TypeOK
    <2>2. Archive'[r] = [status |-> runs[r].status, definition |-> revisions[runs[r].revision],
                         evidence |-> [human |-> "succeeded", agent |-> "running",
                                       artifacts |-> {"source"}]]
      BY <1>1, <1>2, <2>1 DEF Archive
    <2>3. QED
      BY <1>3, <2>2
  <1>5. \A q \in RunIds \ {r} : Archive'[q] = Archive[q]
    BY <1>2 DEF Archive, IInv, TypeOK
  <1>6. Archive' = [Archive EXCEPT ![r] = Archive'[r]]
    BY <1>5, OneRunChanges
  <1>7. Archive' = [Archive EXCEPT ![r].evidence =
                      [human |-> "succeeded", agent |-> "running", artifacts |-> {"source"}]]
    BY <1>4, <1>6
  <1>8. QED
    BY <1>3, <1>7 DEF History!Progress

LEMMA FinishRunCloses ==
  ASSUME IInv, IInv', NEW r \in RunIds, FinishRun(r)
  PROVE  History!Close(r)
  <1> DEFINE e == calls[r].ending
  <1>1. /\ runs[r] \in RunRows /\ runs[r].status = "running" /\ runs[r] # NoRow
        /\ e \in Endings /\ EndingFits(r, e)
        /\ nodes[r] \in NodeStates /\ artifacts[r] \in SUBSET Ports
    BY DEF IInv, TypeOK, Calls, FinishRun, AcceptsEnding, EndingsFit, NoRow
  <1>2. /\ runs'[r].status = e.status /\ runs'[r].revision = runs[r].revision
        /\ runs'[r] # NoRow
    BY <1>1 DEF IInv, TypeOK, FinishRun, RunRows, NoRow, Endings
  <1>3. /\ nodes'[r].human = Upsert(nodes[r].human, e.nodes.human)
        /\ nodes'[r].agent = Upsert(nodes[r].agent, e.nodes.agent)
        /\ artifacts'[r] = e.artifacts /\ revisions' = revisions
        /\ nodes'[r] \in NodeStates
    BY <1>1 DEF IInv, TypeOK, FinishRun, EndingFits
  <1>4. Archive[r] =
          [status |-> "running", definition |-> revisions[runs[r].revision],
           evidence |-> [human |-> nodes[r].human, agent |-> nodes[r].agent,
                         artifacts |-> artifacts[r]]]
    BY <1>1 DEF Archive
  <1>5. Archive'[r] =
          [status |-> e.status, definition |-> revisions[runs[r].revision],
           evidence |-> [human |-> nodes'[r].human, agent |-> nodes'[r].agent,
                         artifacts |-> e.artifacts]]
    BY <1>2, <1>3 DEF Archive
  <1>6. /\ e.status \in {"succeeded", "failed", "interrupted"}
        /\ Archive'[r].evidence \in History!Evidence
    BY <1>1, <1>3, <1>5 DEF Endings, EndingFits, History!Evidence, NodeStates, Ports
  <1>7. History!Grows(Archive[r].evidence, Archive'[r].evidence)
    BY <1>1, <1>3, <1>4, <1>5 DEF History!Grows, EndingFits, Upsert, Endings, NodeStates
  <1>8. e.status = "succeeded" <=> Archive'[r].evidence = History!Complete
    <2>1. ASSUME e.status = "succeeded"
          PROVE  Archive'[r].evidence = History!Complete
      <3>1. nodes'[r].human = "succeeded" /\ nodes'[r].agent = "succeeded" /\ e.artifacts = Ports
        BY <1>1, <1>3, <2>1 DEF EndingFits, Upsert
      <3>2. QED
        BY <1>5, <3>1 DEF History!Complete, Ports
    <2>2. ASSUME Archive'[r].evidence = History!Complete
          PROVE  e.status = "succeeded"
      <3>1. nodes'[r].agent = "succeeded"
        BY <1>5, <2>2 DEF History!Complete
      <3>2. e.nodes.agent = "succeeded"
        BY <1>1, <1>3, <3>1 DEF EndingFits, Upsert
      <3>3. QED
        BY <1>1, <3>2 DEF EndingFits
    <2>3. QED
      BY <2>1, <2>2
  <1>9. \A q \in RunIds \ {r} : Archive'[q] = Archive[q]
    BY <1>3 DEF Archive, IInv, TypeOK, FinishRun
  <1>10. Archive' = [Archive EXCEPT ![r] = Archive'[r]]
    BY <1>9, OneRunChanges
  <1>11. QED
    BY <1>4, <1>5, <1>6, <1>7, <1>8, <1>10 DEF History!Close, History!Becomes

LEMMA StepRefines ==
  ASSUME IInv, IInv', [Next]_vars
  PROVE  [History!ArchiveNext]_Archive
  <1>1. ASSUME NEW p \in Processes, OpenWorkspace(p) PROVE [History!ArchiveNext]_Archive
    BY <1>1, OpenWorkspaceCloses DEF History!ArchiveNext
  <1>2. ASSUME NEW p \in Processes, OpenWorkspaceFails(p) PROVE [History!ArchiveNext]_Archive
    BY <1>2, RowsUnchanged DEF OpenWorkspaceFails
  <1>3. ASSUME NEW p \in Processes, Exit(p) PROVE [History!ArchiveNext]_Archive
    BY <1>3, RowsUnchanged DEF Exit
  <1>4. ASSUME NEW p \in Processes, GetDraft(p) PROVE [History!ArchiveNext]_Archive
    BY <1>4, RowsUnchanged DEF GetDraft
  <1>5. ASSUME NEW p \in Processes, UpdateDraft(p) PROVE [History!ArchiveNext]_Archive
    BY <1>5, RowsUnchanged DEF UpdateDraft
  <1>6. ASSUME NEW m \in Models, DeleteModel(m) PROVE [History!ArchiveNext]_Archive
    BY <1>6, RowsUnchanged DEF DeleteModel
  <1>7. ASSUME NEW p \in Processes, NEW r \in RunIds, ReadDraft(p, r) PROVE [History!ArchiveNext]_Archive
    BY <1>7, RowsUnchanged DEF ReadDraft
  <1>8. ASSUME NEW r \in RunIds, MaterializeModel(r) PROVE [History!ArchiveNext]_Archive
    BY <1>8, RowsUnchanged DEF MaterializeModel
  <1>9. ASSUME NEW r \in RunIds, PreflightFails(r) PROVE [History!ArchiveNext]_Archive
    BY <1>9, RowsUnchanged DEF PreflightFails
  <1>10. ASSUME NEW r \in RunIds, BeginRun(r) PROVE [History!ArchiveNext]_Archive
    BY <1>10, BeginRunPublishes DEF History!ArchiveNext
  <1>11. ASSUME NEW r \in RunIds, PutSource(r) PROVE [History!ArchiveNext]_Archive
    BY <1>11, RowsUnchanged DEF PutSource
  <1>12. ASSUME NEW r \in RunIds, PutSourceFails(r) PROVE [History!ArchiveNext]_Archive
    BY <1>12, RowsUnchanged DEF PutSourceFails
  <1>13. ASSUME NEW r \in RunIds, RecordProgress(r) PROVE [History!ArchiveNext]_Archive
    BY <1>13, RecordProgressIsProgress DEF History!ArchiveNext
  <1>14. ASSUME NEW r \in RunIds, RecordProgressFails(r) PROVE [History!ArchiveNext]_Archive
    BY <1>14, RowsUnchanged DEF RecordProgressFails
  <1>15. ASSUME NEW r \in RunIds, Answer(r) PROVE [History!ArchiveNext]_Archive
    BY <1>15, RowsUnchanged DEF Answer
  <1>16. ASSUME NEW r \in RunIds, AgentFails(r) PROVE [History!ArchiveNext]_Archive
    BY <1>16, RowsUnchanged DEF AgentFails
  <1>17. ASSUME NEW r \in RunIds, AgentIsCancelled(r) PROVE [History!ArchiveNext]_Archive
    BY <1>17, RowsUnchanged DEF AgentIsCancelled
  <1>18. ASSUME NEW r \in RunIds, FinishRun(r) PROVE [History!ArchiveNext]_Archive
    BY <1>18, FinishRunCloses DEF History!ArchiveNext
  <1>19. ASSUME NEW r \in RunIds, FinishRunFails(r) PROVE [History!ArchiveNext]_Archive
    BY <1>19, RowsUnchanged DEF FinishRunFails
  <1>20. CASE UNCHANGED vars
    BY <1>20, RowsUnchanged DEF vars
  <1>21. QED
    BY <1>1, <1>2, <1>3, <1>4, <1>5, <1>6, <1>7, <1>8, <1>9, <1>10, <1>11, <1>12, <1>13, <1>14,
       <1>15, <1>16, <1>17, <1>18, <1>19, <1>20 DEF Next, Begins, Executes

\* What is stored is a RunArchive: a Run appears once with a definition that never changes,
\* its evidence grows, it closes once and for good, and success shows everything.
THEOREM Refinement == Spec => ImplementsRunArchive
  <1>1. IInv /\ IInv' /\ [Next]_vars => [History!ArchiveNext]_Archive
    BY StepRefines
  <1>2. QED
    BY Inductive, InitArchive, <1>1, PTL DEF Spec, ImplementsRunArchive, History!ArchiveSpec
-----------------------------------------------------------------------------
(* A reader of the history (RunHistoryView).                               *)

Views ==
  [run : RunIds \cup {NoRun}, read : SUBSET Parts,
   status : {"absent", "running", "succeeded", "failed", "interrupted"},
   nodes : NodeStates, artifacts : SUBSET Ports]

\* A success in the history shows both turns and both conversations.
SuccessIsWhole ==
  \A r \in RunIds : Archive[r].status = "succeeded" => Archive[r].evidence = History!Complete

\* Only a Run of the history is read.
ViewedRunExists ==
  IF view.run = NoRun THEN view.read = {} ELSE runs[view.run] # NoRow

\* What has been read of a Run since its row was found closed is what is stored.
ClosedViewIsCurrent ==
  "status" \in view.read /\ view.status # "running" =>
    /\ runs[view.run].status = view.status
    /\ "nodes" \in view.read => view.nodes = nodes[view.run]
    /\ "artifacts" \in view.read => view.artifacts = artifacts[view.run]

VInv == view \in Views /\ SuccessIsWhole /\ ViewedRunExists /\ ClosedViewIsCurrent
-----------------------------------------------------------------------------
(* Runs of the history.                                                    *)

\* A Run that closed never changes again.
LEMMA ClosedForGood ==
  ASSUME [History!ArchiveNext]_Archive, NEW r \in RunIds,
         Archive[r].status \notin {"absent", "running"}
  PROVE  Archive'[r] = Archive[r]
  <1>1. ASSUME NEW q \in RunIds, q # r, Archive' = [Archive EXCEPT ![q] = Archive'[q]]
        PROVE  Archive'[r] = Archive[r]
    BY <1>1 DEF Archive
  <1>2. ASSUME NEW q \in RunIds, History!Publish(q) PROVE Archive'[r] = Archive[r]
    BY <1>1, <1>2 DEF History!Publish, History!Becomes, History!Absent
  <1>3. ASSUME NEW q \in RunIds, History!Progress(q) PROVE Archive'[r] = Archive[r]
    <2>1. q # r
      BY <1>3 DEF History!Progress
    <2>2. QED
      BY <1>3, <2>1 DEF History!Progress, Archive
  <1>4. ASSUME NEW q \in RunIds, History!Close(q) PROVE Archive'[r] = Archive[r]
    BY <1>1, <1>4 DEF History!Close, History!Becomes
  <1>5. CASE History!CloseLeftovers
    BY <1>5 DEF History!CloseLeftovers
  <1>6. QED
    BY <1>2, <1>3, <1>4, <1>5 DEF History!ArchiveNext

\* Closing a leftover makes it an interrupted Run, and the others are not touched.
LEMMA LeftoversInterrupted ==
  ASSUME History!CloseLeftovers, NEW r \in RunIds
  PROVE  /\ Archive[r].status = "running" => Archive'[r].status = "interrupted"
         /\ Archive[r].status # "running" => Archive'[r] = Archive[r]
  <1>1. Archive[r].status # "running" => Archive'[r] = Archive[r]
    BY DEF History!CloseLeftovers
  <1>2. ASSUME Archive[r].status = "running" PROVE Archive'[r].status = "interrupted"
    <2>1. Archive'[r] = History!Interrupted(Archive[r])
      BY <1>2 DEF History!CloseLeftovers
    <2>2. "status" \in DOMAIN Archive[r]
      BY DEF Archive
    <2>3. DEFINE b == IF Archive[r].evidence.agent = "running" THEN "unknown-outcome"
                      ELSE Archive[r].evidence.agent
    <2>4. Archive'[r] = [[Archive[r] EXCEPT !.status = "interrupted"]
                           EXCEPT !.evidence = [@ EXCEPT !.agent = b]]
      BY <2>1 DEF History!Interrupted, Archive
    <2>5. QED
      BY <2>2, <2>4
  <1>3. QED
    BY <1>1, <1>2

\* Every step keeps a success whole: only Close makes one, and only of complete evidence.
LEMMA SuccessStep ==
  ASSUME SuccessIsWhole, [History!ArchiveNext]_Archive
  PROVE  SuccessIsWhole'
  <1> SUFFICES ASSUME NEW r \in RunIds, Archive'[r].status = "succeeded"
               PROVE  Archive'[r].evidence = History!Complete
    BY DEF SuccessIsWhole
  <1>1. CASE Archive[r].status \notin {"absent", "running"}
    BY <1>1, ClosedForGood DEF SuccessIsWhole
  <1>2. CASE Archive[r].status \in {"absent", "running"}
    <2>1. ASSUME NEW q \in RunIds, History!Publish(q) PROVE FALSE
      <3>1. CASE q = r
        BY <2>1, <3>1 DEF History!Publish, History!Becomes
      <3>2. CASE q # r
        <4>1. Archive' = [Archive EXCEPT ![q] = Archive'[q]]
          BY <2>1 DEF History!Publish, History!Becomes
        <4>2. Archive'[r] = Archive[r]
          BY <3>2, <4>1 DEF Archive
        <4>3. QED
          BY <1>2, <4>2
      <3>3. QED
        BY <3>1, <3>2
    <2>2. ASSUME NEW q \in RunIds, History!Progress(q) PROVE FALSE
      BY ZenonT(30), <1>2, <2>2 DEF History!Progress, Archive
    <2>3. ASSUME NEW q \in RunIds, History!Close(q)
          PROVE  Archive'[r].evidence = History!Complete
      <3>1. q = r
        BY <1>2, <2>3 DEF History!Close, History!Becomes, Archive
      <3>2. QED
        BY <2>3, <3>1 DEF History!Close
    <2>4. CASE History!CloseLeftovers
      BY <1>2, <2>4, LeftoversInterrupted
    <2>5. CASE UNCHANGED Archive
      BY <1>2, <2>5
    <2>6. QED
      BY <2>1, <2>2, <2>3, <2>4, <2>5 DEF History!ArchiveNext
  <1>3. QED
    BY <1>1, <1>2

\* A Run of the history stays in it, and its rows stay once it is closed.
LEMMA ClosedRowsStay ==
  ASSUME IInv, IInv', [Next]_vars, NEW r \in RunIds, runs[r] # NoRow
  PROVE  /\ runs'[r] # NoRow
         /\ runs[r].status # "running" =>
              /\ runs'[r].status = runs[r].status
              /\ nodes'[r] = nodes[r]
              /\ artifacts'[r] = artifacts[r]
  <1>1. runs[r].status # "absent" /\ nodes[r] \in NodeStates /\ nodes'[r] \in NodeStates
    BY DEF IInv, TypeOK, RunRows, NoRow
  <1>2. runs'[r] # NoRow
    <2>1. runs'[r] = NoRow => calls'[r].at \notin {"begun", "sourced", "calling", "ending"}
      BY DEF IInv, CallsHaveRows
    <2>2. [History!ArchiveNext]_Archive
      BY StepRefines
    <2>3. Archive[r].status # "absent"
      BY <1>1 DEF Archive
    <2>4. Archive'[r].status # "absent"
      <3>1. CASE Archive[r].status # "running"
        BY <2>2, <2>3, <3>1, ClosedForGood
      <3>2. CASE Archive[r].status = "running"
        <4>1. ASSUME NEW q \in RunIds, History!Publish(q) PROVE Archive'[r].status # "absent"
          BY <2>3, <4>1 DEF History!Publish, History!Becomes, Archive
        <4>2. ASSUME NEW q \in RunIds, History!Progress(q) PROVE Archive'[r].status # "absent"
          BY ZenonT(30), <3>2, <4>2 DEF History!Progress, Archive
        <4>3. ASSUME NEW q \in RunIds, History!Close(q) PROVE Archive'[r].status # "absent"
          BY <2>3, <4>3 DEF History!Close, History!Becomes, Archive
        <4>4. CASE History!CloseLeftovers
          BY <3>2, <4>4, LeftoversInterrupted
        <4>5. QED
          BY <2>2, <2>3, <4>1, <4>2, <4>3, <4>4 DEF History!ArchiveNext
      <3>3. QED
        BY <3>1, <3>2
    <2>5. QED
      BY <2>4 DEF Archive
  <1>3. ASSUME runs[r].status # "running"
        PROVE  /\ runs'[r].status = runs[r].status
               /\ nodes'[r] = nodes[r]
               /\ artifacts'[r] = artifacts[r]
    <2>1. Archive[r].status \notin {"absent", "running"}
      BY <1>1, <1>3 DEF Archive
    <2>2. Archive'[r] = Archive[r]
      BY <2>1, StepRefines, ClosedForGood
    <2>3. /\ Archive[r].status = runs[r].status /\ Archive'[r].status = runs'[r].status
          /\ Archive[r].evidence = [human |-> nodes[r].human, agent |-> nodes[r].agent,
                                    artifacts |-> artifacts[r]]
          /\ Archive'[r].evidence = [human |-> nodes'[r].human, agent |-> nodes'[r].agent,
                                     artifacts |-> artifacts'[r]]
      BY <1>2 DEF Archive
    <2>4. /\ nodes'[r].human = nodes[r].human /\ nodes'[r].agent = nodes[r].agent
          /\ artifacts'[r] = artifacts[r]
      BY <2>2, <2>3
    <2>5. QED
      BY <1>1, <2>2, <2>3, <2>4 DEF NodeStates
  <1>4. QED
    BY <1>2, <1>3
-----------------------------------------------------------------------------
(* The reader.                                                             *)

LEMMA ViewInitOK == ViewInit => VInv
  <1> SUFFICES ASSUME ViewInit PROVE VInv
    OBVIOUS
  <1>1. Archive = [r \in RunIds |-> History!Absent]
    BY InitArchive DEF ViewInit, History!ArchiveInit
  <1>2. SuccessIsWhole
    BY <1>1 DEF SuccessIsWhole, History!Absent
  <1>3. view = EmptyView /\ EmptyView \in Views
    BY DEF ViewInit, EmptyView, Views, NoNodes, NodeStates
  <1>4. QED
    BY <1>2, <1>3 DEF VInv, ViewedRunExists, ClosedViewIsCurrent, EmptyView

\* A transaction of a writer leaves what the reader holds of a closed Run as current as it was.
LEMMA WriterStep ==
  ASSUME IInv, IInv', VInv, [Next]_vars, view' \in {view, EmptyView}
  PROVE  VInv'
  <1>1. SuccessIsWhole'
    BY StepRefines, SuccessStep DEF VInv
  <1>2. CASE view' = EmptyView
    <2>1. EmptyView \in Views
      BY DEF EmptyView, Views, NoNodes, NodeStates
    <2>2. QED
      BY <1>1, <1>2, <2>1 DEF VInv, ViewedRunExists, ClosedViewIsCurrent, EmptyView, Views,
         NodeStates, Parts, Ports
  <1>3. CASE view' = view
    <2>1. view' \in Views
      BY <1>3 DEF VInv, Views, Parts, NodeStates, Ports
    <2>2. CASE view.run = NoRun
      BY <1>1, <1>3, <2>1, <2>2 DEF VInv, ViewedRunExists, ClosedViewIsCurrent, Views, Parts,
         NodeStates, Ports
    <2>3. CASE view.run # NoRun
      <3>1. view.run \in RunIds /\ runs[view.run] # NoRow
        BY <2>3 DEF VInv, Views, ViewedRunExists
      <3>2. ViewedRunExists'
        BY <1>3, <2>3, <3>1, ClosedRowsStay DEF ViewedRunExists
      <3>3. ClosedViewIsCurrent'
        BY <1>3, <3>1, ClosedRowsStay DEF VInv, ClosedViewIsCurrent
      <3>4. QED
        BY <1>1, <2>1, <3>2, <3>3 DEF VInv, Views, Parts, NodeStates, Ports
    <2>4. QED
      BY <2>2, <2>3
  <1>4. QED
    BY <1>2, <1>3

LEMMA OpenRunStep ==
  ASSUME VInv, NEW r \in RunIds, OpenRun(r)
  PROVE  VInv'
  <1>1. UNCHANGED vars /\ SuccessIsWhole'
    BY RowsUnchanged DEF VInv, SuccessIsWhole, OpenRun, vars
  <1>2. view' = [run |-> r, read |-> {}, status |-> "absent", nodes |-> NoNodes, artifacts |-> {}]
    BY DEF OpenRun, EmptyView
  <1>3. view' \in Views /\ ClosedViewIsCurrent'
    BY <1>2 DEF Views, ClosedViewIsCurrent, NoNodes, NodeStates
  <1>4. ViewedRunExists'
    BY <1>1, <1>2, NoRunAssumption DEF ViewedRunExists, OpenRun, vars, rows
  <1>5. QED
    BY <1>1, <1>3, <1>4 DEF VInv, Views, Parts, NodeStates, Ports

\* The three queries, in the order GetProductRun makes them.
LEMMA QueryStep ==
  ASSUME IInv, VInv, ReadStatus \/ ReadNodes \/ ReadArtifacts
  PROVE  VInv'
  <1>1. UNCHANGED vars
    BY DEF ReadStatus, ReadNodes, ReadArtifacts
  <1>2. SuccessIsWhole'
    BY <1>1, RowsUnchanged DEF VInv, SuccessIsWhole, vars
  <1>3. view.run # NoRun /\ view.run \in RunIds /\ runs[view.run] # NoRow
    BY DEF VInv, Views, ViewedRunExists, ReadStatus, ReadNodes, ReadArtifacts, Reads
  <1>4. /\ runs[view.run].status \in {"running", "succeeded", "failed", "interrupted"}
        /\ nodes[view.run] \in NodeStates /\ artifacts[view.run] \in SUBSET Ports
    BY <1>3 DEF IInv, TypeOK, RunRows, NoRow
  <1>5. view \in Views /\ runs' = runs /\ nodes' = nodes /\ artifacts' = artifacts
    BY <1>1 DEF VInv, vars, rows
  <1>6. view'.run = view.run /\ view' \in Views
    <2>1. CASE ReadStatus
      BY <1>4, <1>5, <2>1 DEF ReadStatus, Views, Parts
    <2>2. CASE ReadNodes
      BY <1>4, <1>5, <2>2 DEF ReadNodes, Views, Parts
    <2>3. CASE ReadArtifacts
      BY <1>4, <1>5, <2>3 DEF ReadArtifacts, Views, Parts
    <2>4. QED
      BY <2>1, <2>2, <2>3
  <1>7. ViewedRunExists'
    BY <1>3, <1>5, <1>6 DEF ViewedRunExists
  <1>8. ClosedViewIsCurrent'
    <2>1. CASE ReadStatus
      BY <1>3, <1>5, <2>1 DEF ReadStatus, Reads, ReadBefore, Views, ClosedViewIsCurrent
    <2>2. CASE ReadNodes
      BY <1>3, <1>5, <2>2 DEF VInv, ReadNodes, Reads, ReadBefore, Views, ClosedViewIsCurrent
    <2>3. CASE ReadArtifacts
      BY <1>3, <1>5, <2>3 DEF VInv, ReadArtifacts, Reads, ReadBefore, Views, ClosedViewIsCurrent
    <2>4. QED
      BY <2>1, <2>2, <2>3
  <1>9. QED
    BY <1>2, <1>6, <1>7, <1>8 DEF VInv, Views, Parts, NodeStates, Ports
-----------------------------------------------------------------------------
(* The theorems.                                                           *)

\* A reader changes nothing: with one beside them the writers behave as ProductRun.
THEOREM WritersUnaware == ViewSpec => Spec
  <1>1. ViewInit => Init
    BY DEF ViewInit
  <1>2. [ViewNext]_viewVars => [Next]_vars
    BY DEF ViewNext, viewVars, OpenRun, ReadStatus, ReadNodes, ReadArtifacts
  <1>3. QED
    BY <1>1, <1>2, PTL DEF ViewSpec, Spec

\* A Run the reader is shown as closed is all there, wherever the writers' transactions fall
\* between its three queries and however many processes write.
THEOREM ClosedViewCorrect == ViewSpec => []ClosedViewIsComplete
  <1>1. IInv /\ VInv => ClosedViewIsComplete
    <2> SUFFICES ASSUME IInv, VInv, Read, view.status # "running"
                 PROVE  /\ view.nodes.agent # "running"
                        /\ view.status = "succeeded" =>
                             /\ view.nodes = [human |-> "succeeded", agent |-> "succeeded"]
                             /\ view.artifacts = Ports
      BY DEF ClosedViewIsComplete
    <2>1. /\ view.run \in RunIds /\ runs[view.run] # NoRow /\ view.nodes \in NodeStates
          /\ runs[view.run].status = view.status
          /\ view.nodes = nodes[view.run] /\ view.artifacts = artifacts[view.run]
      BY DEF VInv, Views, ViewedRunExists, ClosedViewIsCurrent, Read, Parts
    <2>2. view.nodes.agent # "running"
      BY <2>1 DEF IInv, ClosedRunIsSettled
    <2>3. ASSUME view.status = "succeeded"
          PROVE  /\ view.nodes = [human |-> "succeeded", agent |-> "succeeded"]
                 /\ view.artifacts = Ports
      <3>1. /\ Archive[view.run].status = "succeeded"
            /\ Archive[view.run].evidence =
                 [human |-> view.nodes.human, agent |-> view.nodes.agent,
                  artifacts |-> view.artifacts]
        BY <2>1, <2>3 DEF Archive
      <3>2. /\ view.nodes.human = "succeeded" /\ view.nodes.agent = "succeeded"
            /\ view.artifacts = Ports
        BY <2>1, <3>1 DEF VInv, SuccessIsWhole, History!Complete, Ports
      <3>3. QED
        BY <2>1, <3>2 DEF NodeStates
    <2>4. QED
      BY <2>2, <2>3
  <1>2. IInv /\ IInv' /\ VInv /\ [ViewNext]_viewVars => VInv'
    <2> SUFFICES ASSUME IInv, IInv', VInv, [ViewNext]_viewVars PROVE VInv'
      OBVIOUS
    <2>1. CASE Next /\ view' = IF up' = {} THEN EmptyView ELSE view
      BY <2>1, WriterStep
    <2>2. CASE UNCHANGED viewVars
      BY <2>2, WriterStep DEF viewVars
    <2>3. QED
      BY <2>1, <2>2, OpenRunStep, QueryStep DEF ViewNext
  <1>3. QED
    BY WritersUnaware, Inductive, ViewInitOK, <1>1, <1>2, PTL DEF ViewSpec
=============================================================================
