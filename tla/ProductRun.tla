----------------------------- MODULE ProductRun -----------------------------
(***************************************************************************)
(* One Product Workflow: its Draft, its Revisions and its Runs, from the   *)
(* autosave of the Draft to the terminal state of a Run                    *)
(* (internal/product/application.go, internal/product/start_run.go,        *)
(* internal/history/product_workflow.go).                                  *)
(*                                                                         *)
(* SQLite holds the rows and survives a crash; the artifact directory      *)
(* holds files and survives too; a StartRun call lives in the memory of    *)
(* its process.  Each database transaction is one step (BEGIN IMMEDIATE).  *)
(* Calls of one process run concurrently (every desktop binding is its own *)
(* goroutine), and a second process may open the same data root.           *)
(***************************************************************************)
EXTENDS Naturals, Sequences

CONSTANTS
  Processes,    \* application processes over one Local Data Root
  RunIds,       \* ids StartRun calls draw (uuid.NewString); bounds the number of calls
  Texts,        \* what the author may write, model preference apart
  Meanings,     \* what is left of a text once RevisionContent drops presentation
  Meaning,      \* text -> its meaning
  Runnable,     \* meanings whose preview has no diagnostics
  Models,       \* Gum Model UUIDs
  NoModel,      \* an empty model preference
  FirstText,    \* the content of a new Draft
  MaxVersion    \* bound on the Draft's lock version

ASSUME ContentAssumption ==
  /\ Meaning \in [Texts -> Meanings]
  /\ Runnable \subseteq Meanings
  /\ NoModel \notin Models
  /\ FirstText \in Texts
  /\ Processes # {}

ASSUME BoundAssumption == MaxVersion \in Nat \ {0}

VARIABLES
  draft,      \* the product_workflow_draft row
  revisions,  \* the product_workflow_revision rows, in insertion order
  runs,       \* run -> its product_workflow_run row
  nodes,      \* run -> status of its two product_workflow_node_run rows
  artifacts,  \* run -> ports with a product_workflow_artifact row
  files,      \* run -> conversations in its artifact directory
  liveModels, \* Model Slots that are not deleted
  up,         \* processes that run
  page,       \* process -> the Draft its window was last given
  calls       \* run -> the StartRun call that drew this id

rows == <<revisions, runs, nodes, artifacts>>
vars == <<draft, rows, files, liveModels, up, page, calls>>

Preference == Models \cup {NoModel}

NoDraft == [text |-> FirstText, model |-> NoModel, version |-> 0]

NoRow == [status |-> "absent"]
NoNodes == [human |-> "none", agent |-> "none"]

\* What Finish will store: the status of the Run, its node runs and its artifacts.
Ending(status, human, agent, items) ==
  [status |-> status, nodes |-> [human |-> human, agent |-> agent], artifacts |-> items]

NoEnding == Ending("none", "none", "none", {})

SameContent(d, e) == d.text = e.text /\ d.model = e.model

\* RevisionContent: two contents have one hash iff they agree on this.
Definition(d) == [meaning |-> Meaning[d.text], model |-> d.model]
-----------------------------------------------------------------------------
Init ==
  /\ draft = [NoDraft EXCEPT !.version = 1]
  /\ revisions = <<>>
  /\ runs = [r \in RunIds |-> NoRow]
  /\ nodes = [r \in RunIds |-> NoNodes]
  /\ artifacts = [r \in RunIds |-> {}]
  /\ files = [r \in RunIds |-> {}]
  /\ liveModels = Models
  /\ up = {}
  /\ page = [p \in Processes |-> NoDraft]
  /\ calls = [r \in RunIds |->
       [at |-> "unused", process |-> CHOOSE p \in Processes : TRUE,
        draft |-> NoDraft, ending |-> NoEnding]]
-----------------------------------------------------------------------------
(* Processes.                                                              *)

\* Seeded fault: only Runs with a node at work are found.
UnfinishedWithNodeAtWork(r) == runs[r].status = "running" /\ nodes[r].agent = "running"

\* A Run the last process did not finish, wherever its execution stood.
Unfinished(r) == runs[r].status = "running"

\* OpenWorkspace, first call of the process: InterruptProductWorkflowRuns closes every
\* unfinished Run, whichever process executes it.
OpenWorkspace(p) ==
  /\ p \notin up
  /\ up' = up \cup {p}
  /\ runs' = [r \in RunIds |->
       IF Unfinished(r) THEN [runs[r] EXCEPT !.status = "interrupted"] ELSE runs[r]]
  /\ nodes' = [r \in RunIds |->
       IF Unfinished(r) /\ nodes[r].agent = "running"
       THEN [nodes[r] EXCEPT !.agent = "unknown-outcome"] ELSE nodes[r]]
  /\ UNCHANGED <<draft, revisions, artifacts, files, liveModels, page, calls>>

\* The reconciliation fails: startup keeps that error for the life of the process.
OpenWorkspaceFails(p) ==
  /\ p \notin up
  /\ up' = up \cup {p}
  /\ UNCHANGED <<draft, rows, files, liveModels, page, calls>>

\* The process exits or crashes, its window and its calls with it.
Exit(p) ==
  /\ p \in up
  /\ up' = up \ {p}
  /\ page' = [page EXCEPT ![p] = NoDraft]
  /\ calls' = [r \in RunIds |->
       IF calls[r].process = p /\ calls[r].at # "unused"
       THEN [calls[r] EXCEPT !.at = "over"] ELSE calls[r]]
  /\ UNCHANGED <<draft, rows, files, liveModels>>
-----------------------------------------------------------------------------
(* The Draft.                                                              *)

GetDraft(p) ==
  /\ p \in up
  /\ page' = [page EXCEPT ![p] = draft]
  /\ UNCHANGED <<draft, rows, files, liveModels, up, calls>>

\* The row after an autosave of d under a token: equal content and a stale token change
\* nothing.
DraftAfterSave(token, d) ==
  IF SameContent(d, draft) \/ token # draft.version
  THEN draft
  ELSE [d EXCEPT !.version = draft.version + 1]

\* UpdateDraft under the token of the page; saved or not, the caller is given the row.
UpdateDraft(p) ==
  /\ p \in up
  /\ page[p].version # 0
  /\ draft.version < MaxVersion
  /\ \E text \in Texts, model \in liveModels \cup {NoModel, page[p].model} :
       draft' = DraftAfterSave(page[p].version,
                               [text |-> text, model |-> model, version |-> 0])
  /\ page' = [page EXCEPT ![p] = draft']
  /\ UNCHANGED <<rows, files, liveModels, up, calls>>

\* A Model Slot is deleted in the settings.
DeleteModel(m) ==
  /\ m \in liveModels
  /\ liveModels' = liveModels \ {m}
  /\ UNCHANGED <<draft, rows, files, up, page, calls>>
-----------------------------------------------------------------------------
(* StartRun, step by step.  An ending is what the call will try to store.  *)

Step(r, at) == calls' = [calls EXCEPT ![r].at = at]

EndsWith(r, ending) == calls' = [calls EXCEPT ![r].at = "ending", ![r].ending = ending]

\* StartRun reads the Draft, compares the token and finds no diagnostics.  A call that is
\* refused here has changed nothing and is left out.
ReadDraft(p, r) ==
  /\ p \in up
  /\ calls[r].at = "unused"
  /\ page[p].version = draft.version
  /\ Meaning[draft.text] \in Runnable
  /\ draft.model \in liveModels \cup {NoModel}
  /\ calls' = [calls EXCEPT ![r] =
       [at |-> "read", process |-> p, draft |-> draft, ending |-> NoEnding]]
  /\ UNCHANGED <<draft, rows, files, liveModels, up, page>>

\* materializeLLMSelections: an empty preference takes the default of this moment.
MaterializeModel(r) ==
  /\ calls[r].at = "read"
  /\ \E m \in liveModels :
       /\ calls[r].draft.model \in {NoModel, m}
       /\ calls' = [calls EXCEPT ![r].at = "resolved", ![r].draft.model = m]
  /\ UNCHANGED <<draft, rows, files, liveModels, up, page>>

\* Seeded fault: the run directory of every failed call is removed.
PreflightFailsAnywhere(r) ==
  /\ calls[r].at \notin {"unused", "over"}
  /\ Step(r, "over")
  /\ files' = [files EXCEPT ![r] = {}]
  /\ UNCHANGED <<draft, rows, liveModels, up, page>>

\* Any error before the Run row exists: the run directory is removed.
PreflightFails(r) ==
  /\ calls[r].at \in {"read", "resolved"}
  /\ Step(r, "over")
  /\ files' = [files EXCEPT ![r] = {}]
  /\ UNCHANGED <<draft, rows, liveModels, up, page>>

\* Seeded fault: the model is written back without a new lock version.
DraftAfterBeginSameToken(d) == [d EXCEPT !.version = draft.version]

\* The row once the visible Draft d, its model filled in, is written back.
DraftAfterBegin(d) ==
  IF SameContent(d, draft) THEN draft ELSE [d EXCEPT !.version = draft.version + 1]

\* Seeded fault: the model preference is not part of the hash.
RevisionsOfByMeaning(d) ==
  {i \in DOMAIN revisions : revisions[i].meaning = Definition(d).meaning}

RevisionsOf(d) == {i \in DOMAIN revisions : revisions[i] = Definition(d)}

\* The Revision with the hash of d, or the one about to be inserted.
RevisionFor(d) ==
  IF RevisionsOf(d) = {} THEN Len(revisions) + 1 ELSE CHOOSE i \in RevisionsOf(d) : TRUE

\* BeginProductWorkflowRun: one transaction compares the token again, writes the Draft back,
\* finds or creates the Revision and publishes the running Run.
BeginRun(r) ==
  LET d == calls[r].draft IN
  /\ calls[r].at = "resolved"
  /\ d.version = draft.version
  /\ draft' = DraftAfterBegin(d)
  /\ revisions' = IF RevisionsOf(d) = {} THEN Append(revisions, Definition(d)) ELSE revisions
  /\ runs' = [runs EXCEPT ![r] =
       [status |-> "running", revision |-> RevisionFor(d), model |-> d.model]]
  /\ calls' = [calls EXCEPT ![r].at = "begun", ![r].draft = draft']
  /\ UNCHANGED <<nodes, artifacts, files, liveModels, up, page>>

\* The human turn: the user Conversation is written.
PutSource(r) ==
  /\ calls[r].at = "begun"
  /\ files' = [files EXCEPT ![r] = @ \cup {"source"}]
  /\ Step(r, "sourced")
  /\ UNCHANGED <<draft, rows, liveModels, up, page>>

PutSourceFails(r) ==
  /\ calls[r].at = "begun"
  /\ EndsWith(r, Ending("failed", "none", "none", {}))
  /\ UNCHANGED <<draft, rows, files, liveModels, up, page>>

AcceptsProgress(r) == runs[r].status = "running"

\* RecordProductWorkflowRunProgress: the human turn and the agent at work, in one transaction.
RecordProgress(r) ==
  /\ calls[r].at = "sourced"
  /\ AcceptsProgress(r)
  /\ nodes' = [nodes EXCEPT ![r] = [human |-> "succeeded", agent |-> "running"]]
  /\ artifacts' = [artifacts EXCEPT ![r] = @ \cup {"source"}]
  /\ Step(r, "calling")
  /\ UNCHANGED <<draft, revisions, runs, files, liveModels, up, page>>

\* The Run is closed already, the database fails, or the context is cancelled.
RecordProgressFails(r) ==
  /\ calls[r].at = "sourced"
  /\ \E status \in {"failed", "interrupted"} :
       EndsWith(r, Ending(status, "succeeded", "none", {"source"}))
  /\ UNCHANGED <<draft, rows, files, liveModels, up, page>>

\* The provider answers and the final Conversation is written.
Answer(r) ==
  /\ calls[r].at = "calling"
  /\ files' = [files EXCEPT ![r] = @ \cup {"final"}]
  /\ EndsWith(r, Ending("succeeded", "succeeded", "succeeded", {"source", "final"}))
  /\ UNCHANGED <<draft, rows, liveModels, up, page>>

\* The provider refuses, or its answer cannot be written.
AgentFails(r) ==
  /\ calls[r].at = "calling"
  /\ EndsWith(r, Ending("failed", "succeeded", "failed", {"source"}))
  /\ UNCHANGED <<draft, rows, files, liveModels, up, page>>

\* The call is cancelled or reaches the client's timeout: what the provider did is unknown.
AgentIsCancelled(r) ==
  /\ calls[r].at = "calling"
  /\ EndsWith(r, Ending("interrupted", "succeeded", "unknown-outcome", {"source"}))
  /\ UNCHANGED <<draft, rows, files, liveModels, up, page>>

\* The upsert of insertProductRunDetails: a turn without a record keeps its row.
Upsert(old, new) == IF new = "none" THEN old ELSE new

\* Seeded fault: the terminal state is stored whatever became of the Run.
AcceptsEndingAlways(r) == runs[r].status # "absent"

AcceptsEnding(r) == runs[r].status = "running"

\* FinishProductWorkflowRun: the terminal Run, its node runs and artifacts in one
\* transaction.  A Run that succeeded hands the page the Draft of its begin.
FinishRun(r) ==
  LET e == calls[r].ending IN
  /\ calls[r].at = "ending"
  /\ AcceptsEnding(r)
  /\ runs' = [runs EXCEPT ![r].status = e.status]
  /\ nodes' = [nodes EXCEPT ![r] = [human |-> Upsert(@.human, e.nodes.human),
                                    agent |-> Upsert(@.agent, e.nodes.agent)]]
  /\ artifacts' = [artifacts EXCEPT ![r] = @ \cup e.artifacts]
  /\ page' = IF e.status = "succeeded"
             THEN [page EXCEPT ![calls[r].process] = calls[r].draft] ELSE page
  /\ Step(r, "over")
  /\ UNCHANGED <<draft, revisions, files, liveModels, up>>

\* The Run is closed already, the database fails or five seconds pass.
FinishRunFails(r) ==
  /\ calls[r].at = "ending"
  /\ Step(r, "over")
  /\ UNCHANGED <<draft, rows, files, liveModels, up, page>>

Begins(r) ==
  \/ \E p \in Processes : ReadDraft(p, r)
  \/ MaterializeModel(r)
  \/ PreflightFails(r)
  \/ BeginRun(r)

Executes(r) ==
  \/ PutSource(r)
  \/ PutSourceFails(r)
  \/ RecordProgress(r)
  \/ RecordProgressFails(r)
  \/ Answer(r)
  \/ AgentFails(r)
  \/ AgentIsCancelled(r)
  \/ FinishRun(r)
  \/ FinishRunFails(r)

Next ==
  \/ \E p \in Processes :
       OpenWorkspace(p) \/ OpenWorkspaceFails(p) \/ Exit(p) \/ GetDraft(p) \/ UpdateDraft(p)
  \/ \E m \in Models : DeleteModel(m)
  \/ \E r \in RunIds : Begins(r) \/ Executes(r)

\* The application is closed one day and opened again, and now and then the reconciliation
\* of an opening succeeds.  Nothing is assumed of a StartRun call.
Reopening ==
  \A p \in Processes : WF_vars(Exit(p)) /\ SF_vars(OpenWorkspace(p))

Spec == Init /\ [][Next]_vars
FairSpec == Spec /\ Reopening
-----------------------------------------------------------------------------
(* Properties.                                                             *)

Drafts == [text : Texts, model : Preference, version : Nat]

NodeStates ==
  [human : {"none", "succeeded"},
   agent : {"none", "running", "succeeded", "failed", "unknown-outcome"}]

Ports == {"source", "final"}

RunRows ==
  {NoRow} \cup
  [status : {"running", "succeeded", "failed", "interrupted"},
   revision : Nat \ {0}, model : Models]

Endings ==
  [status : {"none", "succeeded", "failed", "interrupted"},
   nodes : NodeStates, artifacts : SUBSET Ports]

Calls ==
  [at : {"unused", "read", "resolved", "begun", "sourced", "calling", "ending", "over"},
   process : Processes, draft : Drafts, ending : Endings]

\* The type of every row, of the files and of what processes remember.
TypeOK ==
  /\ draft \in Drafts
  /\ revisions \in Seq([meaning : Meanings, model : Models])
  /\ runs \in [RunIds -> RunRows]
  /\ nodes \in [RunIds -> NodeStates]
  /\ artifacts \in [RunIds -> SUBSET Ports]
  /\ files \in [RunIds -> SUBSET Ports]
  /\ liveModels \subseteq Models
  /\ up \subseteq Processes
  /\ page \in [Processes -> Drafts]
  /\ calls \in [RunIds -> Calls]

\* Whoever may still present a lock version: the row, a window, a call whose Run began.
Holders ==
  {draft} \cup {page[p] : p \in {q \in Processes : page[q].version # 0}}
          \cup {calls[r].draft : r \in {q \in RunIds : runs[q] # NoRow}}

\* Optimistic locking means what it says: holders of one lock version hold one content, so a
\* save or a StartRun that passes the comparison was made by somebody who saw what it
\* replaces.
TokenNamesContent ==
  \A a, b \in Holders : a.version = b.version => SameContent(a, b)

\* A Run's Revision is exactly what the call executed, its model filled in, and its snapshot
\* names that model: later edits, deleted models and other Runs do not reach it.
RunMatchesItsRevision ==
  \A r \in RunIds : runs[r] # NoRow =>
    /\ runs[r].revision \in DOMAIN revisions
    /\ revisions[runs[r].revision] = Definition(calls[r].draft)
    /\ runs[r].model = calls[r].draft.model

\* Every artifact row names a file that exists, however its call ended.
ArtifactsAreOnDisk == \A r \in RunIds : artifacts[r] \subseteq files[r]

\* What a reader of the history finds.
Archive ==
  [r \in RunIds |->
     IF runs[r] = NoRow THEN [status |-> "absent"]
     ELSE [status |-> runs[r].status,
           definition |-> revisions[runs[r].revision],
           evidence |-> [human |-> nodes[r].human, agent |-> nodes[r].agent,
                         artifacts |-> artifacts[r]]]]

History ==
  INSTANCE RunArchive WITH
    archive <- Archive, Definitions <- [meaning : Meanings, model : Models]

\* The history keeps its promises: a Run closes once and for good, even when another process
\* closed it while its call went on, and success shows both turns and both conversations.
ImplementsRunArchive == History!ArchiveSpec

\* Whatever a crash or a failed Finish leaves running is closed one day.
RunsAreClosed ==
  \A r \in RunIds : (runs[r].status = "running") ~> (runs[r].status # "running")
=============================================================================
