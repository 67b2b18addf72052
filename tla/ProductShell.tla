---------------------------- MODULE ProductShell ----------------------------
(***************************************************************************)
(* The window that edits and runs Product Workflows (product-shell.js and  *)
(* the draft editor of product-dom-view.js).  A click or a key starts a    *)
(* handler; a handler awaits calls of the application, and whatever it     *)
(* finds when it goes on is the state of that moment: the user may have    *)
(* selected another workflow, typed, or pressed Run.  Saves go through a   *)
(* queue, one at a time; a selection starts a new queue.  Loads and Runs   *)
(* go beside it.                                                           *)
(*                                                                         *)
(* A handler that need not wait goes on before the next event, as          *)
(* JavaScript's promises do: see Quiet.  The order among such              *)
(* continuations is left open.                                             *)
(***************************************************************************)
EXTENDS Naturals, Sequences, FiniteSets, Functions

CONSTANTS
  Workflows,   \* what can be selected
  Texts,       \* what the user types that parses as JSON
  Broken,      \* a text that does not parse
  First,       \* the text of a new workflow
  Foreign,     \* what another window writes
  NoWorkflow,
  MaxActs      \* bound: clicks, keys and writes of other windows

ASSUME ShellAssumption ==
  /\ NoWorkflow \notin Workflows
  /\ Broken \notin Texts \cup {First, Foreign}
  /\ Foreign \notin Texts \cup {First}
  /\ First \notin Texts
  /\ MaxActs \in Nat

VARIABLES
  stored,      \* workflow -> its Draft row
  draft,       \* currentDraft
  selected,    \* activeWorkflowId of the shell
  selection,   \* selectionSequence
  edit,        \* editSequence
  refresh,     \* refreshRequired
  view,        \* the draft editor, and the version of the row behind its text
  pending,     \* pendingDraftEdit
  timer,       \* autosaveTimer is set
  queue,       \* the edits behind saveQueue's head
  queued,      \* how many edits this selection has queued
  loads,       \* calls of getDraft
  saves,       \* calls of updateDraft
  run,         \* the handler of the Run button
  nodeEdit,    \* the handler of a structured edit
  ran,         \* history: was a Run answered since the selection, and pressed before it?
  acts

shell == <<draft, selected, selection, edit, refresh>>
editor == <<view, pending, timer>>
waiting == <<queue, queued>>
handlers == <<run, nodeEdit>>
vars == <<stored, shell, editor, waiting, loads, saves, handlers, ran, acts>>

\* A content belongs to a workflow; "nodes" counts what structured edits added, "model" says
\* that a Run has filled in the model of its agent.
Content(w, text) == [of |-> w, text |-> text, nodes |-> 0, model |-> FALSE]

NoContent == Content(NoWorkflow, First)
NoDraft == [workflow |-> NoWorkflow, version |-> 0, content |-> NoContent]
NoEdit == [workflow |-> NoWorkflow, revision |-> 0, content |-> NoContent, seen |-> 0]
NoAnswer == [kind |-> "none", draft |-> NoDraft]
Failure == [kind |-> "error", draft |-> NoDraft]

\* The Draft of w as a call reads it.
Row(w) == [workflow |-> w, version |-> stored[w].version, content |-> stored[w].content]

\* A queued edit: typed text, or a change of the nodes to apply when its turn comes.
Typed(e) == [kind |-> "text", workflow |-> e.workflow, edit |-> e.revision,
             content |-> e.content, seen |-> e.seen]
Structured(w, n) == [kind |-> "nodes", workflow |-> w, edit |-> n,
                     content |-> NoContent, seen |-> 0]

\* A handler: where it stands, the selection, workflow and text on screen when it was
\* started, what it awaits, the draft it sends or is given, and the acts before it.
Handler(at) ==
  [at |-> at, from |-> selection, on |-> view.workflow, text |-> view.content.text,
   ticket |-> <<selection, IF queued' = queued THEN 0 ELSE queued'>>, draft |-> NoDraft, since |-> acts']
Idle == [at |-> "idle", from |-> 0, on |-> NoWorkflow, text |-> First,
         ticket |-> <<0, 0>>, draft |-> NoDraft, since |-> 0]

Larger(i, j) == IF i > j THEN i ELSE j

Init ==
  /\ stored = [w \in Workflows |->
       [version |-> 1, content |-> Content(w, First), foreign |-> 0]]
  /\ draft = NoDraft /\ selected = NoWorkflow
  /\ selection = 0 /\ edit = 0 /\ refresh = FALSE
  /\ view = [workflow |-> NoWorkflow, revision |-> 0, content |-> NoContent,
             locked |-> TRUE, seen |-> 0]
  /\ pending = NoEdit /\ timer = FALSE
  /\ queue = <<>> /\ queued = 0
  /\ loads = {} /\ saves = {}
  /\ run = Idle /\ nodeEdit = Idle
  /\ ran = "no" /\ acts = 0
-----------------------------------------------------------------------------
(* Waiting.                                                                *)

InFlight(n) == {s \in saves : s.selection = n}

\* Seeded fault: the promises of a queue are never settled once another is selected.
SettledUnlessLeft(ticket) ==
  /\ ticket[1] = selection
  /\ queued - Len(queue) - Cardinality(InFlight(selection)) >= ticket[2]

\* A promise of the queue is settled: its edit and all before it are done.  The edits
\* of an older selection are skipped once its last call is answered.
Settled(ticket) ==
  IF ticket[1] = selection
  THEN queued - Len(queue) - Cardinality(InFlight(selection)) >= ticket[2]
  ELSE InFlight(ticket[1]) = {}

Ready(handler) == handler.at \in {"flushing", "draining"} /\ Settled(handler.ticket)

\* Seeded fault: a save does not wait for the answer to the one before it.
QueueIsFreeAlways == TRUE

QueueIsFree == InFlight(selection) = {}

\* No handler can go on without an answer: the next event may be taken.
Quiet == ~Ready(run) /\ ~Ready(nodeEdit) /\ ~(queue # <<>> /\ QueueIsFree)

\* The user, or another window, does something.
Acts == Quiet /\ acts < MaxActs /\ acts' = acts + 1

\* queueDraftEdit drops an edit of another workflow than the current one.
Accepts(e) == draft # NoDraft /\ e.workflow = draft.workflow

QueueDraftEdit(e) ==
  IF e # NoEdit /\ Accepts(e)
  THEN /\ edit' = Larger(edit, e.revision)
       /\ queue' = Append(queue, Typed(e))
       /\ queued' = queued + 1
  ELSE UNCHANGED <<edit, waiting>>

\* flushDraftEdit; a text that does not parse makes it throw.
FlushDraftEdit ==
  /\ pending.content.text # Broken
  /\ pending' = NoEdit
  /\ timer' = FALSE
  /\ QueueDraftEdit(pending)

\* renderDraft of a draft that is no answer to a save: the editor starts over.
Fresh(d) == [workflow |-> d.workflow, revision |-> 0, content |-> d.content,
             locked |-> FALSE, seen |-> d.version]
-----------------------------------------------------------------------------
(* Selecting.                                                              *)

\* onSelectWorkflow and renderDraftLoading: what was typed and not yet flushed is dropped.
SelectWorkflow(w) ==
  /\ Acts
  /\ selection' = selection + 1
  /\ selected' = w
  /\ draft' = NoDraft /\ edit' = 0 /\ refresh' = FALSE
  /\ queue' = <<>> /\ queued' = 0
  /\ view' = [view EXCEPT !.workflow = NoWorkflow, !.revision = 0, !.locked = TRUE]
  /\ pending' = NoEdit /\ timer' = FALSE
  /\ loads' = loads \cup {[selection |-> selection + 1, workflow |-> w, answer |-> NoAnswer]}
  /\ ran' = "no"
  /\ UNCHANGED <<stored, saves, handlers>>

\* The application reads the row, or fails.
GetDraft(l) ==
  /\ Quiet
  /\ l.answer = NoAnswer
  /\ \E answer \in {[kind |-> "draft", draft |-> Row(l.workflow)], Failure} :
       loads' = (loads \ {l}) \cup {[l EXCEPT !.answer = answer]}
  /\ UNCHANGED <<stored, shell, editor, waiting, saves, handlers, ran, acts>>

\* Seeded fault: the answer is taken whatever was selected since.
AnswersSelectionAny(l) == l.answer.kind = "draft"

AnswersSelection(l) == l.answer.kind = "draft" /\ l.selection = selection

\* The answer of an earlier selection, like a failure, leaves everything as it is.
DraftLoaded(l) ==
  /\ Quiet
  /\ l.answer # NoAnswer
  /\ loads' = loads \ {l}
  /\ IF AnswersSelection(l)
     THEN /\ draft' = l.answer.draft
          /\ view' = Fresh(l.answer.draft)
          /\ timer' = FALSE
     ELSE UNCHANGED <<draft, view, timer>>
  /\ UNCHANGED <<stored, selected, selection, edit, refresh, pending, waiting, saves,
                 handlers, ran, acts>>
-----------------------------------------------------------------------------
(* Editing.                                                                *)

\* A key in the editor; the shell only counts the edit if it is of the current draft.
Type(text) ==
  LET e == [workflow |-> view.workflow, revision |-> view.revision + 1,
            content |-> [view.content EXCEPT !.text = text], seen |-> view.seen] IN
  /\ Acts
  /\ ~view.locked
  /\ view' = [view EXCEPT !.revision = e.revision, !.content = e.content]
  /\ pending' = e
  /\ timer' = TRUE
  /\ edit' = IF draft.workflow = e.workflow THEN Larger(edit, e.revision) ELSE edit
  /\ UNCHANGED <<stored, draft, selected, selection, refresh, waiting, loads, saves,
                 handlers, ran>>

\* The 250 ms after the last key are over: a text that does not parse stays pending.
AutosaveFires ==
  /\ Quiet
  /\ timer
  /\ \/ FlushDraftEdit
     \/ /\ pending.content.text = Broken
        /\ timer' = FALSE
        /\ UNCHANGED <<pending, edit, waiting>>
  /\ UNCHANGED <<stored, draft, selected, selection, refresh, view, loads, saves,
                 handlers, ran, acts>>

\* editNodes: the typed text goes first.
EditNodes ==
  /\ Acts
  /\ nodeEdit.at = "idle"
  /\ draft # NoDraft /\ ~refresh
  /\ FlushDraftEdit
  /\ nodeEdit' = Handler("flushing")
  /\ UNCHANGED <<stored, draft, selected, selection, refresh, view, loads, saves, run,
                 ran>>

\* The flush is over: the edit is queued for the workflow that is current now.
EditNodesGoesOn ==
  /\ Ready(nodeEdit)
  /\ nodeEdit' = Idle
  /\ IF draft = NoDraft \/ refresh
     THEN UNCHANGED <<edit, waiting>>
     ELSE /\ edit' = edit + 1
          /\ queue' = Append(queue, Structured(draft.workflow, edit + 1))
          /\ queued' = queued + 1
  /\ UNCHANGED <<stored, draft, selected, selection, refresh, editor, loads, saves, run,
                 ran, acts>>
-----------------------------------------------------------------------------
(* Saving.                                                                 *)

\* What the head of the queue asks to store, given the draft in hand.
Request(e) ==
  [selection |-> selection, kind |-> e.kind, edit |-> e.edit, workflow |-> e.workflow,
   token |-> draft.workflow, version |-> draft.version,
   content |-> IF e.kind = "text" THEN e.content
               ELSE [draft.content EXCEPT !.nodes = @ + 1],
   seen |-> IF e.kind = "text" THEN e.seen ELSE draft.version,
   stray |-> ran = "stray", answer |-> NoAnswer]

\* Seeded fault: the queue runs on after a conflict.
MaySaveAfterConflict == TRUE

MaySave == ~refresh

\* The next edit has its turn; after a conflict it is dropped.
SendSave ==
  /\ queue # <<>>
  /\ QueueIsFree
  /\ queue' = Tail(queue)
  /\ saves' = IF MaySave THEN saves \cup {Request(Head(queue))} ELSE saves
  /\ UNCHANGED <<stored, shell, editor, queued, loads, handlers, ran, acts>>

Refused(s) == stored[s.workflow].content # s.content /\ stored[s.workflow].version # s.version

\* The row after an autosave: equal content or a stale token change nothing.  "foreign" is the
\* version another window wrote last, until the token of another workflow's draft wrote over it.
RowAfter(s) ==
  IF stored[s.workflow].content = s.content \/ Refused(s) THEN stored[s.workflow]
  ELSE [stored[s.workflow] EXCEPT !.version = @ + 1, !.content = s.content,
                                  !.foreign = IF s.token = s.workflow THEN @ ELSE 0]

\* The application compares the token and answers with the row, or fails.
UpdateDraft(s) ==
  /\ Quiet
  /\ s.answer = NoAnswer
  /\ \/ /\ stored' = [stored EXCEPT ![s.workflow] = RowAfter(s)]
        /\ saves' = (saves \ {s}) \cup {[s EXCEPT !.answer =
             [kind |-> IF Refused(s) THEN "conflict" ELSE "saved",
              draft |-> [workflow |-> s.workflow, version |-> RowAfter(s).version,
                         content |-> RowAfter(s).content]]]}
     \/ /\ saves' = (saves \ {s}) \cup {[s EXCEPT !.answer = Failure]}
        /\ UNCHANGED stored
  /\ UNCHANGED <<shell, editor, waiting, loads, handlers, ran, acts>>

IsCurrent(s) ==
  s.selection = selection /\ draft # NoDraft /\ draft.workflow = s.workflow

\* Seeded fault: every answer is shown, newer text or not.
ShowsAlways(s) == TRUE

\* Newer text than the one saved stays on screen, unless there is a conflict.
Shows(s) == s.answer.kind = "conflict" \/ s.edit = edit

DraftSaved(s) ==
  /\ Quiet
  /\ s.answer # NoAnswer
  /\ saves' = saves \ {s}
  /\ IF s.answer.kind # "error" /\ IsCurrent(s)
     THEN /\ draft' = s.answer.draft
          /\ refresh' = (s.answer.kind = "conflict")
          /\ view' = IF Shows(s)
                     THEN [view EXCEPT !.content = s.answer.draft.content,
                                       !.locked = (s.answer.kind = "conflict"),
                                       !.seen = s.answer.draft.version]
                     ELSE view
     ELSE UNCHANGED <<draft, refresh, view>>
  /\ UNCHANGED <<stored, selected, selection, edit, pending, timer, waiting, loads,
                 handlers, ran, acts>>

\* Another window stores a content of its own.
AnotherWindowSaves(w) ==
  /\ Acts
  /\ stored' = [stored EXCEPT ![w].version = @ + 1, ![w].foreign = stored[w].version + 1,
                              ![w].content = Content(w, Foreign)]
  /\ stored'[w].content # stored[w].content
  /\ UNCHANGED <<shell, editor, waiting, loads, saves, handlers, ran>>
-----------------------------------------------------------------------------
(* Running.                                                                *)

\* onStartRun: the typed text is saved first, then whatever else is queued.
PressRun ==
  /\ Acts
  /\ run.at = "idle"
  /\ draft # NoDraft /\ ~refresh
  /\ FlushDraftEdit
  /\ run' = Handler("flushing")
  /\ UNCHANGED <<stored, draft, selected, selection, refresh, view, loads, saves,
                 nodeEdit, ran>>

\* Seeded fault: the Run does not wait for the queue.
RunTicketNone == <<selection, 0>>

RunTicket == <<selection, queued>>

RunWaitsForQueue ==
  /\ Ready(run)
  /\ run.at = "flushing"
  /\ run' = [run EXCEPT !.at = "draining", !.ticket = RunTicket]
  /\ UNCHANGED <<stored, shell, editor, waiting, loads, saves, nodeEdit, ran, acts>>

\* The queue is done: the Run goes out for the draft that is current now.
StartRun ==
  /\ Ready(run)
  /\ run.at = "draining"
  /\ run' = IF draft = NoDraft \/ refresh THEN Idle
            ELSE [run EXCEPT !.at = "calling", !.draft = draft]
  /\ UNCHANGED <<stored, shell, editor, waiting, loads, saves, nodeEdit, ran, acts>>

\* The row once the Run has begun: a model it fills in makes a new version.
RowAfterBegin(row, filledIn) ==
  IF row.content.model \/ ~filledIn THEN row
  ELSE [row EXCEPT !.version = @ + 1, !.content.model = TRUE]

\* The application accepts the token and answers, much later, with the row of this moment.
RunBegins ==
  LET w == run.draft.workflow IN
  /\ Quiet
  /\ run.at = "calling"
  /\ run.draft.version = stored[w].version
  /\ \E filledIn \in BOOLEAN : stored' = [stored EXCEPT ![w] = RowAfterBegin(@, filledIn)]
  /\ run' = [run EXCEPT !.at = "begun", !.draft =
       [workflow |-> w, version |-> stored'[w].version, content |-> stored'[w].content]]
  /\ UNCHANGED <<shell, editor, waiting, loads, saves, nodeEdit, ran, acts>>

\* Whatever stops the Run, a refused token or a failure before its answer, only shows an error.
RunFails ==
  /\ Quiet
  /\ run.at \in {"calling", "begun"}
  /\ run' = Idle
  /\ UNCHANGED <<stored, shell, editor, waiting, loads, saves, nodeEdit, ran, acts>>

\* The answer, after the model's: its draft becomes the current one whatever is selected,
\* and the autosave timer is stopped.
RunAnswered ==
  /\ Quiet
  /\ run.at = "begun"
  /\ draft' = run.draft
  /\ view' = Fresh(run.draft)
  /\ timer' = FALSE
  /\ run' = Idle
  /\ ran' = IF ran = "stray" \/ run.from # selection THEN "stray" ELSE "here"
  /\ UNCHANGED <<stored, selected, selection, edit, refresh, pending, waiting, loads,
                 saves, nodeEdit, acts>>
-----------------------------------------------------------------------------
User ==
  \/ \E w \in Workflows : SelectWorkflow(w) \/ AnotherWindowSaves(w)
  \/ \E text \in Texts \cup {Broken} : Type(text)
  \/ EditNodes
  \/ PressRun

Application ==
  \/ \E l \in loads : GetDraft(l)
  \/ \E s \in saves : UpdateDraft(s)
  \/ RunBegins

Shell ==
  \/ \E l \in loads : DraftLoaded(l)
  \/ \E s \in saves : DraftSaved(s)
  \/ AutosaveFires \/ SendSave \/ EditNodesGoesOn
  \/ RunWaitsForQueue \/ StartRun \/ RunFails \/ RunAnswered

Next == User \/ Application \/ Shell

Spec == Init /\ [][Next]_vars

\* The browser runs what is ready, and the application answers a save: SQLite is local.
SavesAreAnswered ==
  /\ WF_vars(SendSave) /\ WF_vars(EditNodesGoesOn)
  /\ WF_vars(RunWaitsForQueue) /\ WF_vars(StartRun)
  /\ WF_vars(\E s \in saves : UpdateDraft(s))
  /\ WF_vars(\E s \in saves : DraftSaved(s))

FairSpec == Spec /\ SavesAreAnswered
-----------------------------------------------------------------------------
Names == Workflows \cup {NoWorkflow}
Contents == [of : Names, text : Texts \cup {Broken, First, Foreign}, nodes : Nat,
             model : BOOLEAN]
Rows == [version : Nat \ {0}, content : Contents, foreign : Nat]
Drafts == [workflow : Names, version : Nat, content : Contents]
Answers == [kind : {"none", "draft", "saved", "conflict", "error"}, draft : Drafts]
Views == [workflow : Names, revision : Nat, content : Contents, locked : BOOLEAN, seen : Nat]
Edits == [workflow : Names, revision : Nat, content : Contents, seen : Nat]
QueuedEdits == [kind : {"text", "nodes"}, workflow : Workflows, edit : Nat,
                content : Contents, seen : Nat]
Loads == [selection : Nat, workflow : Workflows, answer : Answers]
Saves == [selection : Nat, kind : {"text", "nodes"}, edit : Nat, workflow : Workflows,
          token : Workflows, version : Nat \ {0}, content : Contents, seen : Nat,
          stray : BOOLEAN, answer : Answers]
Handlers == [at : {"idle", "flushing", "draining", "calling", "begun"}, from : Nat,
             on : Names, text : Texts \cup {Broken, First, Foreign},
             ticket : Nat \X Nat, draft : Drafts, since : Nat]

\* Every variable keeps its type, the shell of product-shell.js and the editor of
\* product-dom-view.js both: a text that does not parse never leaves the editor, and a
\* call is always made for a workflow and a version (start_run.go and UpdateDraft refuse
\* others).
TypeOK ==
  /\ stored \in [Workflows -> Rows]
  /\ draft \in Drafts
  /\ selected \in Names
  /\ selection \in Nat /\ edit \in Nat /\ refresh \in BOOLEAN
  /\ view \in Views
  /\ pending \in Edits /\ timer \in BOOLEAN
  /\ queue \in Seq(QueuedEdits) /\ queued \in Nat
  /\ loads \in SUBSET Loads
  /\ saves \in SUBSET Saves
  /\ \A s \in saves : s.content.text # Broken
  /\ run \in Handlers /\ nodeEdit \in Handlers
  /\ run.at \in {"calling", "begun"} => run.draft.workflow \in Workflows
  /\ ran \in {"no", "here", "stray"}
  /\ acts \in 0 .. MaxActs

\* The draft that is edited and run is the one of the workflow the user selected, until a
\* Run that was pressed under another selection is answered: late answers of loads and
\* saves never bring an older selection back.
CurrentIsSelected == ran = "stray" \/ draft = NoDraft \/ draft.workflow = selected

\* The token in the shell's hand never goes back while a selection lasts, so a save does
\* not conflict with an earlier save of its own queue.  Only the answer of a Run, which
\* goes beside the queue, may bring an older token.
TokensGoForward ==
  [][ (selection' = selection /\ draft # NoDraft /\ ran' = "no")
      => draft'.workflow = draft.workflow /\ draft'.version >= draft.version ]_vars

Written(s) == s \in saves /\ s.answer = NoAnswer /\ s \notin saves'

\* An old page does not overwrite what another window stored: a save that changes the row
\* was made by a user who had that window's text on screen, whatever was queued when the
\* conflict came in, unless the answer of an earlier selection's Run had put its draft in place.
OldPageNeverOverwrites ==
  [][ \A s \in saves :
        ~s.stray /\ Written(s) /\ stored'[s.workflow] # stored[s.workflow]
        => s.seen >= stored[s.workflow].foreign ]_vars

\* The same for every save with a token of its workflow.
LateRunNeverOverwrites ==
  [][ \A s \in saves :
        s.token = s.workflow /\ Written(s) /\ stored'[s.workflow] # stored[s.workflow]
        => s.seen >= stored[s.workflow].foreign ]_vars

SendsRun == run.at = "draining" /\ run'.at = "calling"

\* A Run never overtakes typed text: when it goes out, with nothing else done since it was
\* pressed, every text queued before it has been answered.
RunNeverOvertakesText ==
  [][ SendsRun /\ acts = run.since
      => \A e \in InFlight(selection) \cup Range(queue) : e.kind # "text" ]_vars

\* The answer to a save of typed text leaves newer text on the screen alone, unless there is
\* a conflict or a Run restarted the editor's count of edits.
NewerTextIsKept ==
  [][ \A s \in saves :
        /\ s \notin saves' /\ s.kind = "text" /\ s.answer.kind = "saved"
        /\ ran = "no"
        /\ view'.content # view.content
        => pending = NoEdit /\ \A e \in Range(queue) : e.kind # "text" ]_vars

\* A pressed Run goes out or is given up: no save keeps it waiting for ever, also when the
\* queue it waits for was abandoned by a selection.
PressedRunGoesOn == run.at \in {"flushing", "draining"} ~> run.at \notin {"flushing", "draining"}

\* The Run is of the text on the screen when the button was pressed, if nothing was done
\* since.
RunIsOfTheScreen == [][ SendsRun /\ acts = run.since => run'.draft.content.text = run.text ]_vars

\* The Draft of a workflow only ever holds what was written for that workflow.
DraftsKeepApart == \A w \in Workflows : stored[w].content.of = w
=============================================================================
