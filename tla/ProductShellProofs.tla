------------------------- MODULE ProductShellProofs -------------------------
(***************************************************************************)
(* Theorems about the window, for every set of workflows and texts and any *)
(* number of acts: its types, that late answers never bring an older       *)
(* selection back, that its token never goes back, that a Run waits for    *)
(* the texts before it, that newer text stays on screen, and that an old   *)
(* page overwrites nothing another window wrote.                           *)
(***************************************************************************)
EXTENDS ProductShell, FiniteSetTheorems, TLAPS

\* A draft that was read from a row.
Real(d) ==
  /\ d.workflow \in Workflows
  /\ d.version > 0
  /\ d.content.text # Broken

\* What is stored, queued, asked for and answered parses and names a workflow.
DraftsAreReal ==
  /\ \A w \in Workflows : stored[w].content.text # Broken
  /\ draft # NoDraft => Real(draft)
  /\ queue # <<>> => draft # NoDraft
  /\ \A i \in DOMAIN queue : queue[i].content.text # Broken
  /\ \A l \in loads : l.answer.kind = "draft" =>
       Real(l.answer.draft) /\ l.answer.draft.workflow = l.workflow
  /\ \A s \in saves : s.answer.kind \in {"saved", "conflict"} =>
       Real(s.answer.draft) /\ s.answer.draft.workflow = s.workflow
  /\ \A s \in saves : s.answer = NoAnswer \/ s.answer.kind \in {"saved", "conflict", "error"}
  /\ run.at \in {"calling", "begun"} => Real(run.draft)

\* Whatever belongs to the current selection belongs to the workflow it selected.
SelectionIsKept ==
  /\ \A l \in loads : l.selection =< selection
  /\ \A l \in loads : l.selection = selection => l.workflow = selected
  /\ \A s \in saves : s.selection =< selection
  /\ run.from =< selection
  /\ ran # "stray" /\ draft # NoDraft => draft.workflow = selected
  /\ ran # "stray" /\ run.from = selection /\ run.at \in {"calling", "begun"} =>
       run.draft.workflow = selected

\* One save of the current selection is under way, and no load once there is a draft, unless
\* a Run was answered; so the answer to the save is not older than the draft.
TokensInOrder ==
  /\ \A s, t \in saves : s.selection = selection /\ t.selection = selection => s = t
  /\ \A s \in saves : s.answer.kind \in {"saved", "conflict"} =>
       s.answer.draft.version =< stored[s.workflow].version
  /\ \A l \in loads : l.answer.kind = "draft" =>
       l.answer.draft.version =< stored[l.workflow].version
  /\ ran = "no" =>
       /\ draft # NoDraft => draft.version =< stored[draft.workflow].version
       /\ \A l \in loads : l.selection = selection => draft = NoDraft
       /\ \A l, k \in loads : l.selection = selection /\ k.selection = selection => l = k
       /\ \A i \in DOMAIN queue : queue[i].workflow = draft.workflow
       /\ \A s \in saves : s.selection = selection =>
            draft # NoDraft /\ s.workflow = draft.workflow
       /\ \A s \in saves :
            s.selection = selection /\ s.answer.kind \in {"saved", "conflict"}
            => draft.version =< s.answer.draft.version

IInv == TypeOK /\ DraftsAreReal /\ SelectionIsKept /\ TokensInOrder
-----------------------------------------------------------------------------
(* Types.                                                                  *)

LEMMA Constants ==
  /\ NoContent \in Contents /\ NoDraft \in Drafts /\ Idle \in Handlers /\ NoEdit \in Edits
  /\ NoAnswer \in Answers /\ Failure \in Answers
  /\ \A w \in Workflows : \A t \in {First, Foreign} : Content(w, t) \in Contents
<1>1. NoContent \in Contents BY DEF NoContent, Content, Contents, Names
<1>2. NoDraft \in Drafts BY <1>1 DEF NoDraft, Drafts, Names
<1>3. Idle \in Handlers BY <1>2 DEF Idle, Handlers, Names
<1>4. NoEdit \in Edits BY <1>1 DEF NoEdit, Edits, Names
<1>5. NoAnswer \in Answers /\ Failure \in Answers BY <1>2 DEF NoAnswer, Failure, Answers
<1>6. \A w \in Workflows : \A t \in {First, Foreign} : Content(w, t) \in Contents
  BY DEF Content, Contents, Names
<1> QED BY <1>1, <1>2, <1>3, <1>4, <1>5, <1>6

\* A content with another text, another node or a model is a content.
LEMMA ContentsAreClosed ==
  ASSUME NEW c \in Contents
  PROVE  /\ \A t \in Texts \cup {Broken} : [c EXCEPT !.text = t] \in Contents
         /\ [c EXCEPT !.nodes = @ + 1] \in Contents
         /\ [c EXCEPT !.model = TRUE] \in Contents
<1>1. ASSUME NEW t \in Texts \cup {Broken} PROVE [c EXCEPT !.text = t] \in Contents
  BY DEF Contents
<1>2. c.nodes + 1 \in Nat BY DEF Contents
<1>3. [c EXCEPT !.nodes = @ + 1] \in Contents BY <1>2 DEF Contents
<1>4. [c EXCEPT !.model = TRUE] \in Contents BY DEF Contents
<1> QED BY <1>1, <1>3, <1>4

\* The editor as a key, an answer or a selection leaves it.
LEMMA ViewsAreClosed ==
  ASSUME NEW v \in Views, NEW c \in Contents, NEW n \in Nat, NEW b \in BOOLEAN
  PROVE  /\ [v EXCEPT !.revision = n, !.content = c] \in Views
         /\ [v EXCEPT !.content = c, !.locked = b, !.seen = n] \in Views
         /\ [v EXCEPT !.workflow = NoWorkflow, !.revision = 0, !.locked = TRUE] \in Views
BY DEF Views, Names

LEMMA DraftsAreShown == \A d \in Drafts : Fresh(d) \in Views
BY DEF Drafts, Fresh, Views, Names

LEMMA AnswersFit ==
  /\ \A l \in Loads, a \in Answers : [l EXCEPT !.answer = a] \in Loads
  /\ \A s \in Saves, a \in Answers :
       [s EXCEPT !.answer = a] \in Saves /\ [s EXCEPT !.answer = a].content = s.content
BY DEF Loads, Saves

LEMMA RowsAreDrafts ==
  ASSUME TypeOK, NEW w \in Workflows PROVE Row(w) \in Drafts
BY DEF TypeOK, Row, Rows, Drafts, Names

\* A queue that grows by an edit of a workflow, or loses its head, stays a queue of edits.
LEMMA QueuesFit ==
  ASSUME NEW q \in Seq(QueuedEdits)
  PROVE  /\ \A e \in QueuedEdits : Append(q, e) \in Seq(QueuedEdits)
         /\ q # <<>> => Tail(q) \in Seq(QueuedEdits) /\ Head(q) \in QueuedEdits
OBVIOUS

LEMMA StructuredFits ==
  \A w \in Workflows, n \in Nat : Structured(w, n) \in QueuedEdits
BY Constants DEF Structured, QueuedEdits

\* A flush queues what was typed, if anything, for the workflow that is current.
LEMMA FlushTyped ==
  ASSUME TypeOK, DraftsAreReal, FlushDraftEdit
  PROVE  /\ pending' \in Edits /\ timer' \in BOOLEAN
         /\ edit' \in Nat /\ queued' \in Nat /\ queue' \in Seq(QueuedEdits)
<1>1. pending' \in Edits /\ timer' \in BOOLEAN BY Constants DEF FlushDraftEdit
<1>2. CASE pending # NoEdit /\ Accepts(pending)
  <2>1. pending.workflow \in Workflows BY <1>2 DEF DraftsAreReal, Real, Accepts
  <2>2. Typed(pending) \in QueuedEdits BY <2>1 DEF TypeOK, Typed, Edits, QueuedEdits
  <2>3. queue' = Append(queue, Typed(pending)) /\ queued' = queued + 1
        /\ edit' = Larger(edit, pending.revision)
    BY <1>2 DEF FlushDraftEdit, QueueDraftEdit
  <2>4. pending.revision \in Nat BY DEF TypeOK, Edits
  <2> QED BY <1>1, <2>2, <2>3, <2>4, QueuesFit DEF TypeOK, Larger
<1>3. CASE ~(pending # NoEdit /\ Accepts(pending))
  BY <1>1, <1>3 DEF TypeOK, FlushDraftEdit, QueueDraftEdit, waiting
<1> QED BY <1>2, <1>3

\* A handler that starts or goes on is a handler.
LEMMA HandlersFit ==
  ASSUME TypeOK, queued' \in Nat, acts' \in Nat
  PROVE  Handler("flushing") \in Handlers
BY Constants DEF TypeOK, Handler, Handlers, Views, Contents, Names

LEMMA ActsCounted == ASSUME TypeOK, Acts PROVE acts' \in 0 .. MaxActs
BY ShellAssumption DEF TypeOK, Acts

LEMMA SelectTyped ==
  ASSUME TypeOK, NEW w \in Workflows, SelectWorkflow(w) PROVE TypeOK'
<1>1. view' \in Views BY ViewsAreClosed, Constants DEF TypeOK, SelectWorkflow
<1>2. loads' \in SUBSET Loads BY Constants DEF TypeOK, SelectWorkflow, Loads
<1>3. acts' \in 0 .. MaxActs BY ActsCounted DEF SelectWorkflow
<1>4. /\ stored' = stored /\ saves' = saves /\ run' = run /\ nodeEdit' = nodeEdit
      /\ draft' = NoDraft /\ selected' = w /\ selection' = selection + 1 /\ edit' = 0
      /\ refresh' = FALSE /\ pending' = NoEdit /\ timer' = FALSE /\ queue' = <<>>
      /\ queued' = 0 /\ ran' = "no"
  BY DEF SelectWorkflow, handlers
<1>5. queue' \in Seq(QueuedEdits) BY <1>4
<1>6. /\ draft' \in Drafts /\ selected' \in Names /\ selection' \in Nat
      /\ pending' \in Edits
  BY <1>4, Constants DEF TypeOK, Names
<1> QED BY <1>1, <1>2, <1>3, <1>4, <1>5, <1>6 DEF TypeOK

LEMMA GetDraftTyped ==
  ASSUME TypeOK, NEW l \in loads, GetDraft(l) PROVE TypeOK'
<1>1. PICK answer \in {[kind |-> "draft", draft |-> Row(l.workflow)], Failure} :
        loads' = (loads \ {l}) \cup {[l EXCEPT !.answer = answer]}
  BY DEF GetDraft
<1>2. Row(l.workflow) \in Drafts BY RowsAreDrafts DEF TypeOK, Loads
<1>3. answer \in Answers BY <1>1, <1>2, Constants DEF Answers
<1>4. loads' \in SUBSET Loads BY <1>1, <1>3, AnswersFit DEF TypeOK
<1> QED BY <1>4 DEF TypeOK, GetDraft, shell, editor, waiting, handlers

LEMMA LoadedTyped ==
  ASSUME TypeOK, NEW l \in loads, DraftLoaded(l) PROVE TypeOK'
<1>1. l.answer.draft \in Drafts BY DEF TypeOK, Loads, Answers
<1>2. draft' \in Drafts /\ view' \in Views /\ timer' \in BOOLEAN
  BY <1>1, DraftsAreShown DEF TypeOK, DraftLoaded
<1> QED BY <1>2 DEF TypeOK, DraftLoaded, waiting, handlers

LEMMA TypeTyped ==
  ASSUME TypeOK, NEW t \in Texts \cup {Broken}, Type(t) PROVE TypeOK'
<1> DEFINE c == [view.content EXCEPT !.text = t]
           e == [workflow |-> view.workflow, revision |-> view.revision + 1,
                 content |-> c, seen |-> view.seen]
<1>1. c \in Contents BY ContentsAreClosed DEF TypeOK, Views
<1>2. e \in Edits /\ e.revision = view.revision + 1 /\ e.content = c
      /\ e.revision \in Nat
  <2> HIDE DEF c
  <2> QED BY <1>1 DEF TypeOK, Views, Edits
<1>3. /\ view' = [view EXCEPT !.revision = e.revision, !.content = e.content]
      /\ pending' = e /\ timer' = TRUE
      /\ edit' = IF draft.workflow = e.workflow THEN Larger(edit, e.revision) ELSE edit
      /\ UNCHANGED <<stored, draft, selected, selection, refresh, waiting, loads, saves,
                     handlers, ran>>
  BY DEF Type
<1>4. acts' \in 0 .. MaxActs BY ActsCounted DEF Type
<1> HIDE DEF c, e
<1>5. view' \in Views BY <1>1, <1>2, <1>3, ViewsAreClosed DEF TypeOK
<1>6. edit' \in Nat BY <1>2, <1>3 DEF TypeOK, Larger
<1> QED BY <1>2, <1>3, <1>4, <1>5, <1>6 DEF TypeOK, waiting, handlers

LEMMA AutosaveTyped ==
  ASSUME TypeOK, DraftsAreReal, AutosaveFires PROVE TypeOK'
<1>1. CASE FlushDraftEdit
  BY <1>1, FlushTyped DEF TypeOK, AutosaveFires, handlers
<1>2. CASE /\ pending.content.text = Broken
           /\ timer' = FALSE
           /\ UNCHANGED <<pending, edit, waiting>>
  BY <1>2 DEF TypeOK, AutosaveFires, waiting, handlers
<1> QED BY <1>1, <1>2 DEF AutosaveFires

LEMMA EditNodesTyped ==
  ASSUME TypeOK, DraftsAreReal, EditNodes PROVE TypeOK'
<1>1. FlushDraftEdit /\ Acts /\ nodeEdit' = Handler("flushing") BY DEF EditNodes
<1>2. acts' \in 0 .. MaxActs /\ acts' \in Nat
  BY <1>1, ActsCounted, ShellAssumption DEF TypeOK
<1>3. nodeEdit' \in Handlers BY <1>1, <1>2, FlushTyped, HandlersFit
<1> QED BY <1>1, <1>2, <1>3, FlushTyped DEF TypeOK, EditNodes

LEMMA PressRunTyped ==
  ASSUME TypeOK, DraftsAreReal, PressRun PROVE TypeOK'
<1>1. FlushDraftEdit /\ Acts /\ run' = Handler("flushing") BY DEF PressRun
<1>2. acts' \in 0 .. MaxActs /\ acts' \in Nat
  BY <1>1, ActsCounted, ShellAssumption DEF TypeOK
<1>3. run' \in Handlers BY <1>1, <1>2, FlushTyped, HandlersFit
<1>4. run'.at = "flushing" BY <1>1 DEF Handler
<1> QED BY <1>1, <1>2, <1>3, <1>4, FlushTyped DEF TypeOK, PressRun

LEMMA EditNodesGoesOnTyped ==
  ASSUME TypeOK, DraftsAreReal, EditNodesGoesOn PROVE TypeOK'
<1>1. CASE draft = NoDraft \/ refresh
  BY <1>1, Constants DEF TypeOK, EditNodesGoesOn, waiting, editor
<1>2. CASE ~(draft = NoDraft \/ refresh)
  <2>1. draft.workflow \in Workflows /\ edit + 1 \in Nat
    BY <1>2 DEF TypeOK, DraftsAreReal, Real
  <2>2. Structured(draft.workflow, edit + 1) \in QueuedEdits BY <2>1, StructuredFits
  <2>3. queue' \in Seq(QueuedEdits) /\ queued' \in Nat /\ edit' \in Nat
    BY <1>2, <2>1, <2>2, QueuesFit DEF TypeOK, EditNodesGoesOn
  <2> QED BY <2>3, Constants DEF TypeOK, EditNodesGoesOn, editor
<1> QED BY <1>1, <1>2

\* What the head of the queue asks for is a save whose text parses.
LEMMA RequestFits ==
  ASSUME TypeOK, DraftsAreReal, queue # <<>>
  PROVE  Request(Head(queue)) \in Saves /\ Request(Head(queue)).content.text # Broken
<1> DEFINE e == Head(queue)
           c == IF e.kind = "text" THEN e.content
                ELSE [draft.content EXCEPT !.nodes = @ + 1]
           n == IF e.kind = "text" THEN e.seen ELSE draft.version
<1>1. e \in QueuedEdits /\ e = queue[1] /\ 1 \in DOMAIN queue
  BY QueuesFit DEF TypeOK
<1>2. e.content.text # Broken BY <1>1 DEF DraftsAreReal
<1>3. draft.workflow \in Workflows /\ draft.version \in Nat \ {0}
      /\ draft.content \in Contents /\ draft.content.text # Broken
  BY DEF TypeOK, DraftsAreReal, Real, Drafts
<1>4. [draft.content EXCEPT !.nodes = @ + 1] \in Contents BY <1>3, ContentsAreClosed
<1>5. [draft.content EXCEPT !.nodes = @ + 1].text = draft.content.text
  BY <1>3 DEF Contents
<1>6. c \in Contents /\ c.text # Broken
  BY <1>1, <1>2, <1>3, <1>4, <1>5 DEF QueuedEdits
<1>7. n \in Nat BY <1>1, <1>3 DEF QueuedEdits
<1>8. Request(e) = [selection |-> selection, kind |-> e.kind, edit |-> e.edit,
                    workflow |-> e.workflow, token |-> draft.workflow,
                    version |-> draft.version, content |-> c, seen |-> n,
                    stray |-> ran = "stray", answer |-> NoAnswer]
  BY DEF Request
<1> HIDE DEF e, c, n
<1>9. Request(e) \in Saves
  BY <1>1, <1>3, <1>6, <1>7, <1>8, Constants DEF TypeOK, Saves, QueuedEdits
<1>10. Request(e).content = c BY <1>8
<1> QED BY <1>6, <1>9, <1>10 DEF e

LEMMA SendSaveTyped ==
  ASSUME TypeOK, DraftsAreReal, SendSave PROVE TypeOK'
<1>1. queue' \in Seq(QueuedEdits) BY QueuesFit DEF TypeOK, SendSave
<1>2. saves' \in SUBSET Saves /\ \A s \in saves' : s.content.text # Broken
  BY RequestFits DEF TypeOK, SendSave
<1> QED BY <1>1, <1>2 DEF TypeOK, SendSave, shell, editor, handlers

\* The row an autosave leaves is a row whose text parses.
LEMMA RowsFit ==
  ASSUME TypeOK, DraftsAreReal, NEW s \in saves
  PROVE  /\ s.workflow \in Workflows
         /\ RowAfter(s) \in Rows
         /\ RowAfter(s).content.text # Broken
         /\ RowAfter(s).version >= stored[s.workflow].version
<1> DEFINE r == stored[s.workflow]
<1>1. s.workflow \in Workflows /\ s.content \in Contents /\ s.content.text # Broken
  BY DEF TypeOK, Saves
<1>2. r \in Rows /\ r.content.text # Broken BY <1>1 DEF TypeOK, DraftsAreReal
<1>3. r.version + 1 \in Nat \ {0} BY <1>2 DEF Rows
<1> DEFINE f == IF s.token = s.workflow THEN r.foreign ELSE 0
           q == [r EXCEPT !.version = @ + 1, !.content = s.content, !.foreign = f]
<1>4. q \in Rows /\ q.content = s.content /\ q.version = r.version + 1
  BY <1>1, <1>2, <1>3 DEF Rows
<1>5. RowAfter(s) \in {r, q} BY DEF RowAfter
<1> HIDE DEF r, q, f
<1>6. RowAfter(s) \in Rows /\ RowAfter(s).content.text # Broken
      /\ RowAfter(s).version >= r.version
  BY <1>1, <1>2, <1>4, <1>5 DEF Rows
<1> QED BY <1>1, <1>6 DEF r

\* The answer of an autosave, as the shell will be given it.
SaveAnswer(s) ==
  [kind |-> IF Refused(s) THEN "conflict" ELSE "saved",
   draft |-> [workflow |-> s.workflow, version |-> RowAfter(s).version,
              content |-> RowAfter(s).content]]

LEMMA UpdateDraftTyped ==
  ASSUME TypeOK, DraftsAreReal, NEW s \in saves, UpdateDraft(s) PROVE TypeOK'
<1>1. stored' \in [Workflows -> Rows]
  <2>1. s.workflow \in Workflows /\ RowAfter(s) \in Rows BY RowsFit
  <2>2. \/ stored' = [stored EXCEPT ![s.workflow] = RowAfter(s)]
        \/ stored' = stored
    BY DEF UpdateDraft
  <2>3. stored \in [Workflows -> Rows] BY DEF TypeOK
  <2> QED BY <2>1, <2>2, <2>3
<1>2. SaveAnswer(s).draft \in Drafts
  BY RowsFit DEF SaveAnswer, Rows, Drafts, Names
<1>3. SaveAnswer(s) \in Answers BY <1>2 DEF SaveAnswer, Answers
<1>4. PICK a \in {SaveAnswer(s), Failure} :
        saves' = (saves \ {s}) \cup {[s EXCEPT !.answer = a]}
  BY DEF UpdateDraft, SaveAnswer
<1>5. a \in Answers BY <1>3, <1>4, Constants
<1>6. saves' \in SUBSET Saves /\ \A t \in saves' : t.content.text # Broken
  BY ZenonT(30), <1>4, <1>5, AnswersFit DEF TypeOK
<1> QED BY <1>1, <1>6 DEF TypeOK, UpdateDraft, shell, editor, waiting, handlers

LEMMA SavedTyped ==
  ASSUME TypeOK, NEW s \in saves, DraftSaved(s) PROVE TypeOK'
<1>1. s.answer.draft \in Drafts BY DEF TypeOK, Saves, Answers
<1>2. s.answer.draft.content \in Contents /\ s.answer.draft.version \in Nat
  BY <1>1 DEF Drafts
<1>3. [view EXCEPT !.content = s.answer.draft.content,
                   !.locked = (s.answer.kind = "conflict"),
                   !.seen = s.answer.draft.version] \in Views
  BY <1>2, ViewsAreClosed DEF TypeOK
<1>4. draft' \in Drafts /\ refresh' \in BOOLEAN /\ view' \in Views
  BY <1>1, <1>3 DEF TypeOK, DraftSaved
<1> QED BY <1>4 DEF TypeOK, DraftSaved, waiting, handlers

LEMMA ForeignTyped ==
  ASSUME TypeOK, NEW w \in Workflows, AnotherWindowSaves(w) PROVE TypeOK'
<1> DEFINE r == [stored[w] EXCEPT !.version = @ + 1, !.foreign = stored[w].version + 1,
                                  !.content = Content(w, Foreign)]
<1>1. r \in Rows
  <2> DEFINE p == stored[w]
             c == Content(w, Foreign)
  <2>1. p \in Rows /\ c \in Contents BY Constants DEF TypeOK
  <2>2. r = [p EXCEPT !.version = p.version + 1, !.foreign = p.version + 1, !.content = c]
    OBVIOUS
  <2> HIDE DEF p, c, r
  <2>3. p.version + 1 \in Nat \ {0} BY <2>1 DEF Rows
  <2> QED BY <2>1, <2>2, <2>3 DEF Rows
<1>2. stored' = [stored EXCEPT ![w] = r] BY DEF AnotherWindowSaves
<1>3. acts' \in 0 .. MaxActs BY ActsCounted DEF AnotherWindowSaves
<1> HIDE DEF r
<1>4. stored' \in [Workflows -> Rows] BY <1>1, <1>2 DEF TypeOK
<1>5. UNCHANGED <<draft, selected, selection, edit, refresh, view, pending, timer, queue,
                  queued, loads, saves, run, nodeEdit, ran>>
  BY DEF AnotherWindowSaves, shell, editor, waiting, handlers
<1> QED BY <1>3, <1>4, <1>5 DEF TypeOK

\* The row once a Run has begun is a row whose text parses.
LEMMA BegunFits ==
  ASSUME NEW r \in Rows, r.content.text # Broken, NEW b \in BOOLEAN
  PROVE  /\ RowAfterBegin(r, b) \in Rows
         /\ RowAfterBegin(r, b).content.text # Broken
         /\ RowAfterBegin(r, b).version >= r.version
<1> DEFINE c == [r.content EXCEPT !.model = TRUE]
           q == [r EXCEPT !.version = @ + 1, !.content = c]
<1>1. r.content \in Contents BY DEF Rows
<1>2. c \in Contents /\ c.text # Broken BY <1>1, ContentsAreClosed DEF Contents
<1>3. r.version + 1 \in Nat \ {0} /\ r.version + 1 >= r.version BY DEF Rows
<1>4. RowAfterBegin(r, b) \in {r, q} BY <1>1 DEF RowAfterBegin, Rows
<1> HIDE DEF c
<1>5. q \in Rows /\ q.content = c /\ q.version = r.version + 1
  BY <1>2, <1>3 DEF Rows
<1> HIDE DEF q
<1> QED BY <1>2, <1>3, <1>4, <1>5 DEF Rows

LEMMA RunWaitsTyped ==
  ASSUME TypeOK, RunWaitsForQueue PROVE TypeOK'
<1>1. RunTicket \in Nat \X Nat BY DEF TypeOK, RunTicket
<1>2. run' = [run EXCEPT !.at = "draining", !.ticket = RunTicket] BY DEF RunWaitsForQueue
<1>3. run' \in Handlers /\ run'.at = "draining"
  BY <1>1, <1>2 DEF TypeOK, Handlers
<1> QED BY <1>3 DEF TypeOK, RunWaitsForQueue, shell, editor, waiting

LEMMA StartRunTyped ==
  ASSUME TypeOK, DraftsAreReal, StartRun PROVE TypeOK'
<1>1. run' = IF draft = NoDraft \/ refresh THEN Idle
             ELSE [run EXCEPT !.at = "calling", !.draft = draft]
  BY DEF StartRun
<1>2. CASE draft = NoDraft \/ refresh
  <2>1. run' \in Handlers /\ run'.at = "idle" BY <1>1, <1>2, Constants DEF Idle
  <2> QED BY <2>1 DEF TypeOK, StartRun, shell, editor, waiting
<1>3. CASE ~(draft = NoDraft \/ refresh)
  <2>1. draft \in Drafts /\ draft.workflow \in Workflows
    BY <1>3 DEF TypeOK, DraftsAreReal, Real
  <2>2. run' \in Handlers /\ run'.draft = draft BY <1>1, <1>3, <2>1 DEF TypeOK, Handlers
  <2> QED BY <2>1, <2>2 DEF TypeOK, StartRun, shell, editor, waiting
<1> QED BY <1>2, <1>3

LEMMA RunBeginsTyped ==
  ASSUME TypeOK, DraftsAreReal, RunBegins PROVE TypeOK'
<1> DEFINE w == run.draft.workflow
<1>1. w \in Workflows BY DEF TypeOK, RunBegins
<1>2. PICK b \in BOOLEAN : stored' = [stored EXCEPT ![w] = RowAfterBegin(@, b)]
  BY DEF RunBegins
<1>3. stored[w] \in Rows /\ stored[w].content.text # Broken
  BY <1>1 DEF TypeOK, DraftsAreReal
<1>4. RowAfterBegin(stored[w], b) \in Rows BY <1>3, BegunFits
<1>5. stored' \in [Workflows -> Rows] BY <1>1, <1>2, <1>4 DEF TypeOK
<1> DEFINE d == [workflow |-> w, version |-> stored'[w].version,
                 content |-> stored'[w].content]
<1>6. d \in Drafts /\ d.workflow = w BY <1>1, <1>5 DEF Rows, Drafts, Names
<1>7. run' = [run EXCEPT !.at = "begun", !.draft = d] BY DEF RunBegins
<1> HIDE DEF d
<1>8. run' \in Handlers /\ run'.draft = d BY <1>6, <1>7 DEF TypeOK, Handlers
<1> QED BY <1>1, <1>5, <1>6, <1>8
        DEF TypeOK, RunBegins, shell, editor, waiting

LEMMA RunFailsTyped ==
  ASSUME TypeOK, RunFails PROVE TypeOK'
<1>1. run' \in Handlers /\ run'.at = "idle" BY Constants DEF RunFails, Idle
<1> QED BY <1>1 DEF TypeOK, RunFails, shell, editor, waiting

LEMMA RunAnsweredTyped ==
  ASSUME TypeOK, RunAnswered PROVE TypeOK'
<1>1. run' \in Handlers /\ run'.at = "idle" BY Constants DEF RunAnswered, Idle
<1>2. run.draft \in Drafts BY DEF TypeOK, Handlers
<1>3. draft' \in Drafts /\ view' \in Views BY <1>2, DraftsAreShown DEF RunAnswered
<1> QED BY <1>1, <1>3 DEF TypeOK, RunAnswered, waiting

\* The types, whatever step is taken.
LEMMA StepTyped ==
  ASSUME TypeOK, DraftsAreReal, [Next]_vars PROVE TypeOK'
<1>1. CASE UNCHANGED vars
  BY <1>1 DEF TypeOK, vars, shell, editor, waiting, handlers
<1>2. CASE User
  BY <1>2, SelectTyped, ForeignTyped, TypeTyped, EditNodesTyped, PressRunTyped DEF User
<1>3. CASE Application
  BY <1>3, GetDraftTyped, UpdateDraftTyped, RunBeginsTyped DEF Application
<1>4. CASE Shell
  BY <1>4, LoadedTyped, SavedTyped, AutosaveTyped, SendSaveTyped, EditNodesGoesOnTyped,
     RunWaitsTyped, StartRunTyped, RunFailsTyped, RunAnsweredTyped DEF Shell
<1> QED BY <1>1, <1>2, <1>3, <1>4 DEF Next

LEMMA InitIsTyped == Init => TypeOK
<1> SUFFICES ASSUME Init PROVE TypeOK OBVIOUS
<1>1. stored \in [Workflows -> Rows]
  <2>1. stored = [w \in Workflows |->
          [version |-> 1, content |-> Content(w, First), foreign |-> 0]]
    BY DEF Init
  <2>2. \A w \in Workflows :
          [version |-> 1, content |-> Content(w, First), foreign |-> 0] \in Rows
    BY Constants DEF Rows
  <2> QED BY <2>1, <2>2
<1>2. view \in Views BY Constants DEF Init, Views, Names
<1>3. queue \in Seq(QueuedEdits) BY DEF Init
<1>4. draft \in Drafts /\ pending \in Edits /\ run \in Handlers /\ nodeEdit \in Handlers
      /\ run.at = "idle"
  BY Constants DEF Init, Idle
<1>5. selected \in Names BY DEF Init, Names
<1>6. acts \in 0 .. MaxActs BY ShellAssumption DEF Init
<1>7. loads = {} /\ saves = {} /\ selection = 0 /\ edit = 0 /\ refresh = FALSE
      /\ timer = FALSE /\ queued = 0 /\ ran = "no"
  BY DEF Init
<1> QED BY <1>1, <1>2, <1>3, <1>4, <1>5, <1>6, <1>7 DEF TypeOK
-----------------------------------------------------------------------------
(* What is stored, queued and answered parses and names a workflow.        *)

\* A queue that grows keeps what holds of every edit of it.
LEMMA QueueGrows ==
  ASSUME NEW q \in Seq(QueuedEdits), NEW e \in QueuedEdits,
         NEW i \in DOMAIN Append(q, e)
  PROVE  Append(q, e)[i] = e \/ (i \in DOMAIN q /\ Append(q, e)[i] = q[i])
OBVIOUS

LEMMA QueueShrinks ==
  ASSUME NEW q \in Seq(QueuedEdits), q # <<>>, NEW i \in DOMAIN Tail(q)
  PROVE  i + 1 \in DOMAIN q /\ Tail(q)[i] = q[i + 1]
OBVIOUS

\* What a flush queues, if anything, is of the current draft and parses.
LEMMA FlushQueues ==
  ASSUME TypeOK, DraftsAreReal, FlushDraftEdit
  PROVE  \/ queue' = queue
         \/ \E e \in QueuedEdits :
              /\ queue' = Append(queue, e)
              /\ draft # NoDraft /\ e.workflow = draft.workflow /\ e.content.text # Broken
<1>1. CASE pending # NoEdit /\ Accepts(pending)
  <2>1. draft # NoDraft /\ pending.workflow = draft.workflow /\ draft.workflow \in Workflows
    BY <1>1 DEF DraftsAreReal, Real, Accepts
  <2>2. Typed(pending) \in QueuedEdits BY <2>1 DEF TypeOK, Typed, Edits, QueuedEdits
  <2>3. queue' = Append(queue, Typed(pending)) BY <1>1 DEF FlushDraftEdit, QueueDraftEdit
  <2>4. Typed(pending).workflow = draft.workflow /\ Typed(pending).content.text # Broken
    BY <2>1 DEF Typed, FlushDraftEdit
  <2> QED BY <2>1, <2>2, <2>3, <2>4
<1>2. CASE ~(pending # NoEdit /\ Accepts(pending))
  BY <1>2 DEF FlushDraftEdit, QueueDraftEdit, waiting
<1> QED BY <1>1, <1>2

\* A queued edit that parses, of the draft in hand, leaves everything real.
LEMMA QueueingIsReal ==
  ASSUME TypeOK, DraftsAreReal, UNCHANGED <<stored, draft, loads, saves>>,
         NEW e \in QueuedEdits, queue' = Append(queue, e), draft # NoDraft,
         e.content.text # Broken,
         run'.at \in {"calling", "begun"} => Real(run'.draft)
  PROVE  DraftsAreReal'
<1>1. \A i \in DOMAIN queue' : queue'[i].content.text # Broken
  <2> SUFFICES ASSUME NEW i \in DOMAIN Append(queue, e)
               PROVE  Append(queue, e)[i].content.text # Broken
    OBVIOUS
  <2>1. Append(queue, e)[i] = e \/ (i \in DOMAIN queue /\ Append(queue, e)[i] = queue[i])
    BY QueueGrows DEF TypeOK
  <2> QED BY <2>1 DEF DraftsAreReal
<1> QED BY <1>1 DEF DraftsAreReal, Real

\* A flush, and the handler that made it.
LEMMA FlushIsReal ==
  ASSUME TypeOK, DraftsAreReal, FlushDraftEdit, UNCHANGED <<stored, draft, loads, saves>>,
         run'.at \in {"calling", "begun"} => Real(run'.draft)
  PROVE  DraftsAreReal'
<1>1. CASE queue' = queue BY <1>1 DEF DraftsAreReal, Real
<1>2. ASSUME NEW e \in QueuedEdits, queue' = Append(queue, e), draft # NoDraft,
             e.content.text # Broken
      PROVE  DraftsAreReal'
  BY <1>2, QueueingIsReal
<1> QED BY <1>1, <1>2, FlushQueues

LEMMA UserIsReal == ASSUME TypeOK, DraftsAreReal, User PROVE DraftsAreReal'
<1>1. ASSUME NEW w \in Workflows, SelectWorkflow(w) PROVE DraftsAreReal'
  <2>1. /\ stored' = stored /\ saves' = saves /\ run' = run /\ draft' = NoDraft
        /\ queue' = <<>>
        /\ \A l \in loads' : l \in loads \/ l.answer = NoAnswer
    BY <1>1 DEF SelectWorkflow, handlers
  <2> QED BY <2>1 DEF DraftsAreReal, Real, NoAnswer
<1>2. ASSUME NEW w \in Workflows, AnotherWindowSaves(w) PROVE DraftsAreReal'
  <2>1. UNCHANGED <<draft, queue, loads, saves, run>>
    BY <1>2 DEF AnotherWindowSaves, shell, waiting, handlers
  <2>2. \A v \in Workflows : stored'[v].content \in {stored[v].content, Content(w, Foreign)}
    BY <1>2 DEF AnotherWindowSaves, TypeOK, Rows
  <2>3. Content(w, Foreign).text # Broken BY ShellAssumption DEF Content
  <2> QED BY <2>1, <2>2, <2>3 DEF DraftsAreReal, Real
<1>3. ASSUME NEW t \in Texts \cup {Broken}, Type(t) PROVE DraftsAreReal'
  BY <1>3 DEF Type, waiting, handlers, DraftsAreReal, Real
<1>4. CASE EditNodes BY <1>4, FlushIsReal DEF EditNodes, DraftsAreReal, Real
<1>5. CASE PressRun
  <2>1. run'.at = "flushing" BY <1>5 DEF PressRun, Handler
  <2> QED BY <1>5, <2>1, FlushIsReal DEF PressRun
<1> QED BY <1>1, <1>2, <1>3, <1>4, <1>5 DEF User

LEMMA ApplicationIsReal == ASSUME TypeOK, DraftsAreReal, Application PROVE DraftsAreReal'
<1>1. ASSUME NEW l \in loads, GetDraft(l) PROVE DraftsAreReal'
  <2>1. UNCHANGED <<stored, draft, queue, saves, run>>
    BY <1>1 DEF GetDraft, shell, waiting, handlers
  <2>2. l \in Loads /\ l.workflow \in Workflows BY DEF TypeOK, Loads
  <2>3. Real(Row(l.workflow)) /\ Row(l.workflow).workflow = l.workflow
    BY <2>2 DEF TypeOK, DraftsAreReal, Row, Rows, Real
  <2>4. PICK a \in {[kind |-> "draft", draft |-> Row(l.workflow)], Failure} :
          loads' = (loads \ {l}) \cup {[l EXCEPT !.answer = a]}
    BY <1>1 DEF GetDraft
  <2>5. [l EXCEPT !.answer = a].answer = a /\ [l EXCEPT !.answer = a].workflow = l.workflow
    BY <2>2 DEF Loads
  <2>6. a.kind = "draft" => a.draft = Row(l.workflow) BY <2>4 DEF Failure
  <2>7. \A k \in loads' : k.answer.kind = "draft" =>
          Real(k.answer.draft) /\ k.answer.draft.workflow = k.workflow
    BY ZenonT(30), <2>3, <2>4, <2>5, <2>6 DEF DraftsAreReal
  <2> QED BY <2>1, <2>7 DEF DraftsAreReal, Real
<1>2. ASSUME NEW s \in saves, UpdateDraft(s) PROVE DraftsAreReal'
  <2>1. UNCHANGED <<draft, queue, loads, run>>
    BY <1>2 DEF UpdateDraft, shell, waiting, handlers
  <2>2. s \in Saves /\ s.workflow \in Workflows /\ RowAfter(s) \in Rows
        /\ RowAfter(s).content.text # Broken
    BY RowsFit DEF TypeOK
  <2>3. \A w \in Workflows : stored'[w] \in {stored[w], RowAfter(s)}
    BY <1>2, <2>2 DEF UpdateDraft, TypeOK
  <2>4. PICK a \in {SaveAnswer(s), Failure} :
          saves' = (saves \ {s}) \cup {[s EXCEPT !.answer = a]}
    BY <1>2 DEF UpdateDraft, SaveAnswer
  <2>5. [s EXCEPT !.answer = a].answer = a /\ [s EXCEPT !.answer = a].workflow = s.workflow
    BY <2>2 DEF Saves
  <2>6. Real(SaveAnswer(s).draft) /\ SaveAnswer(s).draft.workflow = s.workflow
        /\ SaveAnswer(s).kind \in {"saved", "conflict"}
    BY <2>2 DEF SaveAnswer, Real, Rows
  <2>7. Failure.kind = "error" BY DEF Failure
  <2>8. \A t \in saves' :
          /\ t.answer.kind \in {"saved", "conflict"} =>
               Real(t.answer.draft) /\ t.answer.draft.workflow = t.workflow
          /\ t.answer = NoAnswer \/ t.answer.kind \in {"saved", "conflict", "error"}
    BY <2>4, <2>5, <2>6, <2>7 DEF DraftsAreReal
  <2>9. \A w \in Workflows : stored'[w].content.text # Broken
    BY <2>2, <2>3 DEF DraftsAreReal
  <2> QED BY <2>1, <2>8, <2>9 DEF DraftsAreReal, Real
<1>3. CASE RunBegins
  <2> DEFINE w == run.draft.workflow
  <2>1. UNCHANGED <<draft, queue, loads, saves>>
    BY <1>3 DEF RunBegins, shell, waiting
  <2>2. w \in Workflows BY <1>3 DEF TypeOK, RunBegins
  <2>3. PICK b \in BOOLEAN : stored' = [stored EXCEPT ![w] = RowAfterBegin(@, b)]
    BY <1>3 DEF RunBegins
  <2>4. stored[w] \in Rows /\ stored[w].content.text # Broken
    BY <2>2 DEF TypeOK, DraftsAreReal
  <2>5. RowAfterBegin(stored[w], b) \in Rows
        /\ RowAfterBegin(stored[w], b).content.text # Broken
    BY <2>4, BegunFits
  <2>6. stored'[w] = RowAfterBegin(stored[w], b)
        /\ \A v \in Workflows \ {w} : stored'[v] = stored[v]
    BY <2>2, <2>3 DEF TypeOK
  <2>7. run'.draft = [workflow |-> w, version |-> stored'[w].version,
                      content |-> stored'[w].content]
    BY <1>3 DEF RunBegins, TypeOK, Handlers
  <2>8. Real(run'.draft) BY <2>2, <2>5, <2>6, <2>7 DEF Real, Rows
  <2>9. \A v \in Workflows : stored'[v].content.text # Broken
    BY <2>5, <2>6 DEF DraftsAreReal
  <2> QED BY <2>1, <2>8, <2>9 DEF DraftsAreReal, Real
<1> QED BY <1>1, <1>2, <1>3 DEF Application

LEMMA ShellIsReal == ASSUME TypeOK, DraftsAreReal, Shell PROVE DraftsAreReal'
<1> NoDraft.workflow = NoWorkflow BY DEF NoDraft
<1>1. ASSUME NEW l \in loads, DraftLoaded(l) PROVE DraftsAreReal'
  <2>1. UNCHANGED <<stored, queue, saves, run>> /\ loads' \subseteq loads
    BY <1>1 DEF DraftLoaded, waiting, handlers
  <2>2. draft' = draft \/ (l.answer.kind = "draft" /\ draft' = l.answer.draft)
    BY <1>1 DEF DraftLoaded, AnswersSelection
  <2>3. draft' = draft \/ Real(draft') BY <2>2 DEF DraftsAreReal
  <2> QED BY <2>1, <2>3, ShellAssumption DEF DraftsAreReal, Real
<1>2. ASSUME NEW s \in saves, DraftSaved(s) PROVE DraftsAreReal'
  <2>1. UNCHANGED <<stored, queue, loads, run>> /\ saves' \subseteq saves
    BY <1>2 DEF DraftSaved, waiting, handlers
  <2>2. s.answer.kind \in {"saved", "conflict", "error"}
    BY <1>2 DEF DraftSaved, DraftsAreReal
  <2>3. draft' = draft \/ Real(draft') BY <1>2, <2>2 DEF DraftSaved, DraftsAreReal
  <2> QED BY <2>1, <2>3, ShellAssumption DEF DraftsAreReal, Real
<1>3. CASE AutosaveFires
  <2>1. UNCHANGED <<stored, draft, loads, saves, run>> BY <1>3 DEF AutosaveFires, handlers
  <2>2. CASE FlushDraftEdit BY <2>1, <2>2, FlushIsReal DEF DraftsAreReal
  <2>3. CASE queue' = queue BY <2>1, <2>3 DEF DraftsAreReal, Real
  <2> QED BY <1>3, <2>2, <2>3 DEF AutosaveFires, waiting
<1>4. CASE SendSave
  <2>1. UNCHANGED <<stored, draft, loads, run>> /\ queue # <<>> /\ queue' = Tail(queue)
    BY <1>4 DEF SendSave, shell, handlers
  <2>2. \A i \in DOMAIN queue' : queue'[i].content.text # Broken
    BY <2>1, QueueShrinks DEF TypeOK, DraftsAreReal
  <2>3. \A s \in saves' : s \in saves \/ s.answer = NoAnswer
    BY <1>4 DEF SendSave, Request
  <2> QED BY <2>1, <2>2, <2>3 DEF DraftsAreReal, Real, NoAnswer
<1>5. CASE EditNodesGoesOn
  <2>1. UNCHANGED <<stored, draft, loads, saves, run>> BY <1>5 DEF EditNodesGoesOn
  <2>2. CASE draft = NoDraft \/ refresh
    BY <1>5, <2>1, <2>2 DEF EditNodesGoesOn, waiting, DraftsAreReal, Real
  <2>3. CASE ~(draft = NoDraft \/ refresh)
    <3> DEFINE e == Structured(draft.workflow, edit + 1)
    <3>1. draft.workflow \in Workflows /\ edit + 1 \in Nat
      BY <2>3 DEF TypeOK, DraftsAreReal, Real
    <3>2. e \in QueuedEdits BY <3>1, StructuredFits
    <3>3. e.content.text # Broken
      BY ShellAssumption DEF Structured, NoContent, Content
    <3>4. queue' = Append(queue, e) BY <1>5, <2>3 DEF EditNodesGoesOn
    <3> HIDE DEF e
    <3> QED BY <2>1, <2>3, <3>2, <3>3, <3>4, QueueingIsReal DEF DraftsAreReal
  <2> QED BY <2>2, <2>3
<1>6. CASE RunWaitsForQueue
  <2>1. run'.at = "draining" BY <1>6 DEF RunWaitsForQueue, TypeOK, Handlers
  <2> QED BY <1>6, <2>1
          DEF RunWaitsForQueue, shell, waiting, DraftsAreReal, Real
<1>7. CASE StartRun
  <2>1. run'.at \in {"calling", "begun"} => draft # NoDraft /\ run'.draft = draft
    BY <1>7 DEF StartRun, Idle, TypeOK, Handlers
  <2> QED BY <1>7, <2>1 DEF StartRun, shell, waiting, DraftsAreReal, Real
<1>8. CASE RunFails
  BY <1>8 DEF RunFails, Idle, shell, waiting, DraftsAreReal, Real
<1>9. CASE RunAnswered
  <2>1. draft' = run.draft /\ Real(run.draft) /\ run'.at = "idle"
        /\ UNCHANGED <<stored, queue, loads, saves>>
    BY <1>9 DEF RunAnswered, DraftsAreReal, Idle, waiting
  <2> QED BY <2>1, ShellAssumption DEF DraftsAreReal, Real
<1> QED BY <1>1, <1>2, <1>3, <1>4, <1>5, <1>6, <1>7, <1>8, <1>9 DEF Shell

LEMMA StepIsReal == ASSUME TypeOK, DraftsAreReal, [Next]_vars PROVE DraftsAreReal'
<1>1. CASE UNCHANGED vars
  BY <1>1 DEF vars, shell, waiting, handlers, DraftsAreReal, Real
<1> QED BY <1>1, UserIsReal, ApplicationIsReal, ShellIsReal DEF Next

LEMMA InitIsReal == Init => DraftsAreReal
<1> SUFFICES ASSUME Init PROVE DraftsAreReal OBVIOUS
<1>1. \A w \in Workflows : stored[w].content.text # Broken
  BY ShellAssumption DEF Init, Content
<1> QED BY <1>1 DEF Init, DraftsAreReal, Idle

\* Every state the window reaches is typed, and its drafts are real.
THEOREM TypeCorrect == Spec => [](TypeOK /\ DraftsAreReal)
<1>1. Init => TypeOK /\ DraftsAreReal BY InitIsTyped, InitIsReal
<1>2. TypeOK /\ DraftsAreReal /\ [Next]_vars => (TypeOK /\ DraftsAreReal)'
  BY StepTyped, StepIsReal
<1> QED BY <1>1, <1>2, PTL DEF Spec
-----------------------------------------------------------------------------
(* What belongs to the selection belongs to the workflow it selected.      *)

\* Steps that neither select, load, send nor take a Run further, and keep the draft.
LEMMA SelectionStays ==
  ASSUME SelectionIsKept, UNCHANGED <<draft, selected, selection, loads, saves, ran>>,
         run'.from \in {run.from, selection}, selection \in Nat,
         run'.at \notin {"calling", "begun"} \/ run' = run
  PROVE  SelectionIsKept'
BY DEF SelectionIsKept

LEMMA UserKeepsSelection ==
  ASSUME TypeOK, SelectionIsKept, User PROVE SelectionIsKept'
<1> selection \in Nat BY DEF TypeOK
<1>1. ASSUME NEW w \in Workflows, SelectWorkflow(w) PROVE SelectionIsKept'
  <2> DEFINE k == [selection |-> selection + 1, workflow |-> w, answer |-> NoAnswer]
  <2>1. /\ selection' = selection + 1 /\ selected' = w /\ draft' = NoDraft
        /\ loads' = loads \cup {k} /\ k.selection = selection + 1 /\ k.workflow = w
        /\ saves' = saves /\ run' = run
    BY <1>1 DEF SelectWorkflow, handlers
  <2> HIDE DEF k
  <2>2. \A l \in loads : l.selection \in Nat /\ l.selection =< selection
    BY DEF TypeOK, Loads, SelectionIsKept
  <2>3. \A s \in saves : s.selection \in Nat /\ s.selection =< selection
    BY DEF TypeOK, Saves, SelectionIsKept
  <2>4. run.from \in Nat /\ run.from =< selection
    BY DEF TypeOK, Handlers, SelectionIsKept
  <2> QED BY <2>1, <2>2, <2>3, <2>4 DEF SelectionIsKept
<1>2. ASSUME NEW w \in Workflows, AnotherWindowSaves(w) PROVE SelectionIsKept'
  BY <1>2, SelectionStays DEF AnotherWindowSaves, shell, handlers
<1>3. ASSUME NEW t \in Texts \cup {Broken}, Type(t) PROVE SelectionIsKept'
  BY <1>3, SelectionStays DEF Type, handlers
<1>4. CASE EditNodes BY <1>4, SelectionStays DEF EditNodes
<1>5. CASE PressRun
  <2>1. run'.at = "flushing" /\ run'.from = selection BY <1>5 DEF PressRun, Handler
  <2> QED BY <1>5, <2>1, SelectionStays DEF PressRun
<1> QED BY <1>1, <1>2, <1>3, <1>4, <1>5 DEF User

LEMMA ApplicationKeepsSelection ==
  ASSUME TypeOK, SelectionIsKept, Application PROVE SelectionIsKept'
<1>1. ASSUME NEW l \in loads, GetDraft(l) PROVE SelectionIsKept'
  <2>1. UNCHANGED <<draft, selected, selection, saves, run, ran>>
    BY <1>1 DEF GetDraft, shell, handlers
  <2>2. \A k \in loads' : \E j \in loads : k.selection = j.selection /\ k.workflow = j.workflow
    BY <1>1 DEF GetDraft, TypeOK, Loads
  <2> QED BY <2>1, <2>2 DEF SelectionIsKept
<1>2. ASSUME NEW s \in saves, UpdateDraft(s) PROVE SelectionIsKept'
  <2>1. UNCHANGED <<draft, selected, selection, loads, run, ran>>
    BY <1>2 DEF UpdateDraft, shell, handlers
  <2>2. \A t \in saves' : \E u \in saves : t.selection = u.selection
    BY <1>2 DEF UpdateDraft, TypeOK, Saves
  <2> QED BY <2>1, <2>2 DEF SelectionIsKept
<1>3. CASE RunBegins
  <2>1. UNCHANGED <<draft, selected, selection, loads, saves, ran>>
    BY <1>3 DEF RunBegins, shell
  <2>2. run'.from = run.from /\ run.at = "calling"
        /\ run'.draft.workflow = run.draft.workflow
    BY <1>3 DEF RunBegins, TypeOK, Handlers
  <2> QED BY <2>1, <2>2 DEF SelectionIsKept
<1> QED BY <1>1, <1>2, <1>3 DEF Application

LEMMA ShellKeepsSelection ==
  ASSUME TypeOK, DraftsAreReal, SelectionIsKept, Shell PROVE SelectionIsKept'
<1> selection \in Nat BY DEF TypeOK
<1>1. ASSUME NEW l \in loads, DraftLoaded(l) PROVE SelectionIsKept'
  <2>1. UNCHANGED <<selected, selection, saves, run, ran>> /\ loads' \subseteq loads
    BY <1>1 DEF DraftLoaded, handlers
  <2>2. \/ draft' = draft
        \/ /\ l.answer.kind = "draft" /\ l.selection = selection
           /\ draft' = l.answer.draft
    BY <1>1 DEF DraftLoaded, AnswersSelection
  <2>3. draft' = draft \/ draft'.workflow = selected
    BY <2>2 DEF DraftsAreReal, SelectionIsKept
  <2> QED BY <2>1, <2>3 DEF SelectionIsKept
<1>2. ASSUME NEW s \in saves, DraftSaved(s) PROVE SelectionIsKept'
  <2>1. UNCHANGED <<selected, selection, loads, run, ran>> /\ saves' \subseteq saves
    BY <1>2 DEF DraftSaved, handlers
  <2>2. draft' = draft \/ (draft # NoDraft /\ draft'.workflow = draft.workflow)
    BY <1>2 DEF DraftSaved, IsCurrent, DraftsAreReal
  <2> QED BY <2>1, <2>2 DEF SelectionIsKept
<1>3. CASE AutosaveFires BY <1>3, SelectionStays DEF AutosaveFires, handlers
<1>4. CASE SendSave
  <2>1. UNCHANGED <<draft, selected, selection, loads, run, ran>>
    BY <1>4 DEF SendSave, shell, handlers
  <2>2. \A s \in saves' : s \in saves \/ s.selection = selection
    BY <1>4 DEF SendSave, Request
  <2> QED BY <2>1, <2>2 DEF SelectionIsKept
<1>5. CASE EditNodesGoesOn BY <1>5, SelectionStays DEF EditNodesGoesOn
<1>6. CASE RunWaitsForQueue
  <2>1. run'.at = "draining" /\ run'.from = run.from
    BY <1>6 DEF RunWaitsForQueue, TypeOK, Handlers
  <2> QED BY <1>6, <2>1, SelectionStays DEF RunWaitsForQueue, shell
<1>7. CASE StartRun
  <2>1. UNCHANGED <<draft, selected, selection, loads, saves, ran>>
    BY <1>7 DEF StartRun, shell
  <2>2. \/ run' = Idle
        \/ draft # NoDraft /\ run'.from = run.from /\ run'.draft = draft
    BY <1>7 DEF StartRun, TypeOK, Handlers
  <2> QED BY <2>1, <2>2 DEF SelectionIsKept, Idle
<1>8. CASE RunFails
  BY <1>8 DEF RunFails, Idle, shell, SelectionIsKept
<1>9. CASE RunAnswered
  <2>1. /\ UNCHANGED <<selected, selection, loads, saves>>
        /\ draft' = run.draft /\ run' = Idle /\ run.at = "begun"
        /\ ran' # "stray" => ran # "stray" /\ run.from = selection
    BY <1>9 DEF RunAnswered
  <2> QED BY <2>1 DEF SelectionIsKept, Idle
<1> QED BY <1>1, <1>2, <1>3, <1>4, <1>5, <1>6, <1>7, <1>8, <1>9 DEF Shell

LEMMA StepKeepsSelection ==
  ASSUME TypeOK, DraftsAreReal, SelectionIsKept, [Next]_vars PROVE SelectionIsKept'
<1>1. CASE UNCHANGED vars BY <1>1 DEF vars, shell, handlers, SelectionIsKept
<1> QED BY <1>1, UserKeepsSelection, ApplicationKeepsSelection, ShellKeepsSelection
        DEF Next

LEMMA InitKeepsSelection == Init => SelectionIsKept
BY DEF Init, SelectionIsKept, Idle

\* CurrentIsSelected, for every set of workflows and any number of acts: late answers of
\* loads and saves never bring an older selection back.
THEOREM SelectionCorrect == Spec => []CurrentIsSelected
<1>1. Init => SelectionIsKept BY InitKeepsSelection
<1>2. TypeOK /\ DraftsAreReal /\ SelectionIsKept /\ [Next]_vars => SelectionIsKept'
  BY StepKeepsSelection
<1>3. SelectionIsKept => CurrentIsSelected BY DEF SelectionIsKept, CurrentIsSelected
<1> QED BY <1>1, <1>2, <1>3, TypeCorrect, PTL DEF Spec
-----------------------------------------------------------------------------
(* The token never goes back.                                              *)

VersionsGrow ==
  \A w \in Workflows : /\ stored[w].version \in Nat /\ stored'[w].version \in Nat
                       /\ stored[w].version =< stored'[w].version

LEMMA StoredGrows == ASSUME TypeOK, DraftsAreReal, [Next]_vars PROVE VersionsGrow
<1> TypeOK' BY StepTyped
<1>1. \A w \in Workflows : stored[w].version \in Nat /\ stored'[w].version \in Nat
  BY DEF TypeOK, Rows
<1>2. CASE stored' = stored BY <1>1, <1>2 DEF VersionsGrow
<1>3. ASSUME NEW w \in Workflows, AnotherWindowSaves(w) PROVE VersionsGrow
  <2>1. \A v \in Workflows : stored'[v].version \in {stored[v].version, stored[v].version + 1}
    BY <1>3 DEF AnotherWindowSaves, TypeOK, Rows
  <2> QED BY <1>1, <2>1 DEF VersionsGrow
<1>4. ASSUME NEW s \in saves, UpdateDraft(s) PROVE VersionsGrow
  <2>1. s.workflow \in Workflows /\ RowAfter(s).version >= stored[s.workflow].version
    BY RowsFit
  <2>2. CASE stored' = [stored EXCEPT ![s.workflow] = RowAfter(s)]
    <3>1. \A w \in Workflows : w # s.workflow => stored'[w] = stored[w]
      BY <2>2 DEF TypeOK
    <3>2. stored'[s.workflow] = RowAfter(s) BY <2>1, <2>2 DEF TypeOK
    <3> QED BY <1>1, <2>1, <3>1, <3>2 DEF VersionsGrow
  <2> QED BY <1>2, <1>4, <2>2 DEF UpdateDraft
<1>5. CASE RunBegins
  <2> DEFINE w == run.draft.workflow
  <2>1. w \in Workflows BY <1>5 DEF TypeOK, RunBegins
  <2>2. PICK b \in BOOLEAN : stored' = [stored EXCEPT ![w] = RowAfterBegin(@, b)]
    BY <1>5 DEF RunBegins
  <2>3. stored[w] \in Rows /\ stored[w].content.text # Broken
    BY <2>1 DEF TypeOK, DraftsAreReal
  <2>4. RowAfterBegin(stored[w], b).version >= stored[w].version BY <2>3, BegunFits
  <2>5. stored'[w] = RowAfterBegin(stored[w], b)
        /\ \A v \in Workflows : v # w => stored'[v] = stored[v]
    BY <2>1, <2>2 DEF TypeOK
  <2> HIDE DEF w
  <2> QED BY <1>1, <2>1, <2>4, <2>5 DEF VersionsGrow
<1>6. CASE User BY <1>2, <1>3, <1>6 DEF User, SelectWorkflow, Type, EditNodes, PressRun
<1>7. CASE Application BY <1>2, <1>4, <1>5, <1>7 DEF Application, GetDraft
<1>8. CASE Shell
  BY <1>2, <1>8 DEF Shell, DraftLoaded, DraftSaved, AutosaveFires, SendSave,
     EditNodesGoesOn, RunWaitsForQueue, StartRun, RunFails, RunAnswered
<1>9. CASE UNCHANGED vars BY <1>2, <1>9 DEF vars
<1> QED BY <1>6, <1>7, <1>8, <1>9 DEF Next

\* The versions and workflows that calls carry.
CallsAreTyped ==
  /\ draft.version \in Nat /\ (draft # NoDraft => draft.workflow \in Workflows)
  /\ \A l \in loads : l.workflow \in Workflows /\ l.answer.draft.version \in Nat
  /\ \A s \in saves : s.workflow \in Workflows /\ s.answer.draft.version \in Nat

LEMMA TypedCalls == ASSUME TypeOK, DraftsAreReal PROVE CallsAreTyped
BY DEF TypeOK, DraftsAreReal, Real, Drafts, Loads, Saves, Answers, CallsAreTyped

\* Steps that keep the draft and the calls, and queue at most an edit of the draft.
LEMMA TokensStay ==
  ASSUME CallsAreTyped, TokensInOrder, VersionsGrow,
         UNCHANGED <<draft, selection, loads, saves, ran>>,
         \A i \in DOMAIN queue' : \/ queue'[i].workflow = draft.workflow
                                  \/ \E j \in DOMAIN queue : queue'[i] = queue[j]
  PROVE  TokensInOrder'
BY DEF CallsAreTyped, TokensInOrder, VersionsGrow

\* A flush, whatever else it goes with.
LEMMA FlushKeepsTokens ==
  ASSUME TypeOK, DraftsAreReal, TokensInOrder, VersionsGrow, FlushDraftEdit,
         UNCHANGED <<draft, selection, loads, saves, ran>>
  PROVE  TokensInOrder'
<1>1. CASE queue' = queue BY <1>1, TypedCalls, TokensStay
<1>2. ASSUME NEW e \in QueuedEdits, queue' = Append(queue, e),
             e.workflow = draft.workflow
      PROVE  TokensInOrder'
  <2>1. \A i \in DOMAIN Append(queue, e) :
          Append(queue, e)[i] = e \/ (i \in DOMAIN queue /\ Append(queue, e)[i] = queue[i])
    BY QueueGrows DEF TypeOK
  <2> QED BY <1>2, <2>1, TypedCalls, TokensStay
<1> QED BY <1>1, <1>2, FlushQueues

LEMMA UserKeepsTokens ==
  ASSUME TypeOK, DraftsAreReal, SelectionIsKept, TokensInOrder, VersionsGrow, User
  PROVE  TokensInOrder'
<1> CallsAreTyped BY TypedCalls
<1> selection \in Nat BY DEF TypeOK
<1>1. ASSUME NEW w \in Workflows, SelectWorkflow(w) PROVE TokensInOrder'
  <2> DEFINE k == [selection |-> selection + 1, workflow |-> w, answer |-> NoAnswer]
  <2>1. /\ selection' = selection + 1 /\ draft' = NoDraft /\ queue' = <<>>
        /\ loads' = loads \cup {k} /\ k.answer.kind = "none"
        /\ stored' = stored /\ saves' = saves
    BY <1>1 DEF SelectWorkflow, NoAnswer
  <2> HIDE DEF k
  <2>2. \A l \in loads : l.selection # selection + 1
    BY DEF TypeOK, Loads, SelectionIsKept
  <2>3. \A s \in saves : s.selection # selection + 1
    BY DEF TypeOK, Saves, SelectionIsKept
  <2> QED BY <2>1, <2>2, <2>3 DEF TokensInOrder
<1>2. ASSUME NEW w \in Workflows, AnotherWindowSaves(w) PROVE TokensInOrder'
  BY <1>2, TokensStay DEF AnotherWindowSaves, shell, waiting
<1>3. ASSUME NEW t \in Texts \cup {Broken}, Type(t) PROVE TokensInOrder'
  BY <1>3, TokensStay DEF Type, waiting
<1>4. CASE EditNodes BY <1>4, FlushKeepsTokens DEF EditNodes
<1>5. CASE PressRun BY <1>5, FlushKeepsTokens DEF PressRun
<1> QED BY <1>1, <1>2, <1>3, <1>4, <1>5 DEF User

LEMMA ApplicationKeepsTokens ==
  ASSUME TypeOK, DraftsAreReal, SelectionIsKept, TokensInOrder, VersionsGrow, Application
  PROVE  TokensInOrder'
<1> CallsAreTyped BY TypedCalls
<1>1. ASSUME NEW l \in loads, GetDraft(l) PROVE TokensInOrder'
  <2>1. UNCHANGED <<stored, draft, selection, queue, saves, ran>>
    BY <1>1 DEF GetDraft, shell, waiting
  <2>2. PICK a \in {[kind |-> "draft", draft |-> Row(l.workflow)], Failure} :
          loads' = (loads \ {l}) \cup {[l EXCEPT !.answer = a]}
    BY <1>1 DEF GetDraft
  <2> DEFINE k == [l EXCEPT !.answer = a]
  <2>3. k.answer = a /\ k.workflow = l.workflow /\ k.selection = l.selection
    BY DEF TypeOK, Loads
  <2>4. a.kind = "draft" => a.draft.version = stored[l.workflow].version
    BY <2>2 DEF Failure, Row
  <2>5. stored[l.workflow].version \in Nat BY DEF VersionsGrow, CallsAreTyped
  <2> HIDE DEF k
  <2>6. loads' = (loads \ {l}) \cup {k} BY <2>2 DEF k
  <2> QED BY <2>1, <2>3, <2>4, <2>5, <2>6 DEF TokensInOrder, CallsAreTyped
<1>2. ASSUME NEW s \in saves, UpdateDraft(s) PROVE TokensInOrder'
  <2>1. UNCHANGED <<draft, selection, queue, loads, ran>>
    BY <1>2 DEF UpdateDraft, shell, waiting
  <2>2. s \in Saves /\ s.workflow \in Workflows /\ stored'[s.workflow].version \in Nat
        /\ stored[s.workflow].version =< stored'[s.workflow].version
    BY DEF TypeOK, CallsAreTyped, VersionsGrow
  <2>3. ASSUME NEW a, saves' = (saves \ {s}) \cup {[s EXCEPT !.answer = a]},
               a.kind \in {"saved", "conflict"} =>
                 a.draft.version = stored'[s.workflow].version
        PROVE  TokensInOrder'
    <3> DEFINE t == [s EXCEPT !.answer = a]
    <3>1. t.answer = a /\ t.workflow = s.workflow /\ t.selection = s.selection
      BY <2>2 DEF Saves
    <3>2. saves' = (saves \ {s}) \cup {t} BY <2>3
    <3> HIDE DEF t
    <3> QED BY <2>1, <2>2, <2>3, <3>1, <3>2
            DEF TokensInOrder, CallsAreTyped, VersionsGrow
  <2>4. CASE /\ stored' = [stored EXCEPT ![s.workflow] = RowAfter(s)]
             /\ saves' = (saves \ {s}) \cup {[s EXCEPT !.answer = SaveAnswer(s)]}
    <3>1. stored'[s.workflow] = RowAfter(s) BY <2>2, <2>4 DEF TypeOK
    <3>2. SaveAnswer(s).draft.version = stored'[s.workflow].version
      BY <3>1 DEF SaveAnswer
    <3> QED BY <2>3, <2>4, <3>2
  <2>5. CASE saves' = (saves \ {s}) \cup {[s EXCEPT !.answer = Failure]}
    BY <2>3, <2>5 DEF Failure
  <2> QED BY <1>2, <2>4, <2>5 DEF UpdateDraft, SaveAnswer
<1>3. CASE RunBegins
  BY <1>3, TokensStay DEF RunBegins, shell, waiting
<1> QED BY <1>1, <1>2, <1>3 DEF Application

LEMMA ShellKeepsTokens ==
  ASSUME TypeOK, DraftsAreReal, SelectionIsKept, TokensInOrder, VersionsGrow, Shell
  PROVE  TokensInOrder'
<1> CallsAreTyped BY TypedCalls
<1>1. ASSUME NEW l \in loads, DraftLoaded(l) PROVE TokensInOrder'
  <2>1. UNCHANGED <<stored, selection, queue, saves, ran>> /\ loads' = loads \ {l}
    BY <1>1 DEF DraftLoaded, waiting
  <2>2. CASE draft' = draft BY <2>1, <2>2 DEF TokensInOrder
  <2>3. CASE l.answer.kind = "draft" /\ l.selection = selection /\ draft' = l.answer.draft
    <3>1. draft'.workflow = l.workflow BY <2>3 DEF DraftsAreReal
    <3>2. draft'.version =< stored'[draft'.workflow].version
      BY <2>1, <2>3, <3>1 DEF TokensInOrder
    <3>3. ran = "no" =>
            /\ draft = NoDraft /\ queue = <<>>
            /\ \A k \in loads' : k.selection # selection
            /\ \A s \in saves : s.selection # selection
      BY <2>1, <2>3 DEF TokensInOrder, DraftsAreReal
    <3> QED BY <2>1, <3>1, <3>2, <3>3 DEF TokensInOrder
  <2> QED BY <1>1, <2>2, <2>3 DEF DraftLoaded, AnswersSelection
<1>2. ASSUME NEW s \in saves, DraftSaved(s) PROVE TokensInOrder'
  <2>1. UNCHANGED <<stored, selection, queue, loads, ran>> /\ saves' = saves \ {s}
    BY <1>2 DEF DraftSaved, waiting
  <2>2. CASE draft' = draft BY <2>1, <2>2 DEF TokensInOrder
  <2>3. CASE s.answer.kind # "error" /\ IsCurrent(s) /\ draft' = s.answer.draft
    <3>1. s.answer.kind \in {"saved", "conflict"}
      BY <1>2, <2>3 DEF DraftSaved, DraftsAreReal
    <3>2. draft # NoDraft /\ draft'.workflow = draft.workflow
          /\ draft.workflow = s.workflow /\ s.selection = selection
      BY <2>3, <3>1 DEF IsCurrent, DraftsAreReal
    <3>3. draft'.version =< stored'[draft'.workflow].version
      BY <2>1, <2>3, <3>1, <3>2 DEF TokensInOrder
    <3>4. \A t \in saves' : t.selection # selection
      BY <2>1, <3>2 DEF TokensInOrder
    <3> QED BY <2>1, <3>2, <3>3, <3>4 DEF TokensInOrder
  <2> QED BY <1>2, <2>2, <2>3 DEF DraftSaved
<1>3. CASE AutosaveFires
  <2>1. UNCHANGED <<draft, selection, loads, saves, ran>>
    BY <1>3 DEF AutosaveFires
  <2>2. CASE FlushDraftEdit BY <2>1, <2>2, FlushKeepsTokens
  <2>3. CASE queue' = queue BY <2>1, <2>3, TokensStay
  <2> QED BY <1>3, <2>2, <2>3 DEF AutosaveFires, waiting
<1>4. CASE SendSave
  <2>1. UNCHANGED <<stored, draft, selection, loads, ran>>
        /\ queue # <<>> /\ queue' = Tail(queue)
    BY <1>4 DEF SendSave, shell
  <2>2. \A s \in saves : s.selection # selection
    BY <1>4 DEF SendSave, QueueIsFree, InFlight
  <2> DEFINE r == Request(Head(queue))
  <2>3. saves' \in {saves, saves \cup {r}} BY <1>4 DEF SendSave
  <2>4. Head(queue) = queue[1] /\ 1 \in DOMAIN queue BY <2>1 DEF TypeOK
  <2>5. r.selection = selection /\ r.workflow = queue[1].workflow
        /\ r.answer.kind = "none"
    BY <2>4 DEF Request, NoAnswer
  <2> HIDE DEF r
  <2>6. \A i \in DOMAIN queue' : \E j \in DOMAIN queue : queue'[i] = queue[j]
    BY <2>1, QueueShrinks DEF TypeOK
  <2>7. draft # NoDraft BY <2>1 DEF DraftsAreReal
  <2> QED BY <2>1, <2>2, <2>3, <2>4, <2>5, <2>6, <2>7 DEF TokensInOrder
<1>5. CASE EditNodesGoesOn
  <2>1. UNCHANGED <<draft, selection, loads, saves, ran>>
    BY <1>5 DEF EditNodesGoesOn
  <2>2. CASE queue' = queue BY <2>1, <2>2, TokensStay
  <2>3. CASE ~(draft = NoDraft \/ refresh)
    <3> DEFINE e == Structured(draft.workflow, edit + 1)
    <3>1. e \in QueuedEdits /\ e.workflow = draft.workflow
      BY <2>3, StructuredFits DEF CallsAreTyped, TypeOK, Structured
    <3>2. queue' = Append(queue, e) BY <1>5, <2>3 DEF EditNodesGoesOn
    <3> HIDE DEF e
    <3>3. \A i \in DOMAIN Append(queue, e) :
            \/ Append(queue, e)[i] = e
            \/ i \in DOMAIN queue /\ Append(queue, e)[i] = queue[i]
      BY <3>1, QueueGrows DEF TypeOK
    <3> QED BY <2>1, <3>1, <3>2, <3>3, TokensStay
  <2> QED BY <1>5, <2>2, <2>3 DEF EditNodesGoesOn, waiting
<1>6. CASE RunWaitsForQueue BY <1>6, TokensStay DEF RunWaitsForQueue, shell, waiting
<1>7. CASE StartRun BY <1>7, TokensStay DEF StartRun, shell, waiting
<1>8. CASE RunFails BY <1>8, TokensStay DEF RunFails, shell, waiting
<1>9. CASE RunAnswered
  BY <1>9 DEF RunAnswered, TokensInOrder
<1> QED BY <1>1, <1>2, <1>3, <1>4, <1>5, <1>6, <1>7, <1>8, <1>9 DEF Shell

LEMMA StepKeepsTokens == ASSUME IInv, [Next]_vars PROVE TokensInOrder'
<1> TypeOK /\ DraftsAreReal /\ SelectionIsKept /\ TokensInOrder BY DEF IInv
<1> VersionsGrow BY StoredGrows
<1>1. CASE UNCHANGED vars
  BY <1>1, TypedCalls, TokensStay DEF vars, shell, waiting
<1> QED BY <1>1, UserKeepsTokens, ApplicationKeepsTokens, ShellKeepsTokens DEF Next

LEMMA InitKeepsTokens == Init => TokensInOrder
BY DEF Init, TokensInOrder

\* Types, real drafts, the selection and the order of the tokens hold together in every state.
THEOREM InductiveInvariant == Spec => []IInv
<1>1. Init => IInv
  BY InitIsTyped, InitIsReal, InitKeepsSelection, InitKeepsTokens DEF IInv
<1>2. IInv /\ [Next]_vars => IInv'
  BY StepTyped, StepIsReal, StepKeepsSelection, StepKeepsTokens DEF IInv
<1> QED BY <1>1, <1>2, PTL DEF Spec

\* A step that stays with the selection, and after which no Run was answered since, leaves
\* a token that is not older.
LEMMA StepsGoForward ==
  ASSUME IInv, [Next]_vars, selection' = selection, draft # NoDraft, ran' = "no"
  PROVE  draft'.workflow = draft.workflow /\ draft'.version >= draft.version
<1> TypeOK /\ DraftsAreReal /\ SelectionIsKept /\ TokensInOrder BY DEF IInv
<1> CallsAreTyped BY TypedCalls
<1>1. CASE draft' = draft BY <1>1 DEF CallsAreTyped
<1>2. ASSUME NEW w \in Workflows, SelectWorkflow(w) PROVE FALSE
  BY <1>2 DEF SelectWorkflow, TypeOK
<1>3. ASSUME NEW l \in loads, DraftLoaded(l) PROVE draft' = draft
  BY <1>3 DEF DraftLoaded, AnswersSelection, TokensInOrder
<1>4. ASSUME NEW s \in saves, DraftSaved(s)
      PROVE  draft'.workflow = draft.workflow /\ draft'.version >= draft.version
  <2>1. CASE draft' = draft BY <1>1, <2>1
  <2>2. CASE s.answer.kind # "error" /\ IsCurrent(s) /\ draft' = s.answer.draft
    <3>1. s.answer.kind \in {"saved", "conflict"}
      BY <1>4, <2>2 DEF DraftSaved, DraftsAreReal
    <3>2. ran = "no" /\ s.selection = selection /\ draft.workflow = s.workflow
      BY <1>4, <2>2 DEF DraftSaved, IsCurrent
    <3> QED BY <2>2, <3>1, <3>2 DEF TokensInOrder, DraftsAreReal, CallsAreTyped
  <2> QED BY <1>4, <2>1, <2>2 DEF DraftSaved
<1>5. CASE RunAnswered BY <1>5 DEF RunAnswered
<1>6. CASE User
  BY <1>1, <1>2, <1>6 DEF User, AnotherWindowSaves, Type, EditNodes, PressRun, shell
<1>7. CASE Application
  BY <1>1, <1>7 DEF Application, GetDraft, UpdateDraft, RunBegins, shell
<1>8. CASE Shell
  BY <1>1, <1>3, <1>4, <1>5, <1>8 DEF Shell, AutosaveFires, SendSave, EditNodesGoesOn,
     RunWaitsForQueue, StartRun, RunFails, shell
<1>9. CASE UNCHANGED vars BY <1>1, <1>9 DEF vars, shell
<1> QED BY <1>6, <1>7, <1>8, <1>9 DEF Next

\* TokensGoForward, for every set of workflows and any number of acts: no save of a queue
\* conflicts with an earlier one of the same queue.
THEOREM TokensCorrect == Spec => TokensGoForward
<1>1. IInv /\ [Next]_vars =>
        [ (selection' = selection /\ draft # NoDraft /\ ran' = "no")
          => draft'.workflow = draft.workflow /\ draft'.version >= draft.version ]_vars
  BY StepsGoForward
<1> QED BY <1>1, InductiveInvariant, PTL DEF Spec, TokensGoForward
-----------------------------------------------------------------------------
(* What the shell holds while a selection lasts: the invariants behind its *)
(* three other action properties.                                          *)

\* No version in anybody's hands is newer than the row it is of.
VersionsAreOld ==
  /\ \A w \in Workflows : stored[w].foreign =< stored[w].version
  /\ draft # NoDraft => draft.version =< stored[draft.workflow].version
  /\ run.at \in {"calling", "begun"} =>
       run.draft.version =< stored[run.draft.workflow].version
  /\ \A s \in saves : s.version =< stored[s.token].version

\* What is on screen, typed, queued and asked for is of the draft in hand, until the Run of an
\* earlier selection is answered; and while there is none, nothing can be typed or run.
DraftInHand ==
  /\ \A l, k \in loads : l.selection = selection /\ k.selection = selection => l = k
  /\ draft # NoDraft =>
       /\ \A l \in loads : l.selection # selection
       /\ view.workflow = draft.workflow
       /\ pending # NoEdit => pending.workflow = draft.workflow
       /\ \A i \in DOMAIN queue : queue[i].workflow = draft.workflow
       /\ \A s \in saves : s.selection = selection =>
            s.workflow = draft.workflow /\ s.token = draft.workflow
  /\ draft = NoDraft =>
       /\ view.locked /\ pending = NoEdit
       /\ run.at # "idle" => run.from # selection
       /\ \A s \in saves : s.selection # selection

\* Nobody types what another window writes.
TextsAreTyped ==
  /\ pending.content.text # Foreign
  /\ \A i \in DOMAIN queue : queue[i].kind = "text" => queue[i].content.text # Foreign
  /\ \A s \in saves : s.content.text # Foreign \/ s.content.nodes > 0

\* What another window wrote is still the row, and no save can replace it.
Unseen(w) ==
  /\ stored[w].content.text = Foreign /\ stored[w].content.nodes = 0
  /\ \A s \in saves :
       s.workflow = w /\ s.token = w /\ s.answer = NoAnswer => s.version < stored[w].foreign

\* A draft that is as new as what another window wrote, or older: and with it whatever else the
\* selection holds.
SawIt(f) ==
  /\ view.seen >= f
  /\ pending # NoEdit => pending.seen >= f
  /\ \A i \in DOMAIN queue : queue[i].kind = "text" => queue[i].seen >= f
  /\ \A s \in saves : s.selection = selection =>
       s.version >= f /\ (s.answer.kind = "saved" => s.answer.draft.version >= f)
  /\ run.from = selection /\ run.at \in {"calling", "begun"} => run.draft.version >= f

MissedIt(f) ==
  /\ \A s \in saves : s.selection = selection =>
       s.version < f /\ (s.answer.kind = "saved" => s.answer.draft.version < f)
  /\ run.from = selection /\ run.at \in {"calling", "begun"} => run.draft.version < f

SideTaken(f) ==
  \/ draft.version >= f /\ SawIt(f)
  \/ draft.version < f /\ MissedIt(f) /\ Unseen(draft.workflow)

LoadedSide(l) ==
  \/ l.answer.draft.version >= stored[l.workflow].foreign
  \/ Unseen(l.workflow)

OneSide ==
  /\ draft # NoDraft /\ ~refresh => SideTaken(stored[draft.workflow].foreign)
  /\ draft = NoDraft =>
       \A l \in loads : l.selection = selection /\ l.answer.kind = "draft" => LoadedSide(l)

\* A save whose token is good was typed over what another window wrote, if any.
SavesAreInformed ==
  \A s \in saves :
    ~s.stray =>
      /\ s.token = s.workflow
      /\ s.answer = NoAnswer /\ s.version >= stored[s.workflow].foreign
         => s.seen >= stored[s.workflow].foreign

NoSaveAfterConflict == refresh => \A s \in saves : s.selection # selection

\* Texts are typed, queued and sent in the order of their revisions, and the shell has counted
\* the last, until a Run is answered.
EditsInOrder ==
  ran = "no" /\ draft # NoDraft =>
    /\ view.revision =< edit
    /\ pending # NoEdit => pending.revision = view.revision
    /\ \A i \in DOMAIN queue : queue[i].kind = "text" =>
         /\ queue[i].edit =< view.revision
         /\ pending # NoEdit => queue[i].edit < pending.revision
         /\ \A j \in DOMAIN queue : i < j /\ queue[j].kind = "text" => queue[i].edit < queue[j].edit
    /\ \A s \in saves : s.selection = selection /\ s.kind = "text" =>
         /\ s.edit =< view.revision
         /\ pending # NoEdit => s.edit < pending.revision
         /\ \A i \in DOMAIN queue : queue[i].kind = "text" => s.edit < queue[i].edit

\* While nothing is done after a Run was pressed, no text is typed or queued, and those queued
\* before are in front of the place in the queue that the Run waits for.
RunWaitsForTexts ==
  /\ run.since =< acts
  /\ run.at \in {"flushing", "draining"} /\ run.since = acts => ~timer
  /\ run.at = "draining" /\ run.since = acts =>
       /\ run.ticket[1] = selection
       /\ \A i \in DOMAIN queue : queue[i].kind = "text" =>
            (queued - Len(queue)) + i =< run.ticket[2]
       /\ \A s \in saves : s.selection = selection /\ s.kind = "text" =>
            queued - Len(queue) =< run.ticket[2]
-----------------------------------------------------------------------------
(* A Run waits for the texts before it.                                    *)

\* A flush queues what was typed, if there is any and it is of the draft in hand.
LEMMA FlushAppends ==
  ASSUME TypeOK, DraftsAreReal, FlushDraftEdit
  PROVE  /\ pending' = NoEdit /\ timer' = FALSE
         /\ \/ /\ pending = NoEdit \/ ~Accepts(pending)
               /\ queue' = queue /\ queued' = queued /\ edit' = edit
            \/ /\ pending # NoEdit /\ Accepts(pending)
               /\ Typed(pending) \in QueuedEdits
               /\ queue' = Append(queue, Typed(pending)) /\ queued' = queued + 1
               /\ edit' = Larger(edit, pending.revision)
<1>1. CASE pending # NoEdit /\ Accepts(pending)
  <2>1. pending.workflow \in Workflows BY <1>1 DEF DraftsAreReal, Real, Accepts
  <2>2. Typed(pending) \in QueuedEdits BY <2>1 DEF TypeOK, Typed, Edits, QueuedEdits
  <2> QED BY <1>1, <2>2 DEF FlushDraftEdit, QueueDraftEdit
<1>2. CASE ~(pending # NoEdit /\ Accepts(pending))
  BY <1>2 DEF FlushDraftEdit, QueueDraftEdit, waiting
<1> QED BY <1>1, <1>2

\* What has been done counts up, and a Run never starts in the future.
LEMMA RunWaitsAct ==
  ASSUME TypeOK, RunWaitsForTexts, run' = run, acts' = acts + 1
  PROVE  RunWaitsForTexts'
BY DEF TypeOK, Handlers, RunWaitsForTexts

\* Steps of others that leave the queue alone.
LEMMA RunWaitsStay ==
  ASSUME RunWaitsForTexts, UNCHANGED <<run, selection, acts, waiting>>, timer' => timer,
         \A s \in saves' : \E t \in saves : t.selection = s.selection /\ t.kind = s.kind
  PROVE  RunWaitsForTexts'
BY DEF RunWaitsForTexts, waiting

LEMMA RunWaitsSend ==
  ASSUME TypeOK, RunWaitsForTexts, SendSave
  PROVE  RunWaitsForTexts'
<1>1. /\ UNCHANGED <<selection, timer, queued, run, acts>>
      /\ queue # <<>> /\ queue' = Tail(queue) /\ queue \in Seq(QueuedEdits) /\ queued \in Nat
      /\ \A s \in saves : s.selection # selection
  BY DEF SendSave, shell, editor, handlers, TypeOK, QueueIsFree, InFlight
<1>2. /\ Len(queue') = Len(queue) - 1 /\ Len(queue) \in Nat
      /\ Head(queue) = queue[1] /\ 1 \in DOMAIN queue
      /\ \A i \in DOMAIN queue' : i + 1 \in DOMAIN queue /\ queue'[i] = queue[i + 1] /\ i \in Nat
  BY <1>1, QueueShrinks
<1>3. \A s \in saves' : s \in saves \/ s.kind = queue[1].kind
  BY <1>2 DEF SendSave, Request
<1>4. ASSUME run.at = "draining", run.since = acts
      PROVE  /\ \A i \in DOMAIN queue' : queue'[i].kind = "text" =>
                  (queued - Len(queue')) + i =< run.ticket[2]
             /\ \A s \in saves' : s.selection = selection /\ s.kind = "text" =>
                  queued - Len(queue') =< run.ticket[2]
  <2>1. \A i \in DOMAIN queue : queue[i].kind = "text" => (queued - Len(queue)) + i =< run.ticket[2]
    BY <1>4 DEF RunWaitsForTexts
  <2>2. ASSUME NEW i \in DOMAIN queue', queue'[i].kind = "text"
        PROVE  (queued - Len(queue')) + i =< run.ticket[2]
    <3>1. (queued - Len(queue)) + (i + 1) =< run.ticket[2]
      BY <1>2, <2>1, <2>2
    <3>2. (queued - Len(queue')) + i = (queued - Len(queue)) + (i + 1)
      BY <1>1, <1>2
    <3> QED BY <3>1, <3>2
  <2>3. ASSUME NEW s \in saves', s.selection = selection, s.kind = "text"
        PROVE  queued - Len(queue') =< run.ticket[2]
    <3>1. queue[1].kind = "text"
      BY <1>1, <1>3, <2>3
    <3>2. (queued - Len(queue)) + 1 =< run.ticket[2]
      BY <1>2, <2>1, <3>1
    <3>3. queued - Len(queue') = (queued - Len(queue)) + 1
      BY <1>1, <1>2
    <3> QED BY <3>2, <3>3
  <2> QED BY <2>2, <2>3
<1> QED BY <1>1, <1>4 DEF RunWaitsForTexts

LEMMA RunWaitsEditNodes ==
  ASSUME TypeOK, DraftsAreReal, RunWaitsForTexts, EditNodesGoesOn
  PROVE  RunWaitsForTexts'
<1>1. UNCHANGED <<selection, timer, run, acts, saves>> /\ queue \in Seq(QueuedEdits) /\ queued \in Nat
  BY DEF EditNodesGoesOn, editor, TypeOK
<1>2. CASE UNCHANGED waiting
  BY <1>1, <1>2, RunWaitsStay
<1>3. CASE ~(draft = NoDraft \/ refresh)
  <2>1. PICK e \in QueuedEdits :
          e.kind = "nodes" /\ queue' = Append(queue, e) /\ queued' = queued + 1
    <3>1. edit + 1 \in Nat /\ draft.workflow \in Workflows
      BY <1>3 DEF TypeOK, DraftsAreReal, Real
    <3>2. Structured(draft.workflow, edit + 1) \in QueuedEdits
          /\ Structured(draft.workflow, edit + 1).kind = "nodes"
      BY <3>1, StructuredFits DEF Structured
    <3> QED BY <1>3, <3>2 DEF EditNodesGoesOn
  <2>2. /\ Len(queue') = Len(queue) + 1 /\ Len(queue) \in Nat
        /\ \A i \in DOMAIN queue' : i \in Nat /\ (queue'[i] = e \/ (i \in DOMAIN queue /\ queue'[i] = queue[i]))
    BY <1>1, <2>1, QueueGrows
  <2>3. queued' - Len(queue') = queued - Len(queue)
    BY <1>1, <2>1, <2>2
  <2> QED BY <1>1, <2>1, <2>2, <2>3 DEF RunWaitsForTexts
<1> QED BY <1>2, <1>3 DEF EditNodesGoesOn

LEMMA RunWaitsDrain ==
  ASSUME TypeOK, RunWaitsForTexts, RunWaitsForQueue
  PROVE  RunWaitsForTexts'
<1>1. /\ UNCHANGED <<selection, timer, queue, queued, saves, acts>> /\ run \in Handlers
      /\ queue \in Seq(QueuedEdits) /\ queued \in Nat /\ run.at = "flushing"
      /\ run' = [run EXCEPT !.at = "draining", !.ticket = <<selection, queued>>]
  BY DEF RunWaitsForQueue, shell, editor, waiting, TypeOK, RunTicket
<1>2. run'.since = run.since /\ run'.at = "draining" /\ run'.ticket = <<selection, queued>>
  BY <1>1 DEF Handlers
<1>3. \A i \in DOMAIN queue : (queued - Len(queue)) + i =< queued
  BY <1>1
<1>4. queued - Len(queue) =< queued
  BY <1>1
<1> QED BY <1>1, <1>2, <1>3, <1>4 DEF RunWaitsForTexts

LEMMA StepKeepsRunWaiting ==
  ASSUME TypeOK, DraftsAreReal, RunWaitsForTexts, [Next]_vars
  PROVE  RunWaitsForTexts'
<1>1. CASE User
  <2>1. CASE PressRun
    <3>1. run' = Handler("flushing") /\ timer' = FALSE
      BY <2>1, FlushAppends DEF PressRun
    <3>2. acts' \in Nat
      BY <2>1, ActsCounted, ShellAssumption DEF PressRun
    <3>3. run'.since = acts' /\ run'.at = "flushing"
      BY <3>1 DEF Handler
    <3> QED BY <3>1, <3>2, <3>3 DEF RunWaitsForTexts
  <2>2. CASE ~PressRun
    BY <1>1, <2>2, RunWaitsAct
    DEF User, SelectWorkflow, AnotherWindowSaves, Type, EditNodes, Acts, handlers
  <2> QED BY <2>1, <2>2
<1>2. ASSUME NEW l \in loads, GetDraft(l) \/ DraftLoaded(l) PROVE RunWaitsForTexts'
  BY <1>2, RunWaitsStay DEF GetDraft, DraftLoaded, shell, editor, handlers
<1>3. ASSUME NEW s \in saves, UpdateDraft(s) PROVE RunWaitsForTexts'
  <2>1. PICK a : saves' = (saves \ {s}) \cup {[s EXCEPT !.answer = a]}
    BY <1>3 DEF UpdateDraft
  <2>2. [s EXCEPT !.answer = a].selection = s.selection /\ [s EXCEPT !.answer = a].kind = s.kind
    BY DEF TypeOK, Saves
  <2>3. \A t \in saves' : \E u \in saves : u.selection = t.selection /\ u.kind = t.kind
    BY <2>1, <2>2
  <2> QED BY <1>3, <2>3, RunWaitsStay DEF UpdateDraft, shell, editor, handlers
<1>4. ASSUME NEW s \in saves, DraftSaved(s) PROVE RunWaitsForTexts'
  BY <1>4, RunWaitsStay DEF DraftSaved, shell, editor, handlers
<1>5. CASE RunBegins \/ StartRun \/ RunFails \/ RunAnswered
  <2>1. PICK d : \/ run' = [run EXCEPT !.at = "calling", !.draft = d]
                 \/ run' = [run EXCEPT !.at = "begun", !.draft = d]
                 \/ run' = Idle
    BY <1>5 DEF RunBegins, StartRun, RunFails, RunAnswered
  <2>2. run'.at \notin {"flushing", "draining"} /\ run'.since \in {run.since, 0}
    <3>1. run \in Handlers
      BY DEF TypeOK
    <3>2. CASE run' = [run EXCEPT !.at = "calling", !.draft = d]
      BY <3>1, <3>2 DEF Handlers
    <3>3. CASE run' = [run EXCEPT !.at = "begun", !.draft = d]
      BY <3>1, <3>3 DEF Handlers
    <3>4. CASE run' = Idle
      BY <3>4 DEF Idle
    <3> QED BY <2>1, <3>2, <3>3, <3>4
  <2>3. acts' = acts
    BY <1>5 DEF RunBegins, StartRun, RunFails, RunAnswered
  <2> QED BY <2>2, <2>3 DEF RunWaitsForTexts, TypeOK
<1>6. CASE AutosaveFires
  BY <1>6 DEF AutosaveFires, RunWaitsForTexts, handlers
<1>7. CASE UNCHANGED vars
  BY <1>7, RunWaitsStay DEF vars, shell, editor, handlers
<1> QED BY <1>1, <1>2, <1>3, <1>4, <1>5, <1>6, <1>7, RunWaitsSend, RunWaitsEditNodes, RunWaitsDrain
        DEF Next, Application, Shell

\* When the Run goes out, its place in the queue is reached: no text is left before it, and
\* none came after.
LEMMA RunIsLast ==
  ASSUME TypeOK, TokensInOrder, RunWaitsForTexts, StartRun, acts = run.since
  PROVE  \A e \in InFlight(selection) \cup Range(queue) : e.kind # "text"
<1>1. /\ queue \in Seq(QueuedEdits) /\ queued \in Nat /\ run.ticket \in Nat \X Nat
      /\ run.at = "draining" /\ run.ticket[1] = selection
  BY DEF StartRun, TypeOK, Handlers, RunWaitsForTexts
<1>2. PICK n \in Nat : n = Cardinality(InFlight(selection))
                       /\ (InFlight(selection) # {} => n = 1)
  <2>1. CASE InFlight(selection) = {}
    BY <2>1, FS_EmptySet
  <2>2. ASSUME NEW s \in InFlight(selection) PROVE InFlight(selection) = {s}
    BY <2>2 DEF InFlight, TokensInOrder
  <2> QED BY <2>1, <2>2, FS_Singleton
<1>3. (queued - Len(queue)) - n >= run.ticket[2]
  BY <1>1, <1>2 DEF StartRun, Ready, Settled
<1>4. ASSUME NEW s \in InFlight(selection), s.kind = "text" PROVE FALSE
  <2>1. queued - Len(queue) =< run.ticket[2]
    BY <1>1, <1>4 DEF RunWaitsForTexts, InFlight
  <2> QED BY <1>1, <1>2, <1>3, <1>4, <2>1
<1>5. ASSUME NEW i \in DOMAIN queue, queue[i].kind = "text" PROVE FALSE
  <2>1. (queued - Len(queue)) + i =< run.ticket[2]
    BY <1>1, <1>5 DEF RunWaitsForTexts
  <2>2. i \in Nat /\ i > 0
    BY <1>1
  <2> QED BY <1>1, <1>2, <1>3, <2>1, <2>2
<1> QED BY <1>4, <1>5 DEF Range

\* RunNeverOvertakesText, for any number of acts: a Run that is pressed and then left alone goes
\* out after the last text that was typed before it.
THEOREM RunsComeAfterTexts == Spec => RunNeverOvertakesText
<1>1. Init => RunWaitsForTexts
  BY DEF Init, RunWaitsForTexts, Idle
<1>2. IInv /\ RunWaitsForTexts /\ [Next]_vars => RunWaitsForTexts'
  BY StepKeepsRunWaiting DEF IInv
<1>3. IInv /\ RunWaitsForTexts /\ [Next]_vars =>
        [ SendsRun /\ acts = run.since
          => \A e \in InFlight(selection) \cup Range(queue) : e.kind # "text" ]_vars
  <2> SUFFICES ASSUME IInv, RunWaitsForTexts, [Next]_vars, SendsRun, acts = run.since
               PROVE  \A e \in InFlight(selection) \cup Range(queue) : e.kind # "text"
    OBVIOUS
  <2>1. StartRun
    <3>1. run' # run /\ run'.at = "calling" /\ run.at = "draining"
      BY DEF SendsRun
    <3> QED BY <3>1 DEF Next, User, Application, Shell, SelectWorkflow, AnotherWindowSaves, Type,
               EditNodes, PressRun, Handler, GetDraft, UpdateDraft, RunBegins, DraftLoaded, DraftSaved,
               AutosaveFires, SendSave, EditNodesGoesOn, RunWaitsForQueue, RunFails, RunAnswered,
               handlers, vars
  <2> QED BY <2>1, RunIsLast DEF IInv
<1> QED BY <1>1, <1>2, <1>3, InductiveInvariant, PTL DEF Spec, RunNeverOvertakesText
-----------------------------------------------------------------------------
(* What is in hand.                                                        *)

SameRequest(t, s) ==
  /\ t.selection = s.selection /\ t.kind = s.kind /\ t.edit = s.edit /\ t.workflow = s.workflow
  /\ t.token = s.token /\ t.version = s.version /\ t.content = s.content
  /\ t.seen = s.seen /\ t.stray = s.stray

\* An answered save asks for what it asked before.
LEMMA AnswersAreOfRequests ==
  ASSUME TypeOK, NEW s \in saves, UpdateDraft(s)
  PROVE  /\ s.answer = NoAnswer
         /\ \E t : /\ SameRequest(t, s) /\ saves' = (saves \ {s}) \cup {t}
                   /\ \/ t.answer = Failure /\ stored' = stored
                      \/ /\ t.answer = SaveAnswer(s)
                         /\ stored' = [stored EXCEPT ![s.workflow] = RowAfter(s)]
<1>1. PICK a : /\ saves' = (saves \ {s}) \cup {[s EXCEPT !.answer = a]}
               /\ \/ a = Failure /\ stored' = stored
                  \/ a = SaveAnswer(s) /\ stored' = [stored EXCEPT ![s.workflow] = RowAfter(s)]
  BY DEF UpdateDraft, SaveAnswer
<1>2. SameRequest([s EXCEPT !.answer = a], s) /\ [s EXCEPT !.answer = a].answer = a
  BY DEF TypeOK, Saves, SameRequest
<1> QED BY <1>1, <1>2 DEF UpdateDraft

\* What the head of the queue asks for, with the draft in hand.
LEMMA RequestFacts ==
  ASSUME TypeOK, DraftsAreReal, SendSave
  PROVE  /\ queue # <<>> /\ queue \in Seq(QueuedEdits) /\ 1 \in DOMAIN queue /\ draft # NoDraft
         /\ \A i \in DOMAIN queue' : i \in Nat /\ i + 1 \in DOMAIN queue /\ queue'[i] = queue[i + 1]
         /\ \A s \in saves : s.selection # selection
         /\ \/ saves' = saves /\ refresh
            \/ /\ ~refresh
               /\ saves' = saves \cup {Request(queue[1])}
<1>1. queue # <<>> /\ queue \in Seq(QueuedEdits) /\ queue' = Tail(queue)
  BY DEF SendSave, TypeOK
<1>2. Head(queue) = queue[1] /\ 1 \in DOMAIN queue
  BY <1>1
<1>3. \A i \in DOMAIN queue' : i \in Nat /\ i + 1 \in DOMAIN queue /\ queue'[i] = queue[i + 1]
  BY <1>1, QueueShrinks
<1> QED BY <1>1, <1>2, <1>3 DEF SendSave, MaySave, QueueIsFree, InFlight, DraftsAreReal

LEMMA StepKeepsNoSave ==
  ASSUME IInv, NoSaveAfterConflict, [Next]_vars
  PROVE  NoSaveAfterConflict'
<1> TypeOK /\ DraftsAreReal /\ TokensInOrder BY DEF IInv
<1>1. CASE SendSave
  BY <1>1, RequestFacts DEF SendSave, shell, NoSaveAfterConflict
<1>2. ASSUME NEW s \in saves, UpdateDraft(s) PROVE NoSaveAfterConflict'
  BY <1>2, AnswersAreOfRequests DEF UpdateDraft, shell, NoSaveAfterConflict, SameRequest
<1>3. ASSUME NEW s \in saves, DraftSaved(s) PROVE NoSaveAfterConflict'
  BY <1>3 DEF DraftSaved, IsCurrent, NoSaveAfterConflict, TokensInOrder
<1>4. CASE User \/ AutosaveFires \/ EditNodesGoesOn \/ RunBegins \/ RunWaitsForQueue \/ StartRun
           \/ RunFails \/ RunAnswered \/ UNCHANGED vars
           \/ \E l \in loads : GetDraft(l) \/ DraftLoaded(l)
  <2>1. CASE \E w \in Workflows : SelectWorkflow(w)
    BY <2>1 DEF SelectWorkflow, NoSaveAfterConflict
  <2>2. CASE ~ \E w \in Workflows : SelectWorkflow(w)
    BY <1>4, <2>2 DEF User, AnotherWindowSaves, Type, EditNodes, PressRun, AutosaveFires,
       EditNodesGoesOn, RunBegins, RunWaitsForQueue, StartRun, RunFails, RunAnswered, vars, shell,
       GetDraft, DraftLoaded, NoSaveAfterConflict
  <2> QED BY <2>1, <2>2
<1> QED BY <1>1, <1>2, <1>3, <1>4 DEF Next, Application, Shell

HandInv == ran # "stray" => DraftInHand

\* Steps that keep the draft in hand: what is typed, queued or answered is of it.
LEMMA HandStays ==
  ASSUME HandInv,
         UNCHANGED <<selection, ran>>, draft' = draft, view'.workflow = view.workflow,
         loads' \subseteq loads,
         draft = NoDraft => (view.locked => view'.locked),
         \/ pending' \in {pending, NoEdit}
         \/ draft # NoDraft /\ (ran # "stray" => pending'.workflow = draft.workflow),
         \A i \in DOMAIN queue' : \/ ran # "stray" => queue'[i].workflow = draft.workflow
                                  \/ \E j \in DOMAIN queue : queue'[i] = queue[j],
         \A t \in saves' : \E s \in saves : SameRequest(t, s),
         draft = NoDraft /\ run'.at # "idle" => run.at # "idle" /\ run'.from = run.from
  PROVE  HandInv'
BY DEF HandInv, DraftInHand, SameRequest

\* A flush, whatever else it goes with.
LEMMA HandFlushes ==
  ASSUME TypeOK, DraftsAreReal, HandInv, FlushDraftEdit,
         UNCHANGED <<selection, ran, draft, view, loads, saves>>,
         draft = NoDraft /\ run'.at # "idle" => run.at # "idle" /\ run'.from = run.from
  PROVE  HandInv'
<1>1. pending' = NoEdit
  BY FlushAppends
<1>2. \A i \in DOMAIN queue' : \/ queue'[i].workflow = draft.workflow
                               \/ \E j \in DOMAIN queue : queue'[i] = queue[j]
  <2>1. CASE queue' = queue BY <2>1
  <2>2. ASSUME NEW e \in QueuedEdits, queue' = Append(queue, e), e.workflow = draft.workflow
        PROVE  \A i \in DOMAIN queue' : \/ queue'[i].workflow = draft.workflow
                                        \/ \E j \in DOMAIN queue : queue'[i] = queue[j]
    <3>1. \A i \in DOMAIN Append(queue, e) :
            Append(queue, e)[i] = e \/ (i \in DOMAIN queue /\ Append(queue, e)[i] = queue[i])
      BY QueueGrows DEF TypeOK
    <3> QED BY <2>2, <3>1
  <2> QED BY <2>1, <2>2, FlushQueues
<1>3. \A t \in saves' : \E s \in saves : SameRequest(t, s)
  BY DEF SameRequest
<1> QED BY <1>1, <1>2, <1>3, HandStays

LEMMA UserKeepsHand ==
  ASSUME IInv, HandInv, User
  PROVE  HandInv'
<1> TypeOK /\ DraftsAreReal /\ SelectionIsKept /\ TokensInOrder BY DEF IInv
<1>0. \A t \in saves : SameRequest(t, t) BY DEF SameRequest
<1>1. ASSUME NEW w \in Workflows, SelectWorkflow(w) PROVE HandInv'
  <2> DEFINE k == [selection |-> selection + 1, workflow |-> w, answer |-> NoAnswer]
  <2>1. /\ selection' = selection + 1 /\ draft' = NoDraft /\ loads' = loads \cup {k}
        /\ pending' = NoEdit /\ saves' = saves /\ run' = run /\ selection \in Nat
        /\ view' = [view EXCEPT !.workflow = NoWorkflow, !.revision = 0, !.locked = TRUE]
    BY <1>1 DEF SelectWorkflow, handlers, TypeOK
  <2>2. view'.locked
    BY <2>1 DEF TypeOK, Views
  <2>3. \A l \in loads : l.selection # selection + 1
    BY DEF TypeOK, Loads, SelectionIsKept
  <2>4. \A s \in saves : s.selection # selection + 1
    BY DEF TypeOK, Saves, SelectionIsKept
  <2>5. run.from # selection + 1
    BY DEF TypeOK, Handlers, SelectionIsKept
  <2>6. \A l, m \in loads' : l.selection = selection' /\ m.selection = selection' => l = m
    BY <2>1, <2>3
  <2> QED BY <2>1, <2>2, <2>4, <2>5, <2>6 DEF HandInv, DraftInHand
<1>2. ASSUME NEW w \in Workflows, AnotherWindowSaves(w) PROVE HandInv'
  <2>1. UNCHANGED <<draft, selection, view, pending, queue, loads, saves, run, ran>>
    BY <1>2 DEF AnotherWindowSaves, shell, editor, waiting, handlers
  <2> QED BY <1>0, <2>1, HandStays
<1>3. ASSUME NEW t \in Texts \cup {Broken}, Type(t) PROVE HandInv'
  <2>1. /\ UNCHANGED <<draft, selection, queue, loads, saves, run, ran>> /\ ~view.locked
        /\ pending'.workflow = view.workflow
        /\ view' = [view EXCEPT !.revision = view.revision + 1, !.content = pending'.content]
    BY <1>3 DEF Type, waiting, handlers
  <2>2. view'.workflow = view.workflow /\ view'.locked = view.locked
    BY <2>1 DEF TypeOK, Views
  <2>3. ran # "stray" => draft # NoDraft /\ view.workflow = draft.workflow
    BY <2>1 DEF HandInv, DraftInHand
  <2>4. CASE ran = "stray"
    BY <2>1, <2>4 DEF HandInv
  <2>5. CASE ran # "stray"
    BY <1>0, <2>1, <2>2, <2>3, <2>5, HandStays
  <2> QED BY <2>4, <2>5
<1>4. CASE EditNodes
  BY <1>4, HandFlushes DEF EditNodes
<1>5. CASE PressRun
  BY <1>5, HandFlushes DEF PressRun
<1> QED BY <1>1, <1>2, <1>3, <1>4, <1>5 DEF User

LEMMA ApplicationKeepsHand ==
  ASSUME IInv, HandInv, Application
  PROVE  HandInv'
<1> TypeOK /\ DraftsAreReal /\ SelectionIsKept /\ TokensInOrder BY DEF IInv
<1>0. \A t \in saves : SameRequest(t, t) BY DEF SameRequest
<1>1. ASSUME NEW l \in loads, GetDraft(l) PROVE HandInv'
  <2>1. UNCHANGED <<draft, selection, view, pending, queue, saves, run, ran>>
    BY <1>1 DEF GetDraft, shell, editor, waiting, handlers
  <2>2. PICK a : loads' = (loads \ {l}) \cup {[l EXCEPT !.answer = a]}
    BY <1>1 DEF GetDraft
  <2>3. [l EXCEPT !.answer = a].selection = l.selection
    BY DEF TypeOK, Loads
  <2> QED BY <2>1, <2>2, <2>3 DEF HandInv, DraftInHand
<1>2. ASSUME NEW s \in saves, UpdateDraft(s) PROVE HandInv'
  <2>1. UNCHANGED <<draft, selection, view, pending, queue, loads, run, ran>>
    BY <1>2 DEF UpdateDraft, shell, editor, waiting, handlers
  <2>2. \A t \in saves' : \E u \in saves : SameRequest(t, u)
    BY <1>0, <1>2, AnswersAreOfRequests
  <2> QED BY <2>1, <2>2, HandStays
<1>3. CASE RunBegins
  <2>1. UNCHANGED <<draft, selection, view, pending, queue, loads, saves, ran>> /\ run.at = "calling"
    BY <1>3 DEF RunBegins, shell, editor, waiting
  <2>2. run'.from = run.from
    BY <1>3 DEF RunBegins, TypeOK, Handlers
  <2> QED BY <1>0, <2>1, <2>2, HandStays
<1> QED BY <1>1, <1>2, <1>3 DEF Application

LEMMA ShellKeepsHand ==
  ASSUME IInv, HandInv, Shell
  PROVE  HandInv'
<1> TypeOK /\ DraftsAreReal /\ SelectionIsKept /\ TokensInOrder BY DEF IInv
<1>0. \A t \in saves : SameRequest(t, t) BY DEF SameRequest
<1>1. ASSUME NEW l \in loads, DraftLoaded(l) PROVE HandInv'
  <2>1. UNCHANGED <<selection, pending, queue, saves, run, ran>> /\ loads' = loads \ {l}
    BY <1>1 DEF DraftLoaded, waiting, handlers
  <2>2. CASE ~AnswersSelection(l)
    BY <1>0, <1>1, <2>1, <2>2, HandStays DEF DraftLoaded
  <2>3. CASE AnswersSelection(l)
    <3>1. /\ l.selection = selection /\ draft' = l.answer.draft /\ draft' # NoDraft
          /\ view' = Fresh(draft')
      BY <1>1, <2>3, ShellAssumption DEF DraftLoaded, AnswersSelection, DraftsAreReal, Real, NoDraft
    <3>2. view'.workflow = draft'.workflow
      BY <3>1 DEF Fresh
    <3>3. ran # "stray" =>
            /\ draft = NoDraft /\ pending = NoEdit /\ queue = <<>>
            /\ \A s \in saves : s.selection # selection
            /\ \A k \in loads' : k.selection # selection
      BY <2>1, <3>1 DEF HandInv, DraftInHand, DraftsAreReal
    <3> QED BY <2>1, <3>1, <3>2, <3>3 DEF HandInv, DraftInHand
  <2> QED BY <2>2, <2>3
<1>2. ASSUME NEW s \in saves, DraftSaved(s) PROVE HandInv'
  <2>1. UNCHANGED <<selection, pending, queue, loads, run, ran>> /\ saves' = saves \ {s}
    BY <1>2 DEF DraftSaved, waiting, handlers
  <2>2. CASE ~(s.answer.kind # "error" /\ IsCurrent(s))
    BY <1>0, <1>2, <2>1, <2>2, HandStays DEF DraftSaved
  <2>3. CASE s.answer.kind # "error" /\ IsCurrent(s)
    <3>1. draft' = s.answer.draft /\ draft # NoDraft /\ draft.workflow = s.workflow
      BY <1>2, <2>3 DEF DraftSaved, IsCurrent
    <3>2. Real(draft') /\ draft'.workflow = draft.workflow
      BY <1>2, <2>3, <3>1 DEF DraftSaved, DraftsAreReal
    <3>3. draft' # NoDraft
      BY <3>2, ShellAssumption DEF Real, NoDraft
    <3>4. view'.workflow = view.workflow
      BY <1>2, <2>3 DEF DraftSaved, TypeOK, Views
    <3> QED BY <2>1, <3>1, <3>2, <3>3, <3>4 DEF HandInv, DraftInHand
  <2> QED BY <2>2, <2>3
<1>3. CASE AutosaveFires
  <2>1. UNCHANGED <<draft, selection, view, loads, saves, run, ran>>
    BY <1>3 DEF AutosaveFires, handlers
  <2>2. CASE FlushDraftEdit
    BY <2>1, <2>2, HandFlushes
  <2>3. CASE UNCHANGED <<pending, edit, waiting>>
    BY <1>0, <2>1, <2>3, HandStays DEF waiting
  <2> QED BY <1>3, <2>2, <2>3 DEF AutosaveFires
<1>4. CASE SendSave
  <2>1. UNCHANGED <<draft, selection, view, pending, loads, run, ran>>
    BY <1>4 DEF SendSave, shell, editor, handlers
  <2>2. Request(queue[1]).workflow = queue[1].workflow /\ Request(queue[1]).token = draft.workflow
    BY DEF Request
  <2>3. \A i \in DOMAIN queue' : \E j \in DOMAIN queue : queue'[i] = queue[j]
    BY <1>4, RequestFacts
  <2>4. \A s \in saves' : s.selection = selection /\ ran # "stray" =>
          s.workflow = draft.workflow /\ s.token = draft.workflow
    BY <1>4, <2>2, RequestFacts DEF HandInv, DraftInHand
  <2> QED BY <1>4, <2>1, <2>3, <2>4, RequestFacts DEF HandInv, DraftInHand
<1>5. CASE EditNodesGoesOn
  <2>1. UNCHANGED <<draft, selection, view, pending, loads, saves, run, ran>>
    BY <1>5 DEF EditNodesGoesOn, editor
  <2>2. CASE draft = NoDraft \/ refresh
    BY <1>0, <1>5, <2>1, <2>2, HandStays DEF EditNodesGoesOn, waiting
  <2>3. CASE ~(draft = NoDraft \/ refresh)
    <3> DEFINE e == Structured(draft.workflow, edit + 1)
    <3>1. e \in QueuedEdits /\ e.workflow = draft.workflow
      BY <2>3, StructuredFits DEF TypeOK, DraftsAreReal, Real, Structured
    <3>2. queue' = Append(queue, e) BY <1>5, <2>3 DEF EditNodesGoesOn
    <3> HIDE DEF e
    <3>3. \A i \in DOMAIN Append(queue, e) :
            Append(queue, e)[i] = e \/ (i \in DOMAIN queue /\ Append(queue, e)[i] = queue[i])
      BY <3>1, QueueGrows DEF TypeOK
    <3> QED BY <1>0, <2>1, <3>1, <3>2, <3>3, HandStays
  <2> QED BY <2>2, <2>3
<1>6. CASE RunWaitsForQueue \/ StartRun \/ RunFails
  <2>1. UNCHANGED <<draft, selection, view, pending, queue, loads, saves, ran>>
    BY <1>6 DEF RunWaitsForQueue, StartRun, RunFails, shell, editor, waiting
  <2>2. run \in Handlers
    BY DEF TypeOK
  <2>3. CASE RunWaitsForQueue
    <3>1. run'.from = run.from /\ run.at # "idle"
      BY <2>2, <2>3 DEF RunWaitsForQueue, Handlers
    <3> QED BY <1>0, <2>1, <3>1, HandStays
  <2>4. CASE run' = Idle
    <3>1. run'.at = "idle"
      BY <2>4 DEF Idle
    <3> QED BY <1>0, <2>1, <3>1, HandStays
  <2>5. CASE StartRun /\ run' = [run EXCEPT !.at = "calling", !.draft = draft]
    <3>1. run'.from = run.from /\ run.at # "idle"
      BY <2>2, <2>5 DEF StartRun, Handlers
    <3> QED BY <1>0, <2>1, <3>1, HandStays
  <2> QED BY <1>6, <2>3, <2>4, <2>5 DEF StartRun, RunFails
<1>7. CASE RunAnswered
  <2>1. /\ UNCHANGED <<selection, pending, queue, loads, saves>> /\ draft' = run.draft
        /\ view' = Fresh(run.draft) /\ run' = Idle /\ run.at = "begun"
        /\ ran' # "stray" => ran # "stray" /\ run.from = selection
    BY <1>7 DEF RunAnswered, waiting
  <2>2. draft' # NoDraft
    BY <2>1, ShellAssumption DEF DraftsAreReal, Real, NoDraft
  <2>3. ran' # "stray" => draft # NoDraft /\ draft'.workflow = draft.workflow
    BY <2>1 DEF HandInv, DraftInHand, SelectionIsKept
  <2>4. view'.workflow = draft'.workflow
    BY <2>1 DEF Fresh
  <2> QED BY <2>1, <2>2, <2>3, <2>4 DEF HandInv, DraftInHand
<1> QED BY <1>1, <1>2, <1>3, <1>4, <1>5, <1>6, <1>7 DEF Shell

LEMMA StepKeepsHand ==
  ASSUME IInv, HandInv, [Next]_vars
  PROVE  HandInv'
<1>1. CASE UNCHANGED vars
  <2>1. \A t \in saves : SameRequest(t, t) BY DEF SameRequest
  <2> QED BY <1>1, <2>1, HandStays DEF vars, shell, editor, waiting, handlers
<1> QED BY <1>1, UserKeepsHand, ApplicationKeepsHand, ShellKeepsHand DEF Next

LEMMA InitHand == Init => HandInv /\ NoSaveAfterConflict
BY DEF Init, HandInv, DraftInHand, NoSaveAfterConflict, Idle
-----------------------------------------------------------------------------
(* Texts go out in the order they were typed.                              *)

LEMMA RevisionsAreNumbers ==
  ASSUME TypeOK
  PROVE  /\ view.revision \in Nat /\ edit \in Nat /\ pending.revision \in Nat
         /\ \A i \in DOMAIN queue : queue[i].edit \in Nat /\ i \in Nat
         /\ \A s \in saves : s.edit \in Nat
<1>1. view.revision \in Nat /\ edit \in Nat /\ pending.revision \in Nat
  BY DEF TypeOK, Views, Edits
<1>2. \A i \in DOMAIN queue : queue[i] \in QueuedEdits /\ i \in Nat
  BY DEF TypeOK
<1>3. \A s \in saves : s.edit \in Nat
  BY DEF TypeOK, Saves
<1> QED BY <1>1, <1>2, <1>3 DEF QueuedEdits

\* Steps that neither type nor queue.
LEMMA EditsStay ==
  ASSUME EditsInOrder, UNCHANGED <<ran, selection, queue, edit>>,
         draft' # NoDraft => draft # NoDraft, view'.revision = view.revision,
         pending' \in {pending, NoEdit},
         \A t \in saves' : \E s \in saves : SameRequest(t, s)
  PROVE  EditsInOrder'
BY DEF EditsInOrder, SameRequest

\* A flush, whatever else it goes with.
LEMMA EditsFlush ==
  ASSUME TypeOK, DraftsAreReal, EditsInOrder, FlushDraftEdit,
         UNCHANGED <<ran, selection, draft, view, saves>>
  PROVE  EditsInOrder'
<1>1. pending' = NoEdit
  BY FlushAppends
<1>2. CASE queue' = queue /\ edit' = edit
  <2>1. \A t \in saves' : \E s \in saves : SameRequest(t, s) BY DEF SameRequest
  <2> QED BY <1>1, <1>2, <2>1, EditsStay
<1>3. CASE /\ pending # NoEdit /\ Typed(pending) \in QueuedEdits
           /\ queue' = Append(queue, Typed(pending))
           /\ edit' = Larger(edit, pending.revision)
  <2> SUFFICES ASSUME ran = "no", draft # NoDraft PROVE EditsInOrder'
    BY DEF EditsInOrder
  <2>1. PICK e \in QueuedEdits : e = Typed(pending) /\ e.edit = pending.revision /\ e.kind = "text"
    BY <1>3 DEF Typed
  <2>2. /\ view.revision \in Nat /\ edit \in Nat /\ pending.revision = view.revision
        /\ view.revision =< edit /\ e.edit = view.revision /\ edit' >= edit
    BY <1>3, <2>1, RevisionsAreNumbers DEF EditsInOrder, Larger
  <2>3. \A i \in DOMAIN queue' :
          \/ queue'[i] = e /\ i = Len(queue) + 1
          \/ i \in DOMAIN queue /\ queue'[i] = queue[i] /\ i < Len(queue) + 1
    BY <1>3, <2>1 DEF TypeOK
  <2>4. \A i \in DOMAIN queue : queue[i].kind = "text" => queue[i].edit < view.revision
    BY <1>3, <2>2 DEF EditsInOrder
  <2>5. \A i, j \in DOMAIN queue :
          i < j /\ queue[i].kind = "text" /\ queue[j].kind = "text" => queue[i].edit < queue[j].edit
    BY DEF EditsInOrder
  <2>6. \A i \in DOMAIN queue' : queue'[i].kind = "text" =>
          /\ queue'[i].edit =< view.revision
          /\ \A j \in DOMAIN queue' : i < j /\ queue'[j].kind = "text" => queue'[i].edit < queue'[j].edit
    <3> SUFFICES ASSUME NEW i \in DOMAIN queue', queue'[i].kind = "text"
                 PROVE  /\ queue'[i].edit =< view.revision
                        /\ \A j \in DOMAIN queue' : i < j /\ queue'[j].kind = "text"
                             => queue'[i].edit < queue'[j].edit
      OBVIOUS
    <3>1. \A j \in DOMAIN queue : j \in Nat /\ queue[j].edit \in Nat
      BY RevisionsAreNumbers
    <3>2. Len(queue) \in Nat
      BY DEF TypeOK
    <3>3. CASE queue'[i] = e /\ i = Len(queue) + 1
      BY <2>2, <2>3, <3>1, <3>2, <3>3
    <3>4. CASE i \in DOMAIN queue /\ queue'[i] = queue[i]
      BY <2>2, <2>3, <2>4, <2>5, <3>1, <3>2, <3>4
    <3> QED BY <2>3, <3>3, <3>4
  <2>7. \A s \in saves : s.selection = selection /\ s.kind = "text" =>
          /\ s.edit =< view.revision /\ s.edit < e.edit
          /\ \A i \in DOMAIN queue : queue[i].kind = "text" => s.edit < queue[i].edit
    BY <1>3, <2>2, RevisionsAreNumbers DEF EditsInOrder
  <2>8. \A s \in saves : s.selection = selection /\ s.kind = "text" =>
          \A i \in DOMAIN queue' : queue'[i].kind = "text" => s.edit < queue'[i].edit
    BY <2>3, <2>7
  <2>9. view.revision =< edit'
    BY <1>3, <2>2, RevisionsAreNumbers DEF Larger
  <2> QED BY <1>1, <2>6, <2>7, <2>8, <2>9 DEF EditsInOrder
<1> QED BY <1>2, <1>3, FlushAppends

LEMMA EditsType ==
  ASSUME TypeOK, HandInv, EditsInOrder, NEW t \in Texts \cup {Broken}, Type(t)
  PROVE  EditsInOrder'
<1> SUFFICES ASSUME ran = "no", draft # NoDraft PROVE EditsInOrder'
  BY DEF EditsInOrder, Type
<1>1. /\ UNCHANGED <<draft, selection, queue, saves, ran>>
      /\ pending'.revision = view.revision + 1 /\ pending'.workflow = view.workflow
      /\ view' = [view EXCEPT !.revision = view.revision + 1, !.content = pending'.content]
      /\ edit' = IF draft.workflow = view.workflow THEN Larger(edit, view.revision + 1) ELSE edit
  BY DEF Type, waiting
<1>2. view'.revision = view.revision + 1
  BY <1>1 DEF TypeOK, Views
<1>3. view.workflow = draft.workflow
  BY DEF HandInv, DraftInHand
<1>4. view'.revision =< edit'
  BY <1>1, <1>2, <1>3, RevisionsAreNumbers DEF Larger
<1>5. \A n \in Nat : n =< view.revision => n < view.revision + 1 /\ n =< view.revision + 1
  BY RevisionsAreNumbers
<1> QED BY <1>1, <1>2, <1>4, <1>5, RevisionsAreNumbers DEF EditsInOrder

LEMMA EditsSend ==
  ASSUME TypeOK, DraftsAreReal, EditsInOrder, SendSave
  PROVE  EditsInOrder'
<1> SUFFICES ASSUME ran = "no", draft # NoDraft PROVE EditsInOrder'
  BY DEF EditsInOrder, SendSave, shell
<1>1. UNCHANGED <<draft, selection, view, pending, edit, ran>>
  BY DEF SendSave, shell, editor
<1>2. \A s \in saves' : s.selection = selection => s.kind = queue[1].kind /\ s.edit = queue[1].edit
  BY RequestFacts DEF Request
<1>3. \A i \in DOMAIN queue' : i \in Nat /\ i + 1 \in DOMAIN queue /\ queue'[i] = queue[i + 1]
  BY RequestFacts
<1>4. 1 \in DOMAIN queue
  BY RequestFacts
<1>5. \A i \in DOMAIN queue : queue[i].kind = "text" =>
        /\ queue[i].edit =< view.revision
        /\ pending # NoEdit => queue[i].edit < pending.revision
        /\ \A j \in DOMAIN queue : i < j /\ queue[j].kind = "text" => queue[i].edit < queue[j].edit
  BY DEF EditsInOrder
<1>6. \A i \in DOMAIN queue' : queue'[i].kind = "text" =>
        /\ queue'[i].edit =< view.revision
        /\ pending # NoEdit => queue'[i].edit < pending.revision
        /\ \A j \in DOMAIN queue' : i < j /\ queue'[j].kind = "text" => queue'[i].edit < queue'[j].edit
        /\ queue[1].kind = "text" => queue[1].edit < queue'[i].edit
  <2> SUFFICES ASSUME NEW i \in DOMAIN queue', queue'[i].kind = "text"
               PROVE  /\ queue'[i].edit =< view.revision
                      /\ pending # NoEdit => queue'[i].edit < pending.revision
                      /\ \A j \in DOMAIN queue' : i < j /\ queue'[j].kind = "text"
                           => queue'[i].edit < queue'[j].edit
                      /\ queue[1].kind = "text" => queue[1].edit < queue'[i].edit
    OBVIOUS
  <2>1. i + 1 \in DOMAIN queue /\ queue'[i] = queue[i + 1] /\ 1 < i + 1 /\ i \in Nat
    <3>1. i \in Nat /\ i + 1 \in DOMAIN queue /\ queue'[i] = queue[i + 1]
      BY <1>3
    <3>2. i # 0
      <4>1. queue' = Tail(queue) /\ queue \in Seq(QueuedEdits) /\ queue # <<>>
        BY DEF SendSave, TypeOK
      <4> QED BY <4>1
    <3> QED BY <3>1, <3>2
  <2>2. ASSUME NEW j \in DOMAIN queue', i < j, queue'[j].kind = "text"
        PROVE  queue'[i].edit < queue'[j].edit
    <3>1. j + 1 \in DOMAIN queue /\ queue'[j] = queue[j + 1] /\ i + 1 < j + 1
      BY <1>3, <2>1, <2>2
    <3> QED BY <1>5, <2>1, <2>2, <3>1
  <2> QED BY <1>4, <1>5, <2>1, <2>2
<1> QED BY <1>1, <1>2, <1>4, <1>5, <1>6 DEF EditsInOrder

LEMMA EditsNodes ==
  ASSUME TypeOK, DraftsAreReal, EditsInOrder, EditNodesGoesOn
  PROVE  EditsInOrder'
<1>1. UNCHANGED <<draft, selection, view, pending, saves, ran>>
  BY DEF EditNodesGoesOn, editor
<1>0. \A t \in saves' : \E s \in saves : SameRequest(t, s) BY <1>1 DEF SameRequest
<1>2. CASE draft = NoDraft \/ refresh
  BY <1>0, <1>1, <1>2, EditsStay DEF EditNodesGoesOn, waiting
<1>3. CASE ~(draft = NoDraft \/ refresh)
  <2>1. PICK e \in QueuedEdits : e.kind = "nodes" /\ queue' = Append(queue, e) /\ edit' = edit + 1
    <3>1. edit + 1 \in Nat /\ draft.workflow \in Workflows
      BY <1>3 DEF TypeOK, DraftsAreReal, Real
    <3>2. Structured(draft.workflow, edit + 1) \in QueuedEdits
          /\ Structured(draft.workflow, edit + 1).kind = "nodes"
      BY <3>1, StructuredFits DEF Structured
    <3> QED BY <1>3, <3>2 DEF EditNodesGoesOn
  <2>2. \A i \in DOMAIN queue' : queue'[i].kind = "text" => i \in DOMAIN queue /\ queue'[i] = queue[i]
    BY <2>1, QueueGrows DEF TypeOK
  <2>3. \A n \in Nat : n =< edit => n =< edit'
    BY <2>1 DEF TypeOK
  <2> QED BY <1>1, <2>2, <2>3, RevisionsAreNumbers DEF EditsInOrder
<1> QED BY <1>2, <1>3

LEMMA StepKeepsEdits ==
  ASSUME IInv, HandInv, EditsInOrder, [Next]_vars
  PROVE  EditsInOrder'
<1> TypeOK /\ DraftsAreReal /\ SelectionIsKept /\ TokensInOrder BY DEF IInv
<1>0. \A t \in saves : SameRequest(t, t) BY DEF SameRequest
<1>1. CASE User
  <2>1. CASE \E w \in Workflows : SelectWorkflow(w)
    BY <2>1 DEF SelectWorkflow, EditsInOrder
  <2>2. CASE \E w \in Workflows : AnotherWindowSaves(w)
    BY <1>0, <2>2, EditsStay DEF AnotherWindowSaves, shell, editor, waiting
  <2>3. CASE EditNodes \/ PressRun
    BY <2>3, EditsFlush DEF EditNodes, PressRun
  <2> QED BY <1>1, <2>1, <2>2, <2>3, EditsType DEF User
<1>2. CASE Application
  <2>1. ASSUME NEW s \in saves, UpdateDraft(s) PROVE EditsInOrder'
    <3>1. \A t \in saves' : \E u \in saves : SameRequest(t, u)
      BY <1>0, <2>1, AnswersAreOfRequests
    <3> QED BY <2>1, <3>1, EditsStay DEF UpdateDraft, shell, editor, waiting
  <2>2. CASE RunBegins \/ \E l \in loads : GetDraft(l)
    BY <1>0, <2>2, EditsStay DEF RunBegins, GetDraft, shell, editor, waiting
  <2> QED BY <1>2, <2>1, <2>2 DEF Application
<1>3. ASSUME NEW l \in loads, DraftLoaded(l) PROVE EditsInOrder'
  <2>1. CASE ~AnswersSelection(l)
    BY <1>0, <1>3, <2>1, EditsStay DEF DraftLoaded, waiting
  <2>2. CASE AnswersSelection(l)
    <3>1. /\ UNCHANGED <<selection, edit, pending, queue, saves, ran>> /\ view' = Fresh(draft')
          /\ l.selection = selection
      BY <1>3, <2>2 DEF DraftLoaded, AnswersSelection, waiting
    <3>2. ran = "no" =>
            /\ draft = NoDraft /\ pending = NoEdit /\ queue = <<>>
            /\ \A s \in saves : s.selection # selection
      BY <3>1 DEF HandInv, DraftInHand, DraftsAreReal
    <3>3. view'.revision = 0
      BY <3>1 DEF Fresh
    <3> QED BY <3>1, <3>2, <3>3, RevisionsAreNumbers DEF EditsInOrder
  <2> QED BY <2>1, <2>2
<1>4. ASSUME NEW s \in saves, DraftSaved(s) PROVE EditsInOrder'
  <2>1. UNCHANGED <<ran, selection, queue, edit, pending>> /\ saves' = saves \ {s}
    BY <1>4 DEF DraftSaved, waiting
  <2>2. view'.revision = view.revision /\ (draft' # NoDraft => draft # NoDraft)
    BY <1>4 DEF DraftSaved, IsCurrent, TypeOK, Views
  <2> QED BY <1>0, <2>1, <2>2, EditsStay
<1>5. CASE AutosaveFires
  <2>1. UNCHANGED <<draft, selection, view, saves, ran>>
    BY <1>5 DEF AutosaveFires
  <2>2. CASE FlushDraftEdit
    BY <2>1, <2>2, EditsFlush
  <2>3. CASE UNCHANGED <<pending, edit, waiting>>
    BY <1>0, <2>1, <2>3, EditsStay DEF waiting
  <2> QED BY <1>5, <2>2, <2>3 DEF AutosaveFires
<1>6. CASE RunWaitsForQueue \/ StartRun \/ RunFails
  BY <1>0, <1>6, EditsStay DEF RunWaitsForQueue, StartRun, RunFails, shell, editor, waiting
<1>7. CASE RunAnswered
  BY <1>7 DEF RunAnswered, EditsInOrder
<1>8. CASE UNCHANGED vars
  BY <1>0, <1>8, EditsStay DEF vars, shell, editor, waiting
<1> QED BY <1>1, <1>2, <1>3, <1>4, <1>5, <1>6, <1>7, <1>8, EditsSend, EditsNodes DEF Next, Shell

\* An answered save changes the text on screen only if its text was the last: what is newer
\* would have been counted.
LEMMA SavedShowsTheLast ==
  ASSUME IInv, HandInv, EditsInOrder, [Next]_vars, NEW s \in saves, s \notin saves',
         s.kind = "text", s.answer.kind = "saved", ran = "no", view'.content # view.content
  PROVE  pending = NoEdit /\ \A e \in Range(queue) : e.kind # "text"
<1> TypeOK /\ DraftsAreReal /\ TokensInOrder BY DEF IInv
<1>1. DraftSaved(s)
  <2>1. ASSUME NEW t \in saves, UpdateDraft(t) PROVE FALSE
    BY <2>1 DEF UpdateDraft, editor
  <2>2. ASSUME NEW t \in saves, DraftSaved(t) PROVE t = s
    BY <2>2 DEF DraftSaved
  <2> QED BY <2>1, <2>2 DEF Next, User, Application, Shell, SelectWorkflow, AnotherWindowSaves, Type,
             EditNodes, PressRun, GetDraft, RunBegins, DraftLoaded, AutosaveFires, SendSave,
             EditNodesGoesOn, RunWaitsForQueue, StartRun, RunFails, RunAnswered, vars
<1>2. s.selection = selection /\ draft # NoDraft /\ s.edit = edit
  BY <1>1 DEF DraftSaved, IsCurrent, Shows
<1>3. /\ view.revision =< edit
      /\ pending # NoEdit => pending.revision = view.revision /\ edit < pending.revision
      /\ \A i \in DOMAIN queue : queue[i].kind = "text" =>
           queue[i].edit =< view.revision /\ edit < queue[i].edit
  BY <1>2 DEF EditsInOrder
<1>4. pending = NoEdit
  BY <1>3, RevisionsAreNumbers
<1>5. \A i \in DOMAIN queue : queue[i].kind # "text"
  BY <1>3, RevisionsAreNumbers
<1> QED BY <1>4, <1>5 DEF Range

\* NewerTextIsKept, for any texts and any number of acts: no answer to a save takes newer text
\* off the screen.
THEOREM NewerTextStays == Spec => NewerTextIsKept
<1>1. Init => HandInv /\ EditsInOrder
  BY InitHand DEF Init, EditsInOrder
<1>2. IInv /\ HandInv /\ EditsInOrder /\ [Next]_vars => (HandInv /\ EditsInOrder)'
  BY StepKeepsHand, StepKeepsEdits
<1>3. IInv /\ HandInv /\ EditsInOrder /\ [Next]_vars =>
        [ \A s \in saves :
            /\ s \notin saves' /\ s.kind = "text" /\ s.answer.kind = "saved"
            /\ ran = "no"
            /\ view'.content # view.content
            => pending = NoEdit /\ \A e \in Range(queue) : e.kind # "text" ]_vars
  BY SavedShowsTheLast
<1> QED BY <1>1, <1>2, <1>3, InductiveInvariant, PTL DEF Spec, NewerTextIsKept
-----------------------------------------------------------------------------
(* An old page and what another window wrote.                              *)

LEMMA VersionsAreNumbers ==
  ASSUME TypeOK
  PROVE  /\ \A w \in Workflows : stored[w].version \in Nat /\ stored[w].foreign \in Nat
         /\ draft.version \in Nat /\ view.seen \in Nat /\ pending.seen \in Nat
         /\ run.draft.version \in Nat
         /\ \A i \in DOMAIN queue : queue[i].seen \in Nat
         /\ \A l \in loads : l.workflow \in Workflows /\ l.answer.draft.version \in Nat
         /\ \A s \in saves : /\ s.workflow \in Workflows /\ s.token \in Workflows
                             /\ s.version \in Nat /\ s.seen \in Nat
                             /\ s.answer.draft.version \in Nat
<1>1. \A w \in Workflows : stored[w].version \in Nat /\ stored[w].foreign \in Nat
  BY DEF TypeOK, Rows
<1>2. draft.version \in Nat /\ view.seen \in Nat /\ pending.seen \in Nat
  BY DEF TypeOK, Drafts, Views, Edits
<1>3. run.draft.version \in Nat
  BY DEF TypeOK, Handlers, Drafts
<1>4. \A i \in DOMAIN queue : queue[i] \in QueuedEdits
  BY DEF TypeOK
<1>5. \A l \in loads : l.workflow \in Workflows /\ l.answer.draft.version \in Nat
  BY DEF TypeOK, Loads, Answers, Drafts
<1>6. \A s \in saves : /\ s.workflow \in Workflows /\ s.token \in Workflows
                       /\ s.version \in Nat /\ s.seen \in Nat /\ s.answer \in Answers
  BY DEF TypeOK, Saves
<1>7. \A a \in Answers : a.draft.version \in Nat
  BY DEF Answers, Drafts
<1> QED BY <1>1, <1>2, <1>3, <1>4, <1>5, <1>6, <1>7 DEF QueuedEdits

\* What a step does to the rows: nothing, or a version more of one of them.
RowsStay == \A w \in Workflows : stored'[w].foreign = stored[w].foreign

\* An autosave that writes had the version of the row for its token.
LEMMA RowsAfterSaves ==
  ASSUME TypeOK, NEW s \in saves, stored' = [stored EXCEPT ![s.workflow] = RowAfter(s)]
  PROVE  /\ \A w \in Workflows : w # s.workflow => stored'[w] = stored[w]
         /\ stored'[s.workflow] = RowAfter(s)
         /\ \/ stored' = stored
            \/ /\ ~Refused(s) /\ s.version = stored[s.workflow].version
               /\ stored'[s.workflow].version = stored[s.workflow].version + 1
               /\ stored'[s.workflow].foreign =
                    IF s.token = s.workflow THEN stored[s.workflow].foreign ELSE 0
<1>1. s.workflow \in Workflows /\ stored \in [Workflows -> Rows]
  BY VersionsAreNumbers DEF TypeOK
<1>2. \A w \in Workflows : w # s.workflow => stored'[w] = stored[w]
  BY <1>1
<1>3. stored'[s.workflow] = RowAfter(s)
  BY <1>1
<1>4. CASE stored[s.workflow].content = s.content \/ Refused(s)
  BY <1>1, <1>2, <1>3, <1>4 DEF RowAfter
<1>5. CASE ~(stored[s.workflow].content = s.content \/ Refused(s))
  <2>1. PICK r : r = stored[s.workflow] /\ r \in Rows
    BY <1>1
  <2>2. PICK f : f = IF s.token = s.workflow THEN r.foreign ELSE 0
    OBVIOUS
  <2>3. RowAfter(s) = [r EXCEPT !.version = r.version + 1, !.content = s.content, !.foreign = f]
    BY <1>5, <2>1, <2>2 DEF RowAfter
  <2>4. RowAfter(s).version = r.version + 1 /\ RowAfter(s).foreign = f
    BY <2>1, <2>3 DEF Rows
  <2> QED BY <1>2, <1>3, <1>5, <2>1, <2>2, <2>4 DEF Refused
<1> QED BY <1>2, <1>3, <1>4, <1>5

\* The row a Run begins with keeps its text, its nodes and what another window wrote.
LEMMA RowsAfterBegins ==
  ASSUME TypeOK, DraftsAreReal, RunBegins
  PROVE  /\ RowsStay
         /\ \A w \in Workflows : /\ stored'[w].content.text = stored[w].content.text
                                 /\ stored'[w].content.nodes = stored[w].content.nodes
         /\ run.at = "calling" /\ run'.at = "begun" /\ run'.from = run.from
         /\ run'.draft.workflow = run.draft.workflow /\ run.draft.workflow \in Workflows
         /\ run.draft.version = stored[run.draft.workflow].version
         /\ run'.draft.version = stored'[run.draft.workflow].version
<1>1. PICK v : v = run.draft.workflow /\ v \in Workflows
  BY DEF RunBegins, TypeOK
<1>2. PICK b \in BOOLEAN : stored' = [stored EXCEPT ![v] = RowAfterBegin(stored[v], b)]
  BY <1>1 DEF RunBegins
<1>3. PICK r : r = stored[v] /\ r \in Rows
  BY <1>1 DEF TypeOK
<1>4. /\ RowAfterBegin(r, b).foreign = r.foreign
      /\ RowAfterBegin(r, b).content.text = r.content.text
      /\ RowAfterBegin(r, b).content.nodes = r.content.nodes
  <2>1. r.content \in Contents
    BY <1>3 DEF Rows
  <2>2. CASE RowAfterBegin(r, b) = r
    BY <2>2
  <2>3. CASE RowAfterBegin(r, b) = [r EXCEPT !.version = @ + 1, !.content.model = TRUE]
    BY <1>3, <2>1, <2>3 DEF Rows, Contents
  <2> QED BY <2>2, <2>3 DEF RowAfterBegin
<1>5. stored'[v] = RowAfterBegin(r, b) /\ \A w \in Workflows : w # v => stored'[w] = stored[w]
  BY <1>1, <1>2, <1>3 DEF TypeOK
<1>6. RowsStay /\ \A w \in Workflows : /\ stored'[w].content.text = stored[w].content.text
                                       /\ stored'[w].content.nodes = stored[w].content.nodes
  BY <1>3, <1>4, <1>5 DEF RowsStay
<1>7. run.at = "calling" /\ run.draft.version = stored[v].version
  BY <1>1 DEF RunBegins
<1>8. PICK d : /\ d = [workflow |-> v, version |-> stored'[v].version, content |-> stored'[v].content]
               /\ run' = [run EXCEPT !.at = "begun", !.draft = d]
  BY <1>1 DEF RunBegins
<1>9. run'.at = "begun" /\ run'.from = run.from /\ run'.draft = d
  BY <1>8 DEF TypeOK, Handlers
<1> QED BY <1>1, <1>6, <1>7, <1>8, <1>9

LEMMA RowsAfterOthers ==
  ASSUME TypeOK, NEW w \in Workflows, AnotherWindowSaves(w)
  PROVE  /\ \A v \in Workflows : v # w => stored'[v] = stored[v]
         /\ stored'[w].version = stored[w].version + 1
         /\ stored'[w].foreign = stored[w].version + 1
         /\ stored'[w].content.text = Foreign /\ stored'[w].content.nodes = 0
<1>1. PICK r : r = stored[w] /\ r \in Rows
  BY DEF TypeOK
<1>2. stored' = [stored EXCEPT ![w] = [r EXCEPT !.version = r.version + 1, !.foreign = r.version + 1,
                                                !.content = Content(w, Foreign)]]
  BY <1>1 DEF AnotherWindowSaves
<1>3. stored'[w] = [r EXCEPT !.version = r.version + 1, !.foreign = r.version + 1,
                             !.content = Content(w, Foreign)]
  BY <1>2 DEF TypeOK
<1>4. stored'[w].content = Content(w, Foreign) /\ stored'[w].version = r.version + 1
      /\ stored'[w].foreign = r.version + 1
  BY <1>1, <1>3 DEF Rows
<1>5. \A v \in Workflows : v # w => stored'[v] = stored[v]
  BY <1>2 DEF TypeOK
<1> QED BY <1>1, <1>4, <1>5 DEF Content

\* No row's last foreign version is newer than the row.
LEMMA ForeignIsOld ==
  ASSUME IInv, VersionsAreOld, [Next]_vars
  PROVE  \A w \in Workflows : stored'[w].foreign =< stored'[w].version
<1> TypeOK /\ DraftsAreReal BY DEF IInv
<1> VersionsGrow BY StoredGrows
<1>1. \A w \in Workflows : stored[w].foreign =< stored[w].version
  BY DEF VersionsAreOld
<1>2. CASE stored' = stored BY <1>1, <1>2
<1>3. CASE RowsStay
  BY <1>1, <1>3, VersionsAreNumbers DEF RowsStay, VersionsGrow
<1>4. ASSUME NEW w \in Workflows, AnotherWindowSaves(w)
      PROVE  \A v \in Workflows : stored'[v].foreign =< stored'[v].version
  BY <1>1, <1>4, RowsAfterOthers, VersionsAreNumbers
<1>5. ASSUME NEW s \in saves, stored' = [stored EXCEPT ![s.workflow] = RowAfter(s)]
      PROVE  \A v \in Workflows : stored'[v].foreign =< stored'[v].version
  <2>1. s.workflow \in Workflows BY VersionsAreNumbers
  <2>2. stored'[s.workflow].foreign =< stored'[s.workflow].version
    <3>1. PICK r : r = stored[s.workflow] /\ r.version \in Nat /\ r.foreign \in Nat
                   /\ r.foreign =< r.version
      BY <1>1, <2>1, VersionsAreNumbers
    <3>2. CASE stored' = stored
      BY <1>1, <2>1, <3>2
    <3>3. CASE stored'[s.workflow].version = r.version + 1 /\ stored'[s.workflow].foreign \in {r.foreign, 0}
      BY <3>1, <3>3
    <3> QED BY <1>5, <3>1, <3>2, <3>3, RowsAfterSaves
  <2>3. \A w \in Workflows : w # s.workflow => stored'[w] = stored[w]
    BY <1>5, RowsAfterSaves
  <2> QED BY <1>1, <2>2, <2>3
<1>6. CASE User BY <1>2, <1>4, <1>6 DEF User, SelectWorkflow, Type, EditNodes, PressRun
<1>7. CASE Application
  BY <1>2, <1>3, <1>5, <1>7, RowsAfterBegins DEF Application, GetDraft, UpdateDraft
<1>8. CASE Shell
  BY <1>2, <1>8 DEF Shell, DraftLoaded, DraftSaved, AutosaveFires, SendSave,
     EditNodesGoesOn, RunWaitsForQueue, StartRun, RunFails, RunAnswered
<1>9. CASE UNCHANGED vars BY <1>2, <1>9 DEF vars
<1> QED BY <1>6, <1>7, <1>8, <1>9 DEF Next

\* Steps that take no version in hand but those in hand.
LEMMA VersionsStay ==
  ASSUME IInv, VersionsAreOld, [Next]_vars,
         \/ draft' \in {draft, NoDraft}
         \/ draft' # NoDraft => draft'.workflow \in Workflows /\ draft'.version \in Nat
                                /\ draft'.version =< stored[draft'.workflow].version,
         run'.at \in {"calling", "begun"} =>
           \/ run.at \in {"calling", "begun"} /\ run'.draft = run.draft
           \/ draft # NoDraft /\ run'.draft = draft,
         \A t \in saves' : \E s \in saves : SameRequest(t, s)
  PROVE  VersionsAreOld'
<1> TypeOK /\ DraftsAreReal BY DEF IInv
<1>0. VersionsGrow BY StoredGrows
<1>1. \A w \in Workflows, n \in Nat : n =< stored[w].version => n =< stored'[w].version
  BY <1>0 DEF VersionsGrow
<1>2. draft' # NoDraft => draft'.version =< stored'[draft'.workflow].version
  <2>1. draft # NoDraft => draft.workflow \in Workflows
    BY DEF DraftsAreReal, Real
  <2> QED BY <1>1, <2>1, VersionsAreNumbers DEF VersionsAreOld
<1>3. run'.at \in {"calling", "begun"} => run'.draft.version =< stored'[run'.draft.workflow].version
  <2>1. /\ draft # NoDraft => draft.workflow \in Workflows
        /\ run.at \in {"calling", "begun"} => run.draft.workflow \in Workflows
    BY DEF DraftsAreReal, Real
  <2> QED BY <1>1, <2>1, VersionsAreNumbers DEF VersionsAreOld
<1>4. \A t \in saves' : t.version =< stored'[t.token].version
  BY <1>1, VersionsAreNumbers DEF VersionsAreOld, SameRequest
<1> QED BY <1>2, <1>3, <1>4, ForeignIsOld DEF VersionsAreOld

LEMMA StepKeepsVersions ==
  ASSUME IInv, VersionsAreOld, [Next]_vars
  PROVE  VersionsAreOld'
<1> TypeOK /\ DraftsAreReal /\ SelectionIsKept /\ TokensInOrder BY DEF IInv
<1>0. \A t \in saves : SameRequest(t, t) BY DEF SameRequest
<1>1. CASE User
  <2>1. draft' \in {draft, NoDraft} /\ saves' = saves
    BY <1>1 DEF User, SelectWorkflow, AnotherWindowSaves, Type, EditNodes, PressRun, shell
  <2>2. CASE PressRun
    <3>1. run'.at = "flushing" BY <2>2 DEF PressRun, Handler
    <3> QED BY <1>0, <2>1, <3>1, VersionsStay
  <2>3. CASE ~PressRun
    <3>1. run' = run
      BY <1>1, <2>3 DEF User, SelectWorkflow, AnotherWindowSaves, Type, EditNodes, handlers
    <3> QED BY <1>0, <2>1, <3>1, VersionsStay
  <2> QED BY <2>2, <2>3
<1>2. ASSUME NEW s \in saves, UpdateDraft(s) PROVE VersionsAreOld'
  <2>1. \A t \in saves' : \E u \in saves : SameRequest(t, u)
    BY <1>0, <1>2, AnswersAreOfRequests
  <2> QED BY <1>2, <2>1, VersionsStay DEF UpdateDraft, shell, handlers
<1>3. CASE RunBegins
  <2>1. draft' = draft /\ saves' = saves
    BY <1>3 DEF RunBegins, shell
  <2>2. VersionsGrow BY StoredGrows
  <2>3. run'.draft.version =< stored'[run'.draft.workflow].version
    BY <1>3, <2>2, RowsAfterBegins DEF VersionsGrow
  <2>4. draft # NoDraft => draft.workflow \in Workflows
    BY DEF DraftsAreReal, Real
  <2> QED BY <2>1, <2>2, <2>3, <2>4, ForeignIsOld, VersionsAreNumbers DEF VersionsAreOld, VersionsGrow
<1>4. ASSUME NEW l \in loads, GetDraft(l) PROVE VersionsAreOld'
  BY <1>0, <1>4, VersionsStay DEF GetDraft, shell, handlers
<1>5. ASSUME NEW l \in loads, DraftLoaded(l) PROVE VersionsAreOld'
  <2>1. UNCHANGED <<saves, run>>
    BY <1>5 DEF DraftLoaded, handlers
  <2>2. CASE draft' = draft
    BY <1>0, <2>1, <2>2, VersionsStay
  <2>3. CASE l.answer.kind = "draft" /\ draft' = l.answer.draft
    <3>1. /\ draft'.workflow \in Workflows /\ draft'.version \in Nat
          /\ draft'.version =< stored[draft'.workflow].version
      BY <2>3, VersionsAreNumbers DEF TokensInOrder, DraftsAreReal
    <3> QED BY <1>0, <2>1, <3>1, VersionsStay
  <2> QED BY <1>5, <2>2, <2>3 DEF DraftLoaded, AnswersSelection
<1>6. ASSUME NEW s \in saves, DraftSaved(s) PROVE VersionsAreOld'
  <2>1. run' = run /\ saves' = saves \ {s}
    BY <1>6 DEF DraftSaved, handlers
  <2>2. CASE draft' = draft
    BY <1>0, <2>1, <2>2, VersionsStay
  <2>3. CASE s.answer.kind # "error" /\ draft' = s.answer.draft
    <3>1. s.answer.kind \in {"saved", "conflict"}
      BY <1>6, <2>3 DEF DraftSaved, DraftsAreReal
    <3>2. /\ draft'.workflow \in Workflows /\ draft'.version \in Nat
          /\ draft'.version =< stored[draft'.workflow].version
      BY <2>3, <3>1, VersionsAreNumbers DEF TokensInOrder, DraftsAreReal
    <3> QED BY <1>0, <2>1, <3>2, VersionsStay
  <2> QED BY <1>6, <2>2, <2>3 DEF DraftSaved
<1>7. CASE SendSave
  <2>1. UNCHANGED <<stored, draft, run>>
    BY <1>7 DEF SendSave, shell, handlers
  <2>2. \A t \in saves' : t \in saves \/ (t.version = draft.version /\ t.token = draft.workflow)
    BY <1>7, RequestFacts DEF Request
  <2> QED BY <1>7, <2>1, <2>2, RequestFacts DEF VersionsAreOld
<1>8. CASE StartRun
  <2>1. draft' = draft /\ saves' = saves
    BY <1>8 DEF StartRun, shell
  <2>2. run' = Idle \/ (draft # NoDraft /\ run'.draft = draft)
    BY <1>8 DEF StartRun, TypeOK, Handlers
  <2> QED BY <1>0, <2>1, <2>2, VersionsStay DEF Idle
<1>9. CASE RunWaitsForQueue
  <2>1. draft' = draft /\ saves' = saves
    BY <1>9 DEF RunWaitsForQueue, shell
  <2>2. run'.at = "draining"
    BY <1>9 DEF RunWaitsForQueue, TypeOK, Handlers
  <2> QED BY <1>0, <2>1, <2>2, VersionsStay
<1>10. CASE RunFails
  BY <1>0, <1>10, VersionsStay DEF RunFails, Idle, shell
<1>11. CASE RunAnswered
  <2>1. run'.at = "idle" /\ saves' = saves /\ draft' = run.draft /\ run.at = "begun"
    BY <1>11 DEF RunAnswered, Idle
  <2>2. /\ draft'.workflow \in Workflows /\ draft'.version \in Nat
        /\ draft'.version =< stored[draft'.workflow].version
    BY <2>1, VersionsAreNumbers DEF VersionsAreOld, TypeOK
  <2> QED BY <1>0, <2>1, <2>2, VersionsStay
<1>12. CASE AutosaveFires \/ EditNodesGoesOn
  BY <1>0, <1>12, VersionsStay DEF AutosaveFires, EditNodesGoesOn, handlers
<1>13. CASE UNCHANGED vars
  BY <1>0, <1>13, VersionsStay DEF vars, shell, handlers
<1> QED BY <1>1, <1>2, <1>3, <1>4, <1>5, <1>6, <1>7, <1>8, <1>9, <1>10, <1>11, <1>12, <1>13
        DEF Next, Application, Shell

\* Steps that neither type nor queue text.
LEMMA TextsStay ==
  ASSUME TextsAreTyped, pending' \in {pending, NoEdit},
         \A i \in DOMAIN queue' : \/ queue'[i].kind # "text"
                                  \/ \E j \in DOMAIN queue : queue'[i] = queue[j],
         \A t \in saves' : \E s \in saves : SameRequest(t, s)
  PROVE  TextsAreTyped'
<1>1. NoEdit.content.text # Foreign
  BY ShellAssumption DEF NoEdit, NoContent, Content
<1> QED BY <1>1 DEF TextsAreTyped, SameRequest

LEMMA FlushesAreTyped ==
  ASSUME TypeOK, DraftsAreReal, TextsAreTyped, FlushDraftEdit, saves' = saves
  PROVE  TextsAreTyped'
<1>0. \A t \in saves : SameRequest(t, t) BY DEF SameRequest
<1>1. CASE queue' = queue
  BY <1>0, <1>1, FlushAppends, TextsStay
<1>2. CASE Typed(pending) \in QueuedEdits /\ queue' = Append(queue, Typed(pending))
  <2>1. PICK e \in QueuedEdits : e = Typed(pending) /\ e.content = pending.content
    BY <1>2 DEF Typed
  <2>2. \A i \in DOMAIN queue' : queue'[i] = e \/ (i \in DOMAIN queue /\ queue'[i] = queue[i])
    BY <1>2, <2>1, QueueGrows DEF TypeOK
  <2>3. NoEdit.content.text # Foreign
    BY ShellAssumption DEF NoEdit, NoContent, Content
  <2> QED BY <2>1, <2>2, <2>3, FlushAppends DEF TextsAreTyped
<1> QED BY <1>1, <1>2, FlushAppends

LEMMA StepKeepsTexts ==
  ASSUME IInv, TextsAreTyped, [Next]_vars
  PROVE  TextsAreTyped'
<1> TypeOK /\ DraftsAreReal BY DEF IInv
<1>0. \A t \in saves : SameRequest(t, t) BY DEF SameRequest
<1>1. ASSUME NEW w \in Workflows, SelectWorkflow(w) \/ AnotherWindowSaves(w) PROVE TextsAreTyped'
  BY <1>0, <1>1, TextsStay DEF SelectWorkflow, AnotherWindowSaves, editor, waiting
<1>2. ASSUME NEW x \in Texts \cup {Broken}, Type(x) PROVE TextsAreTyped'
  <2>1. pending'.content = [view.content EXCEPT !.text = x] /\ UNCHANGED <<queue, saves>>
    BY <1>2 DEF Type, waiting
  <2>2. pending'.content.text = x
    BY <2>1 DEF TypeOK, Views, Contents
  <2>3. x # Foreign
    BY ShellAssumption
  <2> QED BY <2>1, <2>2, <2>3 DEF TextsAreTyped
<1>3. CASE EditNodes \/ PressRun
  BY <1>3, FlushesAreTyped DEF EditNodes, PressRun
<1>4. CASE AutosaveFires
  BY <1>0, <1>4, FlushesAreTyped, TextsStay DEF AutosaveFires, waiting
<1>5. ASSUME NEW s \in saves, UpdateDraft(s) PROVE TextsAreTyped'
  <2>1. \A t \in saves' : \E u \in saves : SameRequest(t, u)
    BY <1>0, <1>5, AnswersAreOfRequests
  <2> QED BY <1>5, <2>1, TextsStay DEF UpdateDraft, editor, waiting
<1>6. CASE SendSave
  <2>1. pending' = pending
    BY <1>6 DEF SendSave, editor
  <2>2. Request(queue[1]).content.text # Foreign \/ Request(queue[1]).content.nodes > 0
    <3>1. queue[1] \in QueuedEdits /\ draft.content \in Contents
      BY <1>6, RequestFacts DEF TypeOK, Drafts
    <3>2. [draft.content EXCEPT !.nodes = @ + 1].nodes > 0
      BY <3>1 DEF Contents
    <3>3. Request(queue[1]).content = IF queue[1].kind = "text" THEN queue[1].content
                                      ELSE [draft.content EXCEPT !.nodes = @ + 1]
      BY DEF Request
    <3> QED BY <1>6, <3>2, <3>3, RequestFacts DEF TextsAreTyped
  <2>3. \A t \in saves' : t \in saves \/ t = Request(queue[1])
    BY <1>6, RequestFacts
  <2>4. \A i \in DOMAIN queue' : \E j \in DOMAIN queue : queue'[i] = queue[j]
    BY <1>6, RequestFacts
  <2> QED BY <2>1, <2>2, <2>3, <2>4 DEF TextsAreTyped
<1>7. CASE EditNodesGoesOn
  <2>1. UNCHANGED <<pending, saves>>
    BY <1>7 DEF EditNodesGoesOn, editor
  <2>2. CASE draft = NoDraft \/ refresh
    BY <1>0, <1>7, <2>1, <2>2, TextsStay DEF EditNodesGoesOn, waiting
  <2>3. CASE ~(draft = NoDraft \/ refresh)
    <3>1. edit + 1 \in Nat /\ draft.workflow \in Workflows
      BY <2>3 DEF TypeOK, DraftsAreReal, Real
    <3>2. PICK e \in QueuedEdits : e.kind = "nodes" /\ queue' = Append(queue, e)
      BY <1>7, <2>3, <3>1, StructuredFits DEF Structured, EditNodesGoesOn
    <3>3. \A i \in DOMAIN queue' : queue'[i].kind # "text" \/ \E j \in DOMAIN queue : queue'[i] = queue[j]
      BY <3>2, QueueGrows DEF TypeOK
    <3> QED BY <1>0, <2>1, <3>3, TextsStay
  <2> QED BY <2>2, <2>3
<1>8. CASE RunBegins \/ RunWaitsForQueue \/ StartRun \/ RunFails \/ RunAnswered \/ UNCHANGED vars
           \/ \E l \in loads : GetDraft(l) \/ DraftLoaded(l)
  BY <1>0, <1>8, TextsStay DEF RunBegins, RunWaitsForQueue, StartRun, RunFails, RunAnswered, GetDraft,
     DraftLoaded, vars, editor, waiting
<1>9. ASSUME NEW s \in saves, DraftSaved(s) PROVE TextsAreTyped'
  BY <1>0, <1>9, TextsStay DEF DraftSaved, waiting
<1> QED BY <1>1, <1>2, <1>3, <1>4, <1>5, <1>6, <1>7, <1>8, <1>9
        DEF Next, User, Application, Shell

SideInv == ran # "stray" => OneSide

\* What a selection holds of one side it keeps: nothing new comes into it but from what is there.
LEMMA SawStays ==
  ASSUME NEW f \in Nat, TypeOK, SawIt(f), selection' = selection,
         view'.seen = view.seen \/ view'.seen >= f,
         pending' \in {pending, NoEdit} \/ pending'.seen = view.seen,
         \A i \in DOMAIN queue' : queue'[i].kind = "text" =>
           \/ \E j \in DOMAIN queue : queue'[i] = queue[j]
           \/ pending # NoEdit /\ queue'[i].seen = pending.seen,
         \A t \in saves' : t.selection = selection =>
           \/ \E s \in saves : SameRequest(t, s) /\ (t.answer = s.answer \/ t.answer.kind # "saved")
           \/ t.version >= f /\ (t.answer.kind = "saved" => t.answer.draft.version >= f),
         run'.at \in {"calling", "begun"} /\ run'.from = selection =>
           \/ run.at \in {"calling", "begun"} /\ run.from = selection /\ run'.draft = run.draft
           \/ run'.draft.version >= f
  PROVE  SawIt(f)'
<1>1. view'.seen >= f /\ (pending' # NoEdit => pending'.seen >= f)
  BY DEF SawIt
<1>2. \A i \in DOMAIN queue' : queue'[i].kind = "text" => queue'[i].seen >= f
  BY DEF SawIt
<1>3. \A t \in saves' : t.selection = selection =>
        t.version >= f /\ (t.answer.kind = "saved" => t.answer.draft.version >= f)
  BY DEF SawIt, SameRequest
<1>4. run'.from = selection /\ run'.at \in {"calling", "begun"} => run'.draft.version >= f
  BY DEF SawIt
<1> QED BY <1>1, <1>2, <1>3, <1>4 DEF SawIt

LEMMA MissedStays ==
  ASSUME NEW f \in Nat, MissedIt(f), selection' = selection,
         \A t \in saves' : t.selection = selection =>
           \/ \E s \in saves : SameRequest(t, s) /\ (t.answer = s.answer \/ t.answer.kind # "saved")
           \/ t.version < f /\ (t.answer.kind = "saved" => t.answer.draft.version < f),
         run'.at \in {"calling", "begun"} /\ run'.from = selection =>
           \/ run.at \in {"calling", "begun"} /\ run.from = selection /\ run'.draft = run.draft
           \/ run'.draft.version < f
  PROVE  MissedIt(f)'
<1>1. \A t \in saves' : t.selection = selection =>
        t.version < f /\ (t.answer.kind = "saved" => t.answer.draft.version < f)
  BY DEF MissedIt, SameRequest
<1>2. run'.from = selection /\ run'.at \in {"calling", "begun"} => run'.draft.version < f
  BY DEF MissedIt
<1> QED BY <1>1, <1>2 DEF MissedIt

LEMMA UnseenStays ==
  ASSUME NEW w \in Workflows, Unseen(w), stored'[w].foreign = stored[w].foreign,
         stored'[w].content.text = stored[w].content.text,
         stored'[w].content.nodes = stored[w].content.nodes,
         \A t \in saves' : t.answer = NoAnswer =>
           \/ \E s \in saves : SameRequest(t, s) /\ s.answer = NoAnswer
           \/ t.token = w => t.version < stored[w].foreign
  PROVE  Unseen(w)'
BY DEF Unseen, SameRequest

\* Steps that leave the rows, the draft in hand and the selection alone.
LEMMA SidesStay ==
  ASSUME TypeOK, DraftsAreReal, SideInv, UNCHANGED <<stored, draft, refresh, selection, ran>>,
         loads' \subseteq loads,
         view'.seen = view.seen,
         pending' \in {pending, NoEdit} \/ pending'.seen = view.seen,
         \A i \in DOMAIN queue' : queue'[i].kind = "text" =>
           \/ \E j \in DOMAIN queue : queue'[i] = queue[j]
           \/ pending # NoEdit /\ queue'[i].seen = pending.seen,
         \A t \in saves' : \E s \in saves :
           SameRequest(t, s) /\ (t.answer = s.answer \/ t.answer.kind = "error"),
         run'.at \in {"calling", "begun"} =>
           \/ run.at \in {"calling", "begun"} /\ run'.from = run.from /\ run'.draft = run.draft
           \/ run'.draft = draft
  PROVE  SideInv'
<1> SUFFICES ASSUME OneSide PROVE OneSide'
  BY DEF SideInv
<1>1. \A w \in Workflows : Unseen(w) => Unseen(w)'
  <2>1. \A t \in saves' : t.answer = NoAnswer => \E s \in saves : SameRequest(t, s) /\ s.answer = NoAnswer
    BY DEF NoAnswer
  <2> QED BY <2>1, UnseenStays
<1>2. ASSUME draft # NoDraft, ~refresh PROVE SideTaken(stored[draft.workflow].foreign)'
  <2>1. PICK f \in Nat : f = stored[draft.workflow].foreign /\ draft.workflow \in Workflows
    BY <1>2, VersionsAreNumbers DEF DraftsAreReal, Real
  <2>2. SideTaken(f)
    BY <1>2, <2>1 DEF OneSide
  <2>3. \A t \in saves' : t.selection = selection =>
          \E s \in saves : SameRequest(t, s) /\ (t.answer = s.answer \/ t.answer.kind # "saved")
    OBVIOUS
  <2>4. CASE draft.version >= f /\ SawIt(f)
    <3>1. SawIt(f)'
      BY <2>3, <2>4, SawStays
    <3> QED BY <2>1, <2>4, <3>1 DEF SideTaken
  <2>5. CASE draft.version < f /\ MissedIt(f) /\ Unseen(draft.workflow)
    <3>1. MissedIt(f)'
      BY <2>3, <2>5, MissedStays
    <3>2. Unseen(draft.workflow)'
      BY <1>1, <2>1, <2>5
    <3> QED BY <2>1, <2>5, <3>1, <3>2 DEF SideTaken
  <2> QED BY <2>2, <2>4, <2>5 DEF SideTaken
<1>3. ASSUME draft = NoDraft, NEW l \in loads', l.selection = selection, l.answer.kind = "draft"
      PROVE  LoadedSide(l)'
  <2>1. LoadedSide(l) /\ l.workflow \in Workflows
    BY <1>3, VersionsAreNumbers DEF OneSide
  <2> QED BY <1>1, <2>1 DEF LoadedSide
<1> QED BY <1>2, <1>3 DEF OneSide

\* A flush, whatever else it goes with.
LEMMA SidesFlush ==
  ASSUME TypeOK, DraftsAreReal, SideInv, FlushDraftEdit,
         UNCHANGED <<stored, draft, refresh, selection, ran, view, loads, saves>>,
         run'.at \in {"calling", "begun"} => run' = run
  PROVE  SideInv'
<1>1. pending' = NoEdit
  BY FlushAppends
<1>2. \A i \in DOMAIN queue' : \/ \E j \in DOMAIN queue : queue'[i] = queue[j]
                               \/ pending # NoEdit /\ queue'[i].seen = pending.seen
  <2>1. CASE queue' = queue BY <2>1
  <2>2. CASE /\ pending # NoEdit /\ Typed(pending) \in QueuedEdits
             /\ queue' = Append(queue, Typed(pending))
    <3>1. PICK e \in QueuedEdits : e = Typed(pending) /\ e.seen = pending.seen
      BY <2>2 DEF Typed
    <3>2. \A i \in DOMAIN queue' : queue'[i] = e \/ (i \in DOMAIN queue /\ queue'[i] = queue[i])
      BY <2>2, <3>1, QueueGrows DEF TypeOK
    <3> QED BY <2>2, <3>1, <3>2
  <2> QED BY <2>1, <2>2, FlushAppends
<1>3. \A t \in saves' : \E s \in saves :
        SameRequest(t, s) /\ (t.answer = s.answer \/ t.answer.kind = "error")
  BY DEF SameRequest
<1> QED BY <1>1, <1>2, <1>3, SidesStay

LEMMA SidesSelect ==
  ASSUME IInv, NEW w \in Workflows, SelectWorkflow(w)
  PROVE  SideInv'
<1>1. PICK k : /\ k = [selection |-> selection + 1, workflow |-> w, answer |-> NoAnswer]
               /\ loads' = loads \cup {k} /\ selection' = selection + 1 /\ draft' = NoDraft
  BY DEF SelectWorkflow
<1>2. \A l \in loads : l.selection # selection + 1
  BY DEF IInv, TypeOK, Loads, SelectionIsKept
<1>3. k.answer.kind = "none"
  BY <1>1 DEF NoAnswer
<1> QED BY <1>1, <1>2, <1>3 DEF SideInv, OneSide

\* What is in hand when another window writes is older than what it writes.
LEMMA SidesAnother ==
  ASSUME IInv, HandInv, SideInv, VersionsAreOld, NEW w \in Workflows, AnotherWindowSaves(w)
  PROVE  SideInv'
<1> TypeOK /\ DraftsAreReal /\ SelectionIsKept /\ TokensInOrder BY DEF IInv
<1> SUFFICES ASSUME ran # "stray", DraftInHand, OneSide PROVE OneSide'
  BY DEF SideInv, HandInv, AnotherWindowSaves
<1>1. UNCHANGED <<draft, refresh, selection, view, pending, queue, loads, saves, run>>
  BY DEF AnotherWindowSaves, shell, editor, waiting, handlers
<1>2. PICK f \in Nat : f = stored[w].version + 1 /\ stored'[w].foreign = f
  BY RowsAfterOthers, VersionsAreNumbers
<1>3. \A v \in Workflows : v # w => stored'[v] = stored[v]
  BY RowsAfterOthers
<1>4. \A n \in Nat : n =< stored[w].version => n < f
  BY <1>2, VersionsAreNumbers
<1>5. Unseen(w)'
  <2>1. \A s \in saves : s.token = w => s.version < f
    BY <1>4, VersionsAreNumbers DEF VersionsAreOld
  <2> QED BY <1>1, <1>2, <2>1, RowsAfterOthers DEF Unseen
<1>6. ASSUME NEW v \in Workflows, v # w, Unseen(v) PROVE Unseen(v)'
  <2>1. stored'[v] = stored[v]
    BY <1>3, <1>6
  <2> QED BY <1>1, <1>6, <2>1 DEF Unseen
<1>7. ASSUME draft # NoDraft, ~refresh PROVE SideTaken(stored[draft.workflow].foreign)'
  <2>1. draft.workflow \in Workflows
    BY <1>7 DEF DraftsAreReal, Real
  <2>2. CASE draft.workflow # w
    <3>1. PICK g \in Nat : g = stored[draft.workflow].foreign /\ stored'[draft.workflow].foreign = g
      BY <1>3, <2>1, <2>2, VersionsAreNumbers
    <3>2. SideTaken(g)
      BY <1>7, <3>1 DEF OneSide
    <3>3. (SawIt(g) => SawIt(g)') /\ (MissedIt(g) => MissedIt(g)')
      BY <1>1 DEF SawIt, MissedIt
    <3> QED BY <1>1, <1>6, <2>1, <2>2, <3>1, <3>2, <3>3 DEF SideTaken
  <2>3. CASE draft.workflow = w
    <3>1. draft.version < f
      BY <1>4, <1>7, <2>3, VersionsAreNumbers DEF VersionsAreOld
    <3>2. \A s \in saves : s.selection = selection =>
            s.version < f /\ (s.answer.kind = "saved" => s.answer.draft.version < f)
      <4> SUFFICES ASSUME NEW s \in saves, s.selection = selection
                   PROVE  s.version < f /\ (s.answer.kind = "saved" => s.answer.draft.version < f)
        OBVIOUS
      <4>1. s.workflow = w /\ s.token = w
        BY <1>7, <2>3 DEF DraftInHand
      <4>2. s.version =< stored[w].version
        BY <4>1 DEF VersionsAreOld
      <4>3. s.answer.kind = "saved" => s.answer.draft.version =< stored[w].version
        BY <4>1 DEF TokensInOrder
      <4> QED BY <1>4, <4>2, <4>3, VersionsAreNumbers
    <3>3. run.from = selection /\ run.at \in {"calling", "begun"} => run.draft.version < f
      <4>1. run.from = selection /\ run.at \in {"calling", "begun"} => run.draft.workflow = w
        BY <1>7, <2>3 DEF SelectionIsKept
      <4> QED BY <1>4, <4>1, VersionsAreNumbers DEF VersionsAreOld
    <3>4. MissedIt(f)'
      BY <1>1, <3>2, <3>3 DEF MissedIt
    <3> QED BY <1>1, <1>2, <1>5, <2>3, <3>1, <3>4 DEF SideTaken
  <2> QED BY <2>2, <2>3
<1>8. ASSUME draft = NoDraft, NEW l \in loads, l.selection = selection, l.answer.kind = "draft"
      PROVE  LoadedSide(l)'
  <2>1. LoadedSide(l) /\ l.workflow \in Workflows
    BY <1>8, VersionsAreNumbers DEF OneSide
  <2>2. CASE l.workflow = w
    BY <1>5, <2>2 DEF LoadedSide
  <2>3. CASE l.workflow # w
    BY <1>3, <1>6, <2>1, <2>3 DEF LoadedSide
  <2> QED BY <2>2, <2>3
<1> QED BY <1>1, <1>7, <1>8 DEF OneSide

LEMMA SidesGetDraft ==
  ASSUME IInv, SideInv, VersionsAreOld, NEW l \in loads, GetDraft(l)
  PROVE  SideInv'
<1> TypeOK /\ DraftsAreReal BY DEF IInv
<1> SUFFICES ASSUME OneSide PROVE OneSide'
  BY DEF SideInv, GetDraft
<1>1. UNCHANGED <<stored, draft, refresh, selection, view, pending, queue, saves, run>>
  BY DEF GetDraft, shell, editor, waiting, handlers
<1>2. \A g \in Nat : SideTaken(g) => SideTaken(g)'
  BY <1>1 DEF SideTaken, SawIt, MissedIt, Unseen
<1>3. draft # NoDraft => draft.workflow \in Workflows
  BY DEF DraftsAreReal, Real
<1>4. PICK a \in {[kind |-> "draft", draft |-> Row(l.workflow)], Failure} :
        loads' = (loads \ {l}) \cup {[l EXCEPT !.answer = a]}
  BY DEF GetDraft
<1>5. PICK k : k = [l EXCEPT !.answer = a] /\ k.answer = a /\ k.workflow = l.workflow
  <2>1. [l EXCEPT !.answer = a].answer = a /\ [l EXCEPT !.answer = a].workflow = l.workflow
    BY DEF TypeOK, Loads
  <2> QED BY <2>1
<1>6. a.kind = "draft" => a.draft.version = stored[l.workflow].version
  BY <1>4 DEF Failure, Row
<1>7. a.kind = "draft" => a.draft.version >= stored[l.workflow].foreign
  BY <1>6, VersionsAreNumbers DEF VersionsAreOld
<1>8. \A j \in loads : LoadedSide(j) => LoadedSide(j)'
  BY <1>1 DEF LoadedSide, Unseen
<1>9. a.kind = "draft" => LoadedSide(k)'
  BY <1>1, <1>5, <1>7 DEF LoadedSide
<1> QED BY <1>1, <1>2, <1>3, <1>4, <1>5, <1>8, <1>9, VersionsAreNumbers DEF OneSide

LEMMA SidesLoaded ==
  ASSUME IInv, HandInv, SideInv, NEW l \in loads, DraftLoaded(l)
  PROVE  SideInv'
<1> TypeOK /\ DraftsAreReal BY DEF IInv
<1>1. UNCHANGED <<stored, selection, refresh, pending, queue, saves, run, ran>> /\ loads' = loads \ {l}
  BY DEF DraftLoaded, waiting, handlers
<1>2. CASE ~AnswersSelection(l)
  <2>1. draft' = draft /\ view' = view
    BY <1>2 DEF DraftLoaded
  <2>2. \A t \in saves : SameRequest(t, t) BY DEF SameRequest
  <2> QED BY <1>1, <2>1, <2>2, SidesStay
<1>3. CASE AnswersSelection(l)
  <2> SUFFICES ASSUME OneSide, DraftInHand PROVE OneSide'
    BY <1>1 DEF SideInv, HandInv
  <2>1. /\ draft' = l.answer.draft /\ view' = Fresh(draft') /\ l.selection = selection
        /\ l.answer.kind = "draft"
    BY <1>3 DEF DraftLoaded, AnswersSelection
  <2>2. /\ draft = NoDraft /\ pending = NoEdit /\ queue = <<>>
        /\ \A s \in saves : s.selection # selection
        /\ run.at # "idle" => run.from # selection
    BY <2>1 DEF DraftInHand, DraftsAreReal
  <2>3. PICK f \in Nat : /\ f = stored[l.workflow].foreign /\ draft'.version \in Nat
                         /\ draft'.workflow = l.workflow /\ view'.seen = draft'.version
    BY <2>1, VersionsAreNumbers DEF DraftsAreReal, Fresh
  <2>4. LoadedSide(l)
    BY <2>1, <2>2 DEF OneSide
  <2>5. draft'.version >= f => SawIt(f)'
    BY <1>1, <2>2, <2>3 DEF SawIt
  <2>6. MissedIt(f)'
    BY <1>1, <2>2 DEF MissedIt
  <2>7. Unseen(l.workflow) => Unseen(l.workflow)'
    BY <1>1 DEF Unseen
  <2>8. draft' # NoDraft
    BY <2>1, ShellAssumption DEF DraftsAreReal, Real, NoDraft
  <2>9. SideTaken(f)'
    BY <2>1, <2>3, <2>4, <2>5, <2>6, <2>7 DEF SideTaken, LoadedSide
  <2> QED BY <1>1, <2>3, <2>8, <2>9 DEF OneSide
<1> QED BY <1>2, <1>3

LEMMA SidesSend ==
  ASSUME IInv, SideInv, SendSave
  PROVE  SideInv'
<1> TypeOK /\ DraftsAreReal BY DEF IInv
<1> SUFFICES ASSUME OneSide PROVE OneSide'
  BY DEF SideInv, SendSave
<1>1. UNCHANGED <<stored, draft, refresh, selection, view, pending, loads, run>> /\ draft # NoDraft
  BY RequestFacts DEF SendSave, shell, editor, handlers
<1>2. \A i \in DOMAIN queue' : \E j \in DOMAIN queue : queue'[i] = queue[j]
  BY RequestFacts
<1>3. ASSUME ~refresh PROVE SideTaken(stored[draft.workflow].foreign)'
  <2>1. PICK f \in Nat : /\ f = stored[draft.workflow].foreign
                         /\ draft.workflow \in Workflows /\ draft.version \in Nat
    BY <1>1, VersionsAreNumbers DEF DraftsAreReal, Real
  <2>2. SideTaken(f)
    BY <1>1, <1>3, <2>1 DEF OneSide
  <2>3. PICK r : /\ saves' = saves \cup {r} /\ r.version = draft.version /\ r.answer = NoAnswer
                 /\ r.answer.kind = "none"
    <3>1. Request(queue[1]).version = draft.version /\ Request(queue[1]).answer = NoAnswer
      BY DEF Request
    <3>2. NoAnswer.kind = "none"
      BY DEF NoAnswer
    <3> QED BY <1>3, <3>1, <3>2, RequestFacts
  <2>4. \A t \in saves : SameRequest(t, t) BY DEF SameRequest
  <2>5. CASE draft.version >= f /\ SawIt(f)
    <3>1. SawIt(f)'
      BY <1>1, <1>2, <2>3, <2>4, <2>5, SawStays
    <3> QED BY <1>1, <2>1, <2>5, <3>1 DEF SideTaken
  <2>6. CASE draft.version < f /\ MissedIt(f) /\ Unseen(draft.workflow)
    <3>1. MissedIt(f)'
      BY <1>1, <2>3, <2>4, <2>6, MissedStays
    <3>2. Unseen(draft.workflow)'
      BY <1>1, <2>1, <2>3, <2>4, <2>6, UnseenStays
    <3> QED BY <1>1, <2>1, <2>6, <3>1, <3>2 DEF SideTaken
  <2> QED BY <2>2, <2>5, <2>6 DEF SideTaken
<1> QED BY <1>1, <1>3 DEF OneSide

\* What another window wrote stands: an older save of the row is refused, and none has its text.
LEMMA UnseenIsSafe ==
  ASSUME TypeOK, VersionsAreOld, TextsAreTyped, NEW s \in saves, NEW t,
         s.answer = NoAnswer, SameRequest(t, s), t.answer # NoAnswer,
         saves' = (saves \ {s}) \cup {t},
         \/ stored' = stored
         \/ stored' = [stored EXCEPT ![s.workflow] = RowAfter(s)],
         NEW w \in Workflows, Unseen(w)
  PROVE  /\ Unseen(w)' \/ stored'[w].foreign = 0
         /\ s.workflow = w /\ stored' = [stored EXCEPT ![s.workflow] = RowAfter(s)]
            => Refused(s) \/ stored'[w].foreign = 0
<1>1. PICK f \in Nat : f = stored[w].foreign /\ f =< stored[w].version /\ stored[w].version \in Nat
  BY VersionsAreNumbers DEF VersionsAreOld
<1>2. s.workflow = w => stored[w].content # s.content
  BY DEF Unseen, TextsAreTyped
<1>3. s.workflow = w /\ s.token = w => Refused(s)
  <2>1. s.workflow = w /\ s.token = w => s.version < f /\ s.version \in Nat
    BY <1>1, VersionsAreNumbers DEF Unseen
  <2> QED BY <1>1, <1>2, <2>1 DEF Refused
<1>4. ASSUME stored'[w] = stored[w] PROVE Unseen(w)'
  <2>1. \A u \in saves' : u.answer = NoAnswer => u \in saves
    OBVIOUS
  <2> QED BY <1>4, <2>1 DEF Unseen
<1>5. stored'[w] = stored[w] \/ stored'[w].foreign = 0
  <2>1. CASE stored' = stored BY <2>1
  <2>2. CASE stored' = [stored EXCEPT ![s.workflow] = RowAfter(s)]
    BY <1>3, <2>2, RowsAfterSaves
  <2> QED BY <2>1, <2>2
<1>6. ASSUME s.workflow = w, stored' = [stored EXCEPT ![s.workflow] = RowAfter(s)], ~Refused(s)
      PROVE  stored'[w].foreign = 0
  <2>1. stored'[w] # stored[w]
    <3>1. PICK r : r = stored[w] /\ r \in Rows
      BY DEF TypeOK
    <3>2. RowAfter(s) = [r EXCEPT !.version = @ + 1, !.content = s.content,
                                  !.foreign = IF s.token = s.workflow THEN @ ELSE 0]
      BY <1>2, <1>6, <3>1 DEF RowAfter
    <3>3. RowAfter(s).content = s.content
      BY <3>1, <3>2 DEF Rows
    <3>4. stored'[w] = RowAfter(s)
      BY <1>6, RowsAfterSaves
    <3> QED BY <1>2, <1>6, <3>3, <3>4
  <2> QED BY <1>5, <2>1
<1> QED BY <1>4, <1>5, <1>6

LEMMA SidesUpdate ==
  ASSUME IInv, HandInv, SideInv, VersionsAreOld, VersionsAreOld', TextsAreTyped, NEW s \in saves,
         UpdateDraft(s), [Next]_vars
  PROVE  SideInv'
<1> TypeOK /\ DraftsAreReal /\ TokensInOrder BY DEF IInv
<1> TypeOK' BY StepTyped
<1> SUFFICES ASSUME OneSide, DraftInHand PROVE OneSide'
  BY DEF SideInv, HandInv, UpdateDraft
<1>1. UNCHANGED <<draft, refresh, selection, view, pending, queue, loads, run>>
  BY DEF UpdateDraft, shell, editor, waiting, handlers
<1>2. PICK t : /\ SameRequest(t, s) /\ saves' = (saves \ {s}) \cup {t} /\ s.answer = NoAnswer
               /\ \/ t.answer = Failure /\ stored' = stored
                  \/ /\ t.answer = SaveAnswer(s)
                     /\ stored' = [stored EXCEPT ![s.workflow] = RowAfter(s)]
  BY AnswersAreOfRequests
<1>3. t.answer # NoAnswer /\ t.answer.kind \in {"saved", "conflict", "error"}
  BY <1>2 DEF SaveAnswer, Failure, NoAnswer
<1>4. \A w \in Workflows : Unseen(w) => Unseen(w)' \/ stored'[w].foreign = 0
  BY <1>2, <1>3, UnseenIsSafe
<1>5. \A w \in Workflows : stored'[w].foreign \in {stored[w].foreign, 0}
  <2>1. CASE stored' = stored BY <2>1
  <2>2. CASE stored' = [stored EXCEPT ![s.workflow] = RowAfter(s)]
    BY <2>2, RowsAfterSaves
  <2> QED BY <1>2, <2>1, <2>2
<1>6. t.answer.kind = "saved" => /\ stored' = [stored EXCEPT ![s.workflow] = RowAfter(s)] /\ ~Refused(s)
                                 /\ t.answer.draft.version = stored'[s.workflow].version
  BY <1>2, RowsAfterSaves DEF SaveAnswer, Failure
<1>7. \A u \in saves : SameRequest(u, u) BY DEF SameRequest
<1>8. ASSUME draft # NoDraft, ~refresh PROVE SideTaken(stored[draft.workflow].foreign)'
  <2>1. PICK f \in Nat : /\ f = stored[draft.workflow].foreign
                         /\ draft.workflow \in Workflows /\ draft.version \in Nat
    BY <1>8, VersionsAreNumbers DEF DraftsAreReal, Real
  <2>2. SideTaken(f)
    BY <1>8, <2>1 DEF OneSide
  <2>3. s.selection = selection => s.workflow = draft.workflow
    BY <1>8 DEF DraftInHand
  <2>4. CASE stored'[draft.workflow].foreign = 0
    <3>1. \A u \in saves' : u.version >= 0 /\ u.answer.draft.version >= 0
      <4>1. \A u \in saves' : u.version \in Nat /\ u.answer \in Answers
        BY DEF TypeOK, Saves
      <4>2. \A a \in Answers : a.draft.version \in Nat
        BY DEF Answers, Drafts
      <4> QED BY <4>1, <4>2
    <3>2. SawIt(0)'
      BY <1>1, <3>1, VersionsAreNumbers DEF SawIt
    <3> QED BY <1>1, <2>1, <2>4, <3>2 DEF SideTaken
  <2>5. CASE stored'[draft.workflow].foreign = f /\ draft.version >= f /\ SawIt(f)
    <3>1. t.selection = selection /\ t.answer.kind = "saved" => t.answer.draft.version >= f
      <4>1. stored'[draft.workflow].version \in Nat /\ f =< stored'[draft.workflow].version
        BY <2>1, <2>5 DEF VersionsAreOld, TypeOK, Rows
      <4> QED BY <1>2, <1>6, <2>3, <4>1 DEF SameRequest
    <3>2. t.selection = selection => t.version >= f
      BY <1>2, <2>5 DEF SawIt, SameRequest
    <3>3. SawIt(f)'
      BY <1>1, <1>2, <2>5, <3>1, <3>2, VersionsAreNumbers DEF SawIt
    <3> QED BY <1>1, <2>1, <2>5, <3>3 DEF SideTaken
  <2>6. CASE /\ stored'[draft.workflow].foreign = f /\ stored'[draft.workflow].foreign # 0
             /\ draft.version < f /\ MissedIt(f) /\ Unseen(draft.workflow)
    <3>1. Unseen(draft.workflow)'
      BY <1>1, <1>4, <2>1, <2>6
    <3>2. t.selection = selection => t.answer.kind # "saved"
      <4>1. s.workflow = draft.workflow /\ stored' = [stored EXCEPT ![s.workflow] = RowAfter(s)]
            => Refused(s)
        BY <1>2, <1>3, <2>1, <2>6, UnseenIsSafe
      <4> QED BY <1>2, <1>6, <2>3, <4>1 DEF SameRequest
    <3>3. MissedIt(f)'
      BY <1>1, <1>2, <1>7, <2>6, <3>2, MissedStays
    <3> QED BY <1>1, <2>1, <2>6, <3>1, <3>3 DEF SideTaken
  <2> QED BY <1>5, <2>1, <2>2, <2>4, <2>5, <2>6 DEF SideTaken
<1>9. ASSUME draft = NoDraft, NEW l \in loads, l.selection = selection, l.answer.kind = "draft"
      PROVE  LoadedSide(l)'
  <2>1. LoadedSide(l) /\ l.workflow \in Workflows /\ l.answer.draft.version \in Nat
    BY <1>9, VersionsAreNumbers DEF OneSide
  <2>2. stored'[l.workflow].foreign = 0 => LoadedSide(l)'
    BY <2>1 DEF LoadedSide
  <2> QED BY <1>4, <1>5, <2>1, <2>2 DEF LoadedSide
<1> QED BY <1>1, <1>8, <1>9 DEF OneSide

\* The answer of a save is of the side of the save; a conflict ends the selection's saves.
LEMMA SidesSaved ==
  ASSUME IInv, SideInv, NoSaveAfterConflict, NEW s \in saves, DraftSaved(s)
  PROVE  SideInv'
<1> TypeOK /\ DraftsAreReal /\ TokensInOrder BY DEF IInv
<1>1. UNCHANGED <<stored, selection, pending, queue, loads, run, ran>> /\ saves' = saves \ {s}
  BY DEF DraftSaved, waiting, handlers
<1>2. CASE ~(s.answer.kind # "error" /\ IsCurrent(s))
  <2>1. UNCHANGED <<draft, refresh, view>>
    BY <1>2 DEF DraftSaved
  <2>2. \A t \in saves : SameRequest(t, t) BY DEF SameRequest
  <2> QED BY <1>1, <2>1, <2>2, SidesStay
<1>3. CASE s.answer.kind # "error" /\ IsCurrent(s)
  <2> SUFFICES ASSUME OneSide PROVE OneSide'
    BY <1>1 DEF SideInv
  <2>1. /\ draft' = s.answer.draft /\ draft # NoDraft /\ s.selection = selection
        /\ s.workflow = draft.workflow /\ refresh' = (s.answer.kind = "conflict")
    BY <1>3 DEF DraftSaved, IsCurrent
  <2>2. ~refresh
    BY <2>1 DEF NoSaveAfterConflict
  <2>3. s.answer.kind \in {"saved", "conflict"}
    BY <1>3 DEF DraftSaved, DraftsAreReal
  <2>4. draft'.workflow = draft.workflow /\ draft' # NoDraft /\ draft.workflow \in Workflows
    BY <2>1, <2>3, ShellAssumption DEF DraftsAreReal, Real, NoDraft
  <2>5. ASSUME ~refresh' PROVE SideTaken(stored[draft.workflow].foreign)'
    <3>1. s.answer.kind = "saved"
      BY <2>1, <2>3, <2>5
    <3>2. PICK f \in Nat : f = stored[draft.workflow].foreign
      BY <2>4, VersionsAreNumbers
    <3>3. SideTaken(f)
      BY <2>1, <2>2, <3>2 DEF OneSide
    <3>4. view'.seen = view.seen \/ view'.seen = s.answer.draft.version
      BY DEF DraftSaved, TypeOK, Views
    <3>5. \A t \in saves : SameRequest(t, t) BY DEF SameRequest
    <3>6. CASE draft.version >= f /\ SawIt(f)
      <4>1. s.answer.draft.version >= f
        BY <2>1, <3>1, <3>6 DEF SawIt
      <4>2. SawIt(f)'
        BY <1>1, <3>4, <3>5, <3>6, <4>1, SawStays
      <4> QED BY <1>1, <2>1, <2>4, <3>2, <4>1, <4>2 DEF SideTaken
    <3>7. CASE draft.version < f /\ MissedIt(f) /\ Unseen(draft.workflow)
      <4>1. s.answer.draft.version < f
        BY <2>1, <3>1, <3>7 DEF MissedIt
      <4>2. MissedIt(f)'
        BY <1>1, <3>5, <3>7, MissedStays
      <4>3. Unseen(draft.workflow)'
        BY <1>1, <2>4, <3>7 DEF Unseen
      <4> QED BY <1>1, <2>1, <2>4, <3>2, <4>1, <4>2, <4>3 DEF SideTaken
    <3> QED BY <3>3, <3>6, <3>7 DEF SideTaken
  <2> QED BY <2>4, <2>5 DEF OneSide
<1> QED BY <1>2, <1>3

\* A Run that begins has the row it is of; what it is given is as new.
LEMMA SidesRunBegins ==
  ASSUME IInv, HandInv, SideInv, VersionsAreOld, VersionsAreOld', RunBegins, [Next]_vars
  PROVE  SideInv'
<1> TypeOK /\ DraftsAreReal /\ SelectionIsKept BY DEF IInv
<1> VersionsGrow BY StoredGrows
<1> SUFFICES ASSUME OneSide, DraftInHand, ran # "stray" PROVE OneSide'
  BY DEF SideInv, HandInv, RunBegins
<1>1. UNCHANGED <<draft, refresh, selection, view, pending, queue, loads, saves>>
  BY DEF RunBegins, shell, editor, waiting
<1>2. \A t \in saves : SameRequest(t, t) BY DEF SameRequest
<1>3. \A w \in Workflows : Unseen(w) => Unseen(w)'
  BY <1>1, <1>2, RowsAfterBegins, UnseenStays DEF RowsStay
<1>4. ASSUME draft # NoDraft, ~refresh PROVE SideTaken(stored[draft.workflow].foreign)'
  <2>1. PICK f \in Nat : /\ f = stored[draft.workflow].foreign /\ stored'[draft.workflow].foreign = f
                         /\ draft.workflow \in Workflows
    BY <1>4, VersionsAreNumbers, RowsAfterBegins DEF DraftsAreReal, Real, RowsStay
  <2>2. SideTaken(f)
    BY <1>4, <2>1 DEF OneSide
  <2>3. run.from = selection => run.draft.workflow = draft.workflow
    BY <1>4, RowsAfterBegins DEF SelectionIsKept
  <2>4. CASE draft.version >= f /\ SawIt(f)
    <3>1. run'.from = selection => run'.draft.version >= f
      <4>1. run'.from = selection => run'.draft.version = stored'[draft.workflow].version
        BY <2>3, RowsAfterBegins
      <4>2. f =< stored'[draft.workflow].version /\ stored'[draft.workflow].version \in Nat
        BY <2>1 DEF VersionsAreOld, VersionsGrow
      <4> QED BY <4>1, <4>2
    <3>2. SawIt(f)'
      BY <1>1, <1>2, <2>4, <3>1, SawStays
    <3> QED BY <1>1, <2>1, <2>4, <3>2 DEF SideTaken
  <2>5. CASE draft.version < f /\ MissedIt(f) /\ Unseen(draft.workflow)
    <3>1. run.from # selection
      <4>1. run.from = selection => run.draft.version = stored[draft.workflow].version
                                    /\ run.draft.version < f
        BY <2>3, <2>5, RowsAfterBegins DEF MissedIt
      <4>2. f =< stored[draft.workflow].version /\ stored[draft.workflow].version \in Nat
        BY <2>1, VersionsAreNumbers DEF VersionsAreOld
      <4> QED BY <4>1, <4>2
    <3>2. MissedIt(f)'
      BY <1>1, <1>2, <2>5, <3>1, MissedStays, RowsAfterBegins
    <3> QED BY <1>1, <1>3, <2>1, <2>5, <3>2 DEF SideTaken
  <2> QED BY <2>2, <2>4, <2>5 DEF SideTaken
<1>5. ASSUME draft = NoDraft, NEW l \in loads, l.selection = selection, l.answer.kind = "draft"
      PROVE  LoadedSide(l)'
  <2>1. LoadedSide(l) /\ l.workflow \in Workflows
    BY <1>5, VersionsAreNumbers DEF OneSide
  <2> QED BY <1>3, <2>1, RowsAfterBegins DEF LoadedSide, RowsStay
<1> QED BY <1>1, <1>4, <1>5 DEF OneSide

LEMMA SidesStartRun ==
  ASSUME IInv, SideInv, StartRun
  PROVE  SideInv'
<1> TypeOK /\ DraftsAreReal BY DEF IInv
<1>1. UNCHANGED <<stored, draft, refresh, selection, ran, view, pending, queue, loads, saves>>
  BY DEF StartRun, shell, editor, waiting
<1>2. \A t \in saves : SameRequest(t, t) BY DEF SameRequest
<1>3. run'.at \in {"calling", "begun"} => run'.draft = draft
  BY DEF StartRun, Idle, TypeOK, Handlers
<1> QED BY <1>1, <1>2, <1>3, SidesStay

\* The answer of the selection's own Run is of the side of the Run.
LEMMA SidesAnswered ==
  ASSUME IInv, HandInv, SideInv, RunAnswered
  PROVE  SideInv'
<1> TypeOK /\ DraftsAreReal /\ SelectionIsKept BY DEF IInv
<1>1. /\ UNCHANGED <<stored, selection, refresh, pending, queue, loads, saves>> /\ draft' = run.draft
      /\ view' = Fresh(run.draft) /\ run' = Idle /\ run.at = "begun"
      /\ ran' # "stray" => ran # "stray" /\ run.from = selection
  BY DEF RunAnswered, waiting
<1> SUFFICES ASSUME OneSide, DraftInHand, ran # "stray", run.from = selection PROVE OneSide'
  BY <1>1 DEF SideInv, HandInv
<1>2. draft # NoDraft
  BY <1>1 DEF DraftInHand
<1>3. /\ draft'.workflow = draft.workflow /\ draft' # NoDraft /\ draft.workflow \in Workflows
  BY <1>1, <1>2, ShellAssumption DEF SelectionIsKept, DraftsAreReal, Real, NoDraft
<1>4. view'.seen = run.draft.version /\ run'.at = "idle"
  BY <1>1 DEF Fresh, Idle
<1>5. ASSUME ~refresh PROVE SideTaken(stored[draft.workflow].foreign)'
  <2>1. PICK f \in Nat : f = stored[draft.workflow].foreign
    BY <1>3, VersionsAreNumbers
  <2>2. SideTaken(f)
    BY <1>2, <1>5, <2>1 DEF OneSide
  <2>3. \A t \in saves : SameRequest(t, t) BY DEF SameRequest
  <2>4. CASE draft.version >= f /\ SawIt(f)
    <3>1. run.draft.version >= f
      BY <1>1, <2>4 DEF SawIt
    <3>2. SawIt(f)'
      BY <1>1, <1>4, <2>3, <2>4, <3>1, SawStays
    <3> QED BY <1>1, <1>3, <2>1, <3>1, <3>2 DEF SideTaken
  <2>5. CASE draft.version < f /\ MissedIt(f) /\ Unseen(draft.workflow)
    <3>1. run.draft.version < f
      BY <1>1, <2>5 DEF MissedIt
    <3>2. MissedIt(f)'
      BY <1>1, <1>4, <2>3, <2>5, MissedStays
    <3>3. Unseen(draft.workflow)'
      BY <1>1, <1>3, <2>5 DEF Unseen
    <3> QED BY <1>1, <1>3, <2>1, <3>1, <3>2, <3>3 DEF SideTaken
  <2> QED BY <2>2, <2>4, <2>5 DEF SideTaken
<1> QED BY <1>1, <1>3, <1>5 DEF OneSide

LEMMA StepKeepsSides ==
  ASSUME IInv, HandInv, SideInv, VersionsAreOld, TextsAreTyped, NoSaveAfterConflict, [Next]_vars
  PROVE  SideInv'
<1> TypeOK /\ DraftsAreReal BY DEF IInv
<1> VersionsAreOld' BY StepKeepsVersions
<1>0. \A t \in saves : SameRequest(t, t) BY DEF SameRequest
<1>1. CASE User
  <2>1. ASSUME NEW x \in Texts \cup {Broken}, Type(x) PROVE SideInv'
    <3>1. /\ UNCHANGED <<stored, draft, refresh, selection, ran, queue, loads, saves, run>>
          /\ pending'.seen = view.seen
      BY <2>1 DEF Type, waiting, handlers
    <3>2. view'.seen = view.seen
      BY <2>1 DEF Type, TypeOK, Views
    <3> QED BY <1>0, <3>1, <3>2, SidesStay
  <2>2. CASE EditNodes
    BY <2>2, SidesFlush DEF EditNodes
  <2>3. CASE PressRun
    <3>1. run'.at = "flushing" BY <2>3 DEF PressRun, Handler
    <3> QED BY <2>3, <3>1, SidesFlush DEF PressRun
  <2> QED BY <1>1, <2>1, <2>2, <2>3, SidesSelect, SidesAnother DEF User
<1>2. CASE Application
  BY <1>2, SidesGetDraft, SidesUpdate, SidesRunBegins DEF Application
<1>3. CASE AutosaveFires
  <2>1. UNCHANGED <<stored, draft, refresh, selection, ran, view, loads, saves, run>>
    BY <1>3 DEF AutosaveFires, handlers
  <2>2. CASE FlushDraftEdit
    BY <2>1, <2>2, SidesFlush
  <2>3. CASE UNCHANGED <<pending, edit, waiting>>
    BY <1>0, <2>1, <2>3, SidesStay DEF waiting
  <2> QED BY <1>3, <2>2, <2>3 DEF AutosaveFires
<1>4. CASE EditNodesGoesOn
  <2>1. UNCHANGED <<stored, draft, refresh, selection, ran, view, pending, loads, saves, run>>
    BY <1>4 DEF EditNodesGoesOn, editor
  <2>2. \A i \in DOMAIN queue' : queue'[i].kind = "text" => \E j \in DOMAIN queue : queue'[i] = queue[j]
    <3>1. CASE draft = NoDraft \/ refresh
      BY <1>4, <3>1 DEF EditNodesGoesOn, waiting
    <3>2. CASE ~(draft = NoDraft \/ refresh)
      <4>1. edit + 1 \in Nat /\ draft.workflow \in Workflows
        BY <3>2 DEF TypeOK, DraftsAreReal, Real
      <4>2. PICK e \in QueuedEdits : e.kind = "nodes" /\ queue' = Append(queue, e)
        BY <1>4, <3>2, <4>1, StructuredFits DEF Structured, EditNodesGoesOn
      <4> QED BY <4>2, QueueGrows DEF TypeOK
    <3> QED BY <3>1, <3>2
  <2> QED BY <1>0, <2>1, <2>2, SidesStay
<1>5. CASE RunWaitsForQueue
  <2>1. run'.at = "draining" BY <1>5 DEF RunWaitsForQueue, TypeOK, Handlers
  <2> QED BY <1>0, <1>5, <2>1, SidesStay DEF RunWaitsForQueue, shell, editor, waiting
<1>6. CASE RunFails
  BY <1>0, <1>6, SidesStay DEF RunFails, Idle, shell, editor, waiting
<1>7. CASE UNCHANGED vars
  BY <1>0, <1>7, SidesStay DEF vars, shell, editor, waiting, handlers
<1> QED BY <1>1, <1>2, <1>3, <1>4, <1>5, <1>6, <1>7, SidesLoaded, SidesSaved, SidesSend, SidesStartRun,
           SidesAnswered DEF Next, Shell

\* Steps that send nothing, and after which no row has seen a newer foreign write.
LEMMA InformedStays ==
  ASSUME TypeOK, SavesAreInformed,
         \A t \in saves' : \E s \in saves :
           SameRequest(t, s) /\ (t.answer = NoAnswer => s.answer = NoAnswer),
         \A w \in Workflows : stored'[w].foreign \in {stored[w].foreign, 0}
  PROVE  SavesAreInformed'
<1> SUFFICES ASSUME NEW t \in saves', ~t.stray
             PROVE  /\ t.token = t.workflow
                    /\ t.answer = NoAnswer /\ t.version >= stored'[t.workflow].foreign
                       => t.seen >= stored'[t.workflow].foreign
  BY DEF SavesAreInformed
<1>1. PICK s \in saves : SameRequest(t, s) /\ (t.answer = NoAnswer => s.answer = NoAnswer)
  OBVIOUS
<1>2. s.workflow \in Workflows /\ s.seen \in Nat
  BY VersionsAreNumbers
<1>3. t.token = t.workflow /\ t.workflow = s.workflow /\ t.version = s.version /\ t.seen = s.seen
  BY <1>1 DEF SavesAreInformed, SameRequest
<1>4. CASE stored'[s.workflow].foreign = 0
  BY <1>2, <1>3, <1>4
<1>5. CASE stored'[s.workflow].foreign = stored[s.workflow].foreign
  BY <1>1, <1>3, <1>5 DEF SavesAreInformed, SameRequest
<1> QED BY <1>2, <1>3, <1>4, <1>5

LEMMA InformedSend ==
  ASSUME IInv, HandInv, SideInv, SavesAreInformed, SendSave
  PROVE  SavesAreInformed'
<1> TypeOK /\ DraftsAreReal BY DEF IInv
<1>1. stored' = stored
  BY DEF SendSave
<1>2. ASSUME ~refresh, ran # "stray"
      PROVE  /\ queue[1].workflow = draft.workflow
             /\ draft.version >= stored[draft.workflow].foreign
                => (queue[1].kind = "text" => queue[1].seen >= stored[draft.workflow].foreign)
  <2>1. draft # NoDraft /\ 1 \in DOMAIN queue /\ draft.workflow \in Workflows
    BY RequestFacts DEF DraftsAreReal, Real
  <2>2. SideTaken(stored[draft.workflow].foreign)
    BY <1>2, <2>1 DEF SideInv, OneSide
  <2>3. draft.version \in Nat /\ stored[draft.workflow].foreign \in Nat
    BY <2>1, VersionsAreNumbers
  <2> QED BY <1>2, <2>1, <2>2, <2>3 DEF HandInv, DraftInHand, SideTaken, SawIt
<1>3. PICK r : r = Request(queue[1])
  OBVIOUS
<1>5. /\ r.workflow = queue[1].workflow /\ r.token = draft.workflow /\ r.version = draft.version
      /\ r.seen = IF queue[1].kind = "text" THEN queue[1].seen ELSE draft.version
  BY <1>3 DEF Request
<1>6. ~r.stray => ran # "stray"
  BY <1>3, Zenon DEF Request
<1>4. saves' = saves \/ (~refresh /\ saves' = saves \cup {r})
  BY <1>3, RequestFacts
<1>7. ~refresh /\ ~r.stray =>
        /\ r.token = r.workflow
        /\ r.version >= stored[r.workflow].foreign => r.seen >= stored[r.workflow].foreign
  BY <1>2, <1>5, <1>6
<1> QED BY <1>1, <1>4, <1>7 DEF SavesAreInformed

LEMMA StepKeepsInformed ==
  ASSUME IInv, HandInv, SideInv, VersionsAreOld, SavesAreInformed, [Next]_vars
  PROVE  SavesAreInformed'
<1> TypeOK /\ DraftsAreReal BY DEF IInv
<1>0. \A t \in saves : SameRequest(t, t) BY DEF SameRequest
<1>1. ASSUME NEW w \in Workflows, AnotherWindowSaves(w) PROVE SavesAreInformed'
  <2>1. saves' = saves
    BY <1>1 DEF AnotherWindowSaves
  <2>2. \A v \in Workflows : v # w => stored'[v] = stored[v]
    BY <1>1, RowsAfterOthers
  <2>3. \A s \in saves : s.token = w => ~(s.version >= stored'[w].foreign)
    <3>1. stored'[w].foreign = stored[w].version + 1 /\ stored[w].version \in Nat
      BY <1>1, RowsAfterOthers, VersionsAreNumbers
    <3> QED BY <3>1, VersionsAreNumbers DEF VersionsAreOld
  <2> QED BY <2>1, <2>2, <2>3, VersionsAreNumbers DEF SavesAreInformed
<1>2. ASSUME NEW s \in saves, UpdateDraft(s) PROVE SavesAreInformed'
  <2>1. PICK t : /\ SameRequest(t, s) /\ saves' = (saves \ {s}) \cup {t} /\ s.answer = NoAnswer
                 /\ \/ stored' = stored
                    \/ stored' = [stored EXCEPT ![s.workflow] = RowAfter(s)]
    BY <1>2, AnswersAreOfRequests
  <2>2. \A w \in Workflows : stored'[w].foreign \in {stored[w].foreign, 0}
    <3>1. CASE stored' = stored BY <3>1
    <3>2. CASE stored' = [stored EXCEPT ![s.workflow] = RowAfter(s)]
      BY <3>2, RowsAfterSaves
    <3> QED BY <2>1, <3>1, <3>2
  <2> QED BY <1>0, <2>1, <2>2, InformedStays
<1>3. CASE RunBegins
  <2>1. saves' = saves /\ RowsStay
    BY <1>3, RowsAfterBegins DEF RunBegins
  <2> QED BY <1>0, <2>1, InformedStays DEF RowsStay
<1>4. CASE stored' = stored /\ saves' \subseteq saves
  BY <1>0, <1>4, InformedStays
<1>5. CASE User
  BY <1>1, <1>4, <1>5 DEF User, SelectWorkflow, Type, EditNodes, PressRun
<1>6. CASE Application
  BY <1>2, <1>3, <1>4, <1>6 DEF Application, GetDraft
<1>7. CASE Shell
  BY <1>4, <1>7, InformedSend DEF Shell, DraftLoaded, DraftSaved, AutosaveFires, EditNodesGoesOn,
     RunWaitsForQueue, StartRun, RunFails, RunAnswered
<1>8. CASE UNCHANGED vars
  BY <1>4, <1>8 DEF vars
<1> QED BY <1>5, <1>6, <1>7, <1>8 DEF Next

PageInv ==
  /\ HandInv /\ SideInv
  /\ VersionsAreOld /\ TextsAreTyped /\ NoSaveAfterConflict /\ SavesAreInformed

LEMMA InitPage == Init => PageInv
<1> SUFFICES ASSUME Init PROVE PageInv
  OBVIOUS
<1>1. HandInv /\ NoSaveAfterConflict
  BY InitHand
<1>2. SideInv /\ SavesAreInformed
  BY DEF Init, SideInv, OneSide, SavesAreInformed
<1>3. VersionsAreOld
  BY DEF Init, VersionsAreOld, Idle
<1>4. TextsAreTyped
  BY ShellAssumption DEF Init, TextsAreTyped, NoEdit, NoContent, Content
<1> QED BY <1>1, <1>2, <1>3, <1>4 DEF PageInv

\* A save that changes the row had its version, so it is as new as what another window wrote.
LEMMA WritersHaveSeen ==
  ASSUME IInv, PageInv, [Next]_vars, NEW s \in saves, ~s.stray, Written(s),
         stored'[s.workflow] # stored[s.workflow]
  PROVE  s.seen >= stored[s.workflow].foreign
<1> TypeOK /\ DraftsAreReal BY DEF IInv
<1>1. UpdateDraft(s)
  <2>1. ASSUME NEW t \in saves, UpdateDraft(t) PROVE t = s
    BY <2>1, AnswersAreOfRequests DEF Written
  <2>2. ASSUME NEW t \in saves, DraftSaved(t) PROVE FALSE
    BY <2>2 DEF DraftSaved
  <2>3. saves' # saves /\ stored' # stored
    BY DEF Written
  <2> QED BY <2>1, <2>2, <2>3 DEF Next, User, Application, Shell, SelectWorkflow, AnotherWindowSaves, Type,
             EditNodes, PressRun, GetDraft, RunBegins, DraftLoaded, AutosaveFires, SendSave,
             EditNodesGoesOn, RunWaitsForQueue, StartRun, RunFails, RunAnswered, vars
<1>2. stored' = [stored EXCEPT ![s.workflow] = RowAfter(s)]
  BY <1>1, AnswersAreOfRequests
<1>3. s.version = stored[s.workflow].version
  BY <1>2, RowsAfterSaves
<1>4. s.workflow \in Workflows /\ s.version >= stored[s.workflow].foreign
  BY <1>3, VersionsAreNumbers DEF PageInv, VersionsAreOld
<1> QED BY <1>4 DEF PageInv, SavesAreInformed, Written

\* OldPageNeverOverwrites, for every set of workflows and texts and any number of acts.
THEOREM OldPagesAreRefused == Spec => OldPageNeverOverwrites
<1>1. IInv /\ PageInv /\ [Next]_vars => PageInv'
  BY StepKeepsHand, StepKeepsSides, StepKeepsVersions, StepKeepsTexts, StepKeepsNoSave, StepKeepsInformed
  DEF PageInv
<1>2. IInv /\ PageInv /\ [Next]_vars =>
        [ \A s \in saves :
            ~s.stray /\ Written(s) /\ stored'[s.workflow] # stored[s.workflow]
            => s.seen >= stored[s.workflow].foreign ]_vars
  BY WritersHaveSeen
<1> QED BY <1>1, <1>2, InitPage, InductiveInvariant, PTL DEF Spec, OldPageNeverOverwrites
=============================================================================
