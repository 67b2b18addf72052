--------------------------- MODULE WorkflowHistory ---------------------------
(***************************************************************************)
(* `workflow run` and `workflow history` over the SQLite store             *)
(* (cmd/workflow, internal/history, internal/execution/engine.go).  Each   *)
(* process imports the definitions it was built with, pins the executors   *)
(* of its workflow, imports the workflow and records its execution; several *)
(* processes, of older and newer programs, share the store, and a reader   *)
(* looks at a Run in several queries.  A process that crashes takes no      *)
(* further step: no fairness is assumed, and nothing closes its Run.       *)
(***************************************************************************)
EXTENDS HistorySchema, FiniteSetsExt

CONSTANTS
  Processes,      \* each runs one workflow file once; its Run has the name of the process
  Seeds,          \* Seeds[p][d]: the executor versions of definition d that p is built with
  Plan,           \* Plan[p][n]: the definition of a node and the executor it pins, 0 for none
  StoredVersions, \* user_version of the database at first
  Prefixes,       \* what a user types for a Run: the Runs whose ids start like that
  MaxRounds       \* bound: MaxRounds[p] rounds of a node of p

ASSUME HistoryAssumption ==
  /\ IsFiniteSet(Processes) /\ MaxRounds \in [Processes -> Nat]
  /\ \A p \in Processes : \A n \in DOMAIN Plan[p] : Plan[p][n].def \in DOMAIN Seeds[p]
  /\ \A prefix \in Prefixes : prefix \subseteq Processes

VARIABLES
  version, \* user_version of the database
  db,      \* its tables
  job,     \* job[p]: where a process stands, the rows of the nodes that it has pinned, and
           \* whether its execution is due to be recorded or was "stored" as it is
  exec,    \* exec[p]: the WorkflowExecution of its engine
  view     \* what the history command has read

vars == <<version, db, job, exec, view>>

Nodes(p) == DOMAIN Plan[p]

NoID == <<>>  \* NodeRun.ID is empty

\* A NodeRun: the id it will be stored under, or NoID.
Entry(id, round, status) == [id |-> id, round |-> round, status |-> status]

Current(p, n) == exec[p].nodes[n][Len(exec[p].nodes[n])]

NoView == [of |-> {}, at |-> "none", read |-> 0, status |-> None, finished |-> FALSE, nodeRuns |-> {}]

Init ==
  /\ version \in StoredVersions
  /\ db = EmptyTables
  /\ job = [p \in Processes |-> [at |-> "idle", rows |-> {}, record |-> "none"]]
  /\ exec = [p \in Processes |-> [status |-> "Running", finished |-> FALSE,
               nodes |-> [n \in Nodes(p) |-> <<Entry(NoID, 0, "Pending")>>]]]
  /\ view = NoView

Goes(p, at) == job' = [job EXCEPT ![p].at = at]
-----------------------------------------------------------------------------
(* Importing definitions and the workflow.                                 *)

\* stableID: the id of the row that has the key already, or a fresh one.
StableID(twins, row) == IF twins = {} THEN row.id ELSE (CHOOSE h \in twins : TRUE).id

Twins(have, row, Key(_)) == {h \in have : Key(h) = Key(row)}

\* ON CONFLICT (key) DO UPDATE
Upsert(have, rows, Key(_)) ==
  {h \in have : \A row \in rows : Key(row) # Key(h)}
    \cup {[row EXCEPT !.id = StableID(Twins(have, row, Key), row)] : row \in rows}

DefinitionID(tables, name) == (CHOOSE d \in tables.defs : d.name = name).id

ExecutorID(tables, name, v) ==
  (CHOOSE e \in tables.executors : e.def = DefinitionID(tables, name) /\ e.version = v).id

\* The names, texts and ports of a program's definitions are the program's: body.
UpsertNodeType(tables, p) ==
  Upsert(tables.types, {[id |-> <<p, "type">>, name |-> "automation", body |-> p]},
         LAMBDA row : row.name)

UpsertNodeDef(tables, p) ==
  Upsert(tables.defs,
         {[id |-> <<p, d>>, name |-> d, type |-> "automation", body |-> p] : d \in DOMAIN Seeds[p]},
         LAMBDA row : row.name)

UpsertNodeExec(tables, p) ==
  Upsert(tables.executors,
         UNION {{[id |-> <<p, d, v>>, def |-> DefinitionID(tables, d), version |-> v, body |-> p] :
                   v \in Seeds[p][d]} : d \in DOMAIN Seeds[p]},
         LAMBDA row : <<row.def, row.version>>)

\* definitionRows and ImportDefinitions: types, definitions, executors, in one transaction.
WithDefinitions(p) ==
  LET one == [db EXCEPT !.types = UpsertNodeType(db, p)]
      two == [one EXCEPT !.defs = UpsertNodeDef(one, p)]
  IN  [two EXCEPT !.executors = UpsertNodeExec(two, p)]

\* runWorkflow up to here: the store is opened and migrated, the definitions imported.
ImportDefinitions(p) ==
  /\ job[p].at = "idle"
  /\ version' = Migrated(version)
  /\ db' = WithDefinitions(p)
  /\ Goes(p, "pinning")
  /\ UNCHANGED <<exec, view>>

\* ExecutorVersions
StoredExecutors(d) == {e.version : e \in {e \in db.executors : e.def = DefinitionID(db, d)}}

\* resolveExecutor: the pinned executor, or the newest that program or database knows.
ResolvedExecutor(p, n) ==
  LET spec == Plan[p][n] IN
  IF spec.executor # 0 THEN spec.executor ELSE Max(Seeds[p][spec.def] \cup StoredExecutors(spec.def))

PinnedNodes(p) == {row.node : row \in job[p].rows}

\* workflowRows, for one node: a version that the program does not have is an error.
PinNode(p, n) ==
  LET spec == Plan[p][n]
      v == ResolvedExecutor(p, n)
      row == [id |-> <<p, "instance", n>>, workflow |-> None, node |-> n, body |-> p,
              def |-> DefinitionID(db, spec.def), executor |-> ExecutorID(db, spec.def, v)]
  IN  /\ job[p].at = "pinning"
      /\ n \notin PinnedNodes(p)
      /\ IF v \in Seeds[p][spec.def]
           THEN job' = [job EXCEPT ![p].rows = @ \cup {row}]
           ELSE Goes(p, "failed")
      /\ UNCHANGED <<version, db, exec, view>>

\* Seeded fault: instances that the workflow no longer has stay.
StaleInstancesKept(tables, id, p) == {}

\* deleteStaleNodeInstances
StaleInstances(tables, id, p) ==
  {i \in tables.instances : i.workflow = id /\ i.node \notin Nodes(p)}

WorkflowKey(row) == <<row.name, row.version>>

UpsertWorkflow(tables, workflow) == Upsert(tables.workflows, {workflow}, WorkflowKey)

UpsertNodeInstances(tables, instances) ==
  Upsert(tables.instances, instances, LAMBDA row : <<row.workflow, row.node>>)

\* upsertWorkflow, upsertNodeInstance and deleteStaleNodeInstances, in one transaction.
WithWorkflow(p) ==
  LET workflow == [id |-> <<p, "workflow">>, name |-> "ship", version |-> "", body |-> p]
      id == StableID(Twins(db.workflows, workflow, WorkflowKey), workflow)
      instances == {[row EXCEPT !.workflow = id] : row \in job[p].rows}
      one == [db EXCEPT !.workflows = UpsertWorkflow(db, workflow),
                        !.instances = UpsertNodeInstances(db, instances)]
  IN  [one EXCEPT !.instances = @ \ StaleInstances(one, id, p)]

\* ImportWorkflow; the transaction fails when a reference does not hold.
ImportWorkflow(p) ==
  /\ job[p].at = "pinning"
  /\ PinnedNodes(p) = Nodes(p)
  /\ IF ConstraintsHold(WithWorkflow(p))
       THEN /\ db' = WithWorkflow(p)
            /\ job' = [job EXCEPT ![p].at = "running", ![p].record = "due"]
       ELSE /\ Goes(p, "failed")
            /\ UNCHANGED db
  /\ UNCHANGED <<version, exec, view>>
-----------------------------------------------------------------------------
(* The execution, as far as it is recorded.                                *)

\* The transitions of a node run.
Transitions ==
  [Pending |-> {"Ready", "Skipped"}, Ready |-> {"Running", "WaitingHuman", "Skipped"},
   WaitingHuman |-> {"Running"}, Running |-> {"Succeeded", "Failed"},
   Succeeded |-> {"Ready"}, Failed |-> {"Ready"}, Skipped |-> {}, Stopped |-> {}]

\* Every change of the engine is followed by persist, on the same goroutine.
Changes(p) ==
  /\ job[p].at = "running"
  /\ job[p].record # "due"
  /\ ~ exec[p].finished
  /\ job' = [job EXCEPT ![p].record = "due"]
  /\ UNCHANGED <<version, db, view>>

\* Seeded fault: the first round gets an id of its own.
PreparedUnderNewID(p, n) ==
  LET before == Current(p, n)
      fresh == Entry(<<p, n, before.round + 1>>, before.round + 1, "Ready")
  IN  IF before.round = 0 THEN <<fresh>> ELSE Append(exec[p].nodes[n], fresh)

\* prepareRun: the first round takes the place of the Pending entry and keeps its id, a later
\* one is added.
Prepared(p, n) ==
  LET history == exec[p].nodes[n]  before == Current(p, n)
      fresh == Entry(<<p, n, before.round + 1>>, before.round + 1, "Ready")
  IN  IF before.round = 0
        THEN <<IF before.id = NoID THEN fresh ELSE [fresh EXCEPT !.id = before.id]>>
        ELSE Append(history, fresh)

PrepareRun(p, n) ==
  /\ Changes(p)
  /\ exec[p].status = "Running"
  /\ Current(p, n).round < MaxRounds[p]
  /\ "Ready" \in Transitions[Current(p, n).status]
  /\ exec' = [exec EXCEPT ![p].nodes[n] = Prepared(p, n)]

\* TransitionTo: startPreparedRun, the answer of a human, the result of a round; a round that
\* failed may fail the Run, which is not finished while others are under way.
TransitionTo(p, n, status) ==
  /\ Changes(p)
  /\ status \in Transitions[Current(p, n).status] \ {"Ready", "Skipped"}
  /\ \E outcome \in {exec[p].status} \cup ({"Failed"} \cap {status}) :
       exec' = [exec EXCEPT ![p].nodes[n][Len(exec[p].nodes[n])].status = status,
                            ![p].status = outcome]

\* The answer to an advise prompt about a round that failed: no round changes, but the Run
\* fails when the prompt did, or when its node has gone on meanwhile.
AdviceAnswered(p) ==
  /\ Changes(p)
  /\ \E n \in Nodes(p) : \E i \in DOMAIN exec[p].nodes[n] : exec[p].nodes[n][i].status = "Failed"
  /\ \E outcome \in {exec[p].status, "Failed"} : exec' = [exec EXCEPT ![p].status = outcome]

\* The engine returns when no round is under way; a prompt may have been cancelled.  A Run
\* that is idle fails without a round when an input of a node has no source left.
FinishRun(p) ==
  /\ Changes(p)
  /\ \A n \in Nodes(p) : Current(p, n).status \notin {"Ready", "Running"}
  /\ \E outcome \in IF exec[p].status = "Failed" THEN {"Failed"} ELSE {"Stopped", "Failed"} :
       exec' = [exec EXCEPT ![p].finished = TRUE, ![p].status = outcome]
-----------------------------------------------------------------------------
(* Persisting.  The state files that are written after Record are for      *)
(* people: no part of the program reads them.                              *)

\* Seeded fault: only the current round of a node is recorded.
RecordedOnlyCurrent(p, n) == {Len(exec[p].nodes[n])}

\* Record takes the rounds in the history and the current one.
RecordedRounds(p, n) == DOMAIN exec[p].nodes[n]

Row(p, n, entry) ==
  [id |-> IF entry.id = NoID THEN <<p, n, 0>> ELSE entry.id,
   run |-> p, node |-> n, round |-> entry.round, status |-> entry.status]

\* recordNodeRun: UPDATE by id, or else INSERT ... ON CONFLICT (run, node, round) DO UPDATE,
\* which keeps the stored id.
StoredAs(row) ==
  LET twins == {h \in db.nodeRuns : <<h.run, h.node, h.round>> = <<row.run, row.node, row.round>>}
  IN  IF (\E h \in db.nodeRuns : h.id = row.id) \/ twins = {} THEN row
      ELSE [row EXCEPT !.id = (CHOOSE h \in twins : TRUE).id]

RecordedRows(p) ==
  {StoredAs(row) : row \in UNION {{Row(p, n, exec[p].nodes[n][i]) : i \in RecordedRounds(p, n)} :
                                    n \in Nodes(p)}}

\* Record: the row of the Run and those of its rounds, in one transaction; the ids that were
\* given or found are kept in memory.
Record(p) ==
  LET rows == RecordedRows(p)
      Stored(n, i) == LET round == exec[p].nodes[n][i].round
                          mine == {row \in rows : row.node = n /\ row.round = round}
                      IN  IF mine = {} THEN exec[p].nodes[n][i].id ELSE (CHOOSE row \in mine : TRUE).id
  IN  /\ job[p].record = "due"
      /\ db' = [db EXCEPT
                  !.runs = {r \in @ : r.id # p}
                             \cup {[id |-> p, status |-> exec[p].status, finished |-> exec[p].finished]},
                  !.nodeRuns = {h \in @ : \A row \in rows : row.id # h.id} \cup rows]
      /\ exec' = [exec EXCEPT ![p].nodes =
                    [n \in Nodes(p) |-> [i \in DOMAIN @[n] |-> [@[n][i] EXCEPT !.id = Stored(n, i)]]]]
      /\ job' = [job EXCEPT ![p].record = "stored"]
      /\ UNCHANGED <<version, view>>

\* The transaction is refused, or the context is cancelled: only a warning; a fresh id that
\* was given in memory may stay.
RecordFails(p) ==
  /\ job[p].record = "due"
  /\ job' = [job EXCEPT ![p].record = "none"]
  /\ \/ UNCHANGED exec
     \/ exec' = [exec EXCEPT ![p].nodes =
                   [n \in Nodes(p) |-> [i \in DOMAIN @[n] |->
                      [@[n][i] EXCEPT !.id = Row(p, n, exec[p].nodes[n][i]).id]]]]
  /\ UNCHANGED <<version, db, view>>

-----------------------------------------------------------------------------
(* workflow history                                                        *)

NodeRunsOf(r) == {h \in db.nodeRuns : h.run = r}

\* resolveRunID, after historyCmd has opened the database: no database, no run tables, no
\* match and several matches end the command.
ResolveRun(prefix) ==
  LET matches == {r.id : r \in {r \in db.runs : r.id \in prefix}} IN
  /\ view.at = "none"
  /\ version >= 2
  /\ Cardinality(matches) = 1
  /\ view' = [NoView EXCEPT !.of = matches, !.at = "resolved"]
  /\ UNCHANGED <<version, db, job, exec>>

\* Seeded fault: the nodes are listed before the row of the Run is read.
ReadOrderReversed == <<"nodes", "row">>

\* GetRun reads the row of the Run, then its nodes.
ReadOrder == <<"row", "nodes">>

ReadsNext(part) == view.at = "resolved" /\ ReadOrder[view.read + 1] = part

Reading == [view EXCEPT !.read = @ + 1, !.at = IF view.read = 1 THEN "run" ELSE "resolved"]

ReadRunRow ==
  /\ ReadsNext("row")
  /\ \E r \in db.runs :
       /\ r.id \in view.of
       /\ view' = [Reading EXCEPT !.status = r.status, !.finished = r.finished]
  /\ UNCHANGED <<version, db, job, exec>>

\* listLatestNodes
ReadNodes ==
  /\ ReadsNext("nodes")
  /\ view' = [Reading EXCEPT !.nodeRuns = UNION {NodeRunsOf(r) : r \in view.of}]
  /\ UNCHANGED <<version, db, job, exec>>

\* GetNodeRun: all rounds of one node; the diagnostics column came with version 4.
ReadNodeRounds(n) ==
  /\ view.at = "resolved"
  /\ view.read = 0
  /\ "workflow_node_run_history" \in SchemaOf[version]
  /\ view' = [view EXCEPT !.at = "rounds",
                !.nodeRuns = {h \in UNION {NodeRunsOf(r) : r \in view.of} : h.node = n}]
  /\ UNCHANGED <<version, db, job, exec>>

\* ListRuns: the row of a Run and how many of its nodes have left Pending, in one query.
ListRuns(r) ==
  /\ view.at = "none"
  /\ version >= 2
  /\ \E row \in db.runs :
       /\ row.id = r
       /\ view' = [NoView EXCEPT !.of = {r}, !.at = "listed", !.status = row.status,
                     !.finished = row.finished, !.nodeRuns = NodeRunsOf(r)]
  /\ UNCHANGED <<version, db, job, exec>>

\* What was read is printed and the command ends.  Nothing else can tell when: that it
\* happens before the next step of a process leaves no behaviour out.
Shown == {"run", "rounds", "listed"}

PrintAndExit ==
  /\ view.at \in Shown
  /\ view' = NoView
  /\ UNCHANGED <<version, db, job, exec>>

Run(p) ==
  \/ ImportDefinitions(p) \/ ImportWorkflow(p)
  \/ \E n \in Nodes(p) :
       PinNode(p, n) \/ PrepareRun(p, n)
         \/ \E status \in DOMAIN Transitions : TransitionTo(p, n, status)
  \/ AdviceAnswered(p) \/ FinishRun(p)
  \/ Record(p) \/ RecordFails(p)

History ==
  \/ \E prefix \in Prefixes : ResolveRun(prefix)
  \/ ReadRunRow
  \/ ReadNodes
  \/ \E n \in UNION {Nodes(p) : p \in Processes} : ReadNodeRounds(n)
  \/ \E p \in Processes : ListRuns(p)

Next ==
  \/ view.at \notin Shown /\ ((\E p \in Processes : Run(p)) \/ History)
  \/ PrintAndExit

Spec == Init /\ [][Next]_vars
-----------------------------------------------------------------------------
(* Properties.                                                             *)

\* The stored workflow is that of the last import, all of it and nothing else, however the
\* imports of several programs interleave.
StoredWorkflowIsOneImport ==
  \A w \in db.workflows : \E p \in Processes :
    /\ w.body = p
    /\ {i.node : i \in db.instances} = Nodes(p)
    /\ \A i \in db.instances : i.body = p /\ i.workflow = w.id

\* After a transaction that succeeded the rows are the execution: every round once, under one
\* id, whatever transactions failed before and whichever ids they left in memory.
RecordIsExecution ==
  \A p \in Processes : job[p].record = "stored" =>
    /\ {[id |-> h.id, node |-> h.node, round |-> h.round, status |-> h.status] : h \in NodeRunsOf(p)}
         = UNION {{[id |-> e.id, node |-> n, round |-> e.round, status |-> e.status] :
                     e \in {exec[p].nodes[n][i] : i \in DOMAIN exec[p].nodes[n]}} : n \in Nodes(p)}
    /\ \A g, h \in NodeRunsOf(p) : g.node = h.node /\ g.round = h.round => g = h

\* What the history shows of a finished Run is what its engine ended with, although the row
\* and the nodes are read in two queries.
FinishedViewIsFinal ==
  view.finished /\ view.at \in Shown =>
    \A r \in view.of :
      /\ view.status = exec[r].status
      /\ view.nodeRuns = NodeRunsOf(r)
      /\ \A n \in Nodes(r) : \E h \in view.nodeRuns :
           h.node = n /\ <<h.round, h.status>> = <<Current(r, n).round, Current(r, n).status>>

\* What a reader finds of a Run between two transactions.
Found(p) ==
  LET rows == {r \in db.runs : r.id = p}
      row == CHOOSE r \in rows : TRUE
  IN  IF rows = {} THEN [status |-> "absent", finished |-> FALSE, rounds |-> {}]
      ELSE [status |-> row.status, finished |-> row.finished, rounds |-> NodeRunsOf(p)]

Records == [p \in Processes |-> Found(p)]

Promise == INSTANCE RunRecord WITH Runs <- Processes, record <- Records

\* However transactions fall between the steps of an engine, and whichever of them failed, what
\* the history has shown of a Run is never taken back, and its rounds go on in their order.
ImplementsRunRecord == Promise!RecordSpec
=============================================================================
