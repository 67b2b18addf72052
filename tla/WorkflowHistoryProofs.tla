----------------------- MODULE WorkflowHistoryProofs ------------------------
(***************************************************************************)
(* Theorems about WorkflowHistory, for any number of programs, old and     *)
(* new, and every workflow: the stored workflow is one import, what a      *)
(* transaction recorded is the execution, the history of a finished Run is *)
(* what its engine ended with, and the stored history implements RunRecord.*)
(***************************************************************************)
EXTENDS WorkflowHistory, FiniteSetTheorems, SequenceTheorems, TLAPS

-----------------------------------------------------------------------------
(* The inductive invariant.                                                *)

Entries(p, n) ==
  [id : {NoID} \cup {<<p, n, i>> : i \in Nat}, round : Nat, status : DOMAIN Transitions]

\* The rounds of a node are numbered from 1; until the first is prepared there is a Pending
\* entry.  An id is given once: when the round is prepared, or to the Pending entry when it
\* is recorded, and then the first round keeps it.
HistoryInv(p, n, history) ==
  /\ history \in Seq(Entries(p, n))
  /\ Len(history) > 0
  /\ \A i \in 1..Len(history) :
       \/ history[i].round = i /\ history[i].id = <<p, n, i>>
       \/ i = 1 /\ history[i].round = 1 /\ history[i].id = <<p, n, 0>>
       \/ Len(history) = 1 /\ history[i].round = 0 /\ history[i].id \in {NoID, <<p, n, 0>>}

RoundsInv(p, n) == HistoryInv(p, n, exec[p].nodes[n])

\* Where a process stands, and the rows of the nodes it has pinned.
JobInv(p) ==
  /\ DOMAIN job[p] = {"at", "rows", "record"}
  /\ job[p].at # "running" => job[p].record = "none" /\ ~ exec[p].finished
  /\ PinnedNodes(p) \subseteq Nodes(p)
  /\ \A row \in job[p].rows :
       DOMAIN row = {"id", "workflow", "node", "body", "def", "executor"} /\ row.body = p

ExecInv(p) ==
  /\ DOMAIN exec[p] = {"status", "finished", "nodes"}
  /\ DOMAIN exec[p].nodes = Nodes(p)
  /\ \A n \in Nodes(p) : RoundsInv(p, n)

\* A stored row is that of an entry with the same id, which may have got its round since.
StoredInv(p) ==
  \A h \in NodeRunsOf(p) :
    /\ h.node \in Nodes(p)
    /\ \E i \in 1..Len(exec[p].nodes[h.node]) :
         /\ h.id # NoID
         /\ h.id = exec[p].nodes[h.node][i].id
         /\ \/ h.round = exec[p].nodes[h.node][i].round
            \/ i = 1 /\ h.round = 0

RowsOf(p, n) == {Row(p, n, exec[p].nodes[n][i]) : i \in 1..Len(exec[p].nodes[n])}

EntryRows(p) == UNION {RowsOf(p, n) : n \in Nodes(p)}

\* The rows are the entries, and their ids have reached the memory.
AllStored(p) ==
  /\ NodeRunsOf(p) = EntryRows(p)
  /\ \A n \in Nodes(p) : \A i \in 1..Len(exec[p].nodes[n]) : exec[p].nodes[n][i].id # NoID

\* The engine is done and its last transaction too: nothing is going to change.
Final(p) == exec[p].finished /\ job[p].record # "due" /\ AllStored(p)

RunRowsInv(p) ==
  \A r \in db.runs : r.id = p /\ r.finished => Final(p) /\ r.status = exec[p].status

ProcessInv(p) ==
  /\ JobInv(p)
  /\ ExecInv(p)
  /\ StoredInv(p)
  /\ job[p].record = "stored" => AllStored(p)
  /\ RunRowsInv(p)

TablesInv ==
  /\ DOMAIN db = DOMAIN EmptyTables
  /\ \A r \in db.runs : r.id \in Processes
  /\ \A h \in db.nodeRuns : h.run \in Processes

\* The workflow in the tables is that of the import of one process.
ImportedBy(p, w) ==
  /\ db.workflows = {w}
  /\ DOMAIN w = {"id", "name", "version", "body"}
  /\ w.name = "ship" /\ w.version = "" /\ w.body = p
  /\ {i.node : i \in db.instances} = Nodes(p)
  /\ \A i \in db.instances : i.body = p /\ i.workflow = w.id

WorkflowInv ==
  \/ db.workflows = {} /\ db.instances = {}
  \/ \E p \in Processes, w \in db.workflows : ImportedBy(p, w)

\* What the history command has read of a finished Run.
ViewInv ==
  /\ DOMAIN view = DOMAIN NoView
  /\ view.at = "resolved" =>
       /\ \E r \in Processes : view.of = {r}
       /\ view.read \in {0, 1}
       /\ view.read = 0 => view.finished = FALSE
  /\ view.finished => \E r \in Processes :
       /\ view.of = {r} /\ Final(r) /\ view.status = exec[r].status
       /\ view.at \in Shown => view.nodeRuns = NodeRunsOf(r)

IInv ==
  /\ DOMAIN job = Processes /\ DOMAIN exec = Processes
  /\ TablesInv
  /\ WorkflowInv
  /\ \A p \in Processes : ProcessInv(p)
  /\ ViewInv
-----------------------------------------------------------------------------
(* Facts about the operators of the model.                                 *)

\* Two rounds of a node are told apart by their number.
LEMMA RoundsDiffer ==
  ASSUME NEW p, NEW n, RoundsInv(p, n),
         NEW i \in 1..Len(exec[p].nodes[n]), NEW j \in 1..Len(exec[p].nodes[n]),
         exec[p].nodes[n][i].round = exec[p].nodes[n][j].round
  PROVE  i = j
  <1> DEFINE h == exec[p].nodes[n]
  <1>1. HistoryInv(p, n, h)
    BY DEF RoundsInv
  <1>2. i \in 1..Len(h) /\ j \in 1..Len(h) /\ h[i].round = h[j].round
    OBVIOUS
  <1> HIDE DEF h
  <1>3. Len(h) \in Nat
    BY <1>1 DEF HistoryInv
  <1>4. \A k \in 1..Len(h) : h[k].round = k \/ Len(h) = 1
    BY <1>1 DEF HistoryInv
  <1>5. QED
    BY <1>2, <1>3, <1>4

LEMMA EntryFields ==
  ASSUME NEW p, NEW n, RoundsInv(p, n), NEW i \in 1..Len(exec[p].nodes[n])
  PROVE  /\ exec[p].nodes[n][i] \in Entries(p, n)
         /\ exec[p].nodes[n][i].id = NoID => exec[p].nodes[n][i].round = 0
         /\ exec[p].nodes[n][i].round = 0 => i = 1
  <1>1. exec[p].nodes[n][i] \in Entries(p, n)
    BY DEF RoundsInv, HistoryInv
  <1> DEFINE e == exec[p].nodes[n][i]
  <1>2. NoID # <<p, n, i>> /\ NoID # <<p, n, 0>>
    BY DEF NoID
  <1>3. i \in 1..Len(exec[p].nodes[n]) /\ Len(exec[p].nodes[n]) \in Nat
    BY DEF RoundsInv, HistoryInv
  <1>5. \/ e.round = i /\ e.id = <<p, n, i>>
        \/ i = 1 /\ e.round = 1 /\ e.id = <<p, n, 0>>
        \/ i = 1 /\ e.round = 0
    BY <1>3 DEF RoundsInv, HistoryInv
  <1> HIDE DEF e
  <1>6. e.id = NoID => e.round = 0
    BY <1>2, <1>5, Zenon
  <1>7. e.round = 0 => i = 1
    BY <1>3, <1>5
  <1>8. QED
    BY <1>1, <1>6, <1>7 DEF e

\* No row of another id has the key of an entry: a row is stored under the id of its entry.
LEMMA StoredAsItself ==
  ASSUME NEW p, ExecInv(p), StoredInv(p), NEW n \in Nodes(p), NEW i \in 1..Len(exec[p].nodes[n])
  PROVE  StoredAs(Row(p, n, exec[p].nodes[n][i])) = Row(p, n, exec[p].nodes[n][i])
  <1> DEFINE e == exec[p].nodes[n][i]
             row == Row(p, n, e)
  <1>1. RoundsInv(p, n)
    BY DEF ExecInv
  <1>2. row.run = p /\ row.node = n /\ row.round = e.round /\ (e.id # NoID => row.id = e.id)
    BY DEF Row
  <1>3. ASSUME NEW h \in db.nodeRuns, <<h.run, h.node, h.round>> = <<row.run, row.node, row.round>>
        PROVE  h.id = row.id
    <2>1. h \in NodeRunsOf(p) /\ h.node = n /\ h.round = e.round
      BY <1>2, <1>3 DEF NodeRunsOf
    <2>2. PICK j \in 1..Len(exec[p].nodes[n]) :
            /\ h.id # NoID /\ h.id = exec[p].nodes[n][j].id
            /\ h.round = exec[p].nodes[n][j].round \/ (j = 1 /\ h.round = 0)
      BY <2>1 DEF StoredInv
    <2>3. CASE h.round = exec[p].nodes[n][j].round
      BY <1>1, <1>2, <2>1, <2>2, <2>3, RoundsDiffer
    <2>4. CASE j = 1 /\ h.round = 0
      <3>1. exec[p].nodes[n][i].round = 0 => i = 1
        BY <1>1, EntryFields
      <3>2. QED
        BY <1>2, <2>1, <2>2, <2>4, <3>1
    <2>5. QED
      BY <2>2, <2>3, <2>4
  <1>4. (\E h \in db.nodeRuns : h.id = row.id)
          \/ {h \in db.nodeRuns : <<h.run, h.node, h.round>> = <<row.run, row.node, row.round>>} = {}
    BY <1>3
  <1>5. QED
    BY <1>4 DEF StoredAs

LEMMA RecordedAreEntries ==
  ASSUME NEW p, ExecInv(p), StoredInv(p)
  PROVE  RecordedRows(p) = EntryRows(p)
  <1>1. \A n \in Nodes(p) : RecordedRounds(p, n) = 1..Len(exec[p].nodes[n])
    BY DEF RecordedRounds, ExecInv, RoundsInv, HistoryInv
  <1> DEFINE Rows(n) == {Row(p, n, exec[p].nodes[n][i]) : i \in RecordedRounds(p, n)}
             Mine(n) == {Row(p, n, exec[p].nodes[n][i]) : i \in 1..Len(exec[p].nodes[n])}
  <1>2. \A n \in Nodes(p) : Rows(n) = Mine(n)
    BY <1>1
  <1>3. RecordedRows(p) = {StoredAs(row) : row \in UNION {Rows(n) : n \in Nodes(p)}}
    BY DEF RecordedRows
  <1>4. EntryRows(p) = UNION {Mine(n) : n \in Nodes(p)}
    BY DEF EntryRows, RowsOf
  <1>5. \A n \in Nodes(p) : \A row \in Mine(n) : StoredAs(row) = row
    BY StoredAsItself
  <1> HIDE DEF Rows, Mine
  <1>6. UNION {Rows(n) : n \in Nodes(p)} = EntryRows(p)
    BY <1>2, <1>4
  <1>7. \A row \in EntryRows(p) : StoredAs(row) = row
    BY <1>4, <1>5
  <1>8. QED
    BY <1>3, <1>6, <1>7

-----------------------------------------------------------------------------
(* The processes beside the one that takes a step, and the reader.         *)

\* The step of a process changes its own part of the state.
Alone(p) ==
  /\ DOMAIN job' = Processes /\ DOMAIN exec' = Processes
  /\ view' = view
  /\ \A q \in Processes \ {p} :
       /\ job'[q] = job[q] /\ exec'[q] = exec[q]
       /\ NodeRunsOf(q)' = NodeRunsOf(q)
       /\ \A r \in db'.runs : r.id = q => r \in db.runs

\* What is final stays as it is.
Settled(p) ==
  Final(p) =>
    Final(p)' /\ exec'[p].status = exec[p].status /\ NodeRunsOf(p)' = NodeRunsOf(p)

LEMMA OthersKeep ==
  ASSUME IInv, NEW p \in Processes, Alone(p), NEW q \in Processes, q # p
  PROVE  ProcessInv(q)' /\ Settled(q)
  <1>1. /\ job'[q] = job[q] /\ exec'[q] = exec[q] /\ NodeRunsOf(q)' = NodeRunsOf(q)
        /\ \A r \in db'.runs : r.id = q => r \in db.runs
        /\ ProcessInv(q)
    BY DEF Alone, IInv
  <1>2. JobInv(q)' /\ ExecInv(q)'
    <2>1. JobInv(q)'
      BY <1>1 DEF ProcessInv, JobInv, PinnedNodes
    <2>2. \A n \in Nodes(q) : RoundsInv(q, n)'
      BY <1>1 DEF ProcessInv, ExecInv, RoundsInv
    <2>3. QED
      BY <1>1, <2>1, <2>2 DEF ProcessInv, ExecInv
  <1>3. StoredInv(q)'
    BY <1>1 DEF ProcessInv, StoredInv
  <1>4. AllStored(q)' <=> AllStored(q)
    BY <1>1 DEF AllStored, EntryRows, RowsOf
  <1>5. Final(q)' <=> Final(q)
    BY <1>1, <1>4 DEF Final
  <1>6. RunRowsInv(q)'
    BY <1>1, <1>5 DEF ProcessInv, RunRowsInv
  <1>7. QED
    BY <1>1, <1>2, <1>3, <1>4, <1>5, <1>6 DEF ProcessInv, Settled

LEMMA StepInv ==
  ASSUME IInv, NEW p \in Processes, Alone(p), ProcessInv(p)', Settled(p), TablesInv', WorkflowInv'
  PROVE  IInv'
  <1>1. \A q \in Processes : ProcessInv(q)' /\ Settled(q)
    BY OthersKeep
  <1>2. ViewInv'
    <2>1. view' = view /\ ViewInv
      BY DEF Alone, IInv
    <2>2. view.finished =>
            \E r \in Processes :
              /\ view.of = {r} /\ Final(r)' /\ view.status = exec'[r].status
              /\ view.at \in Shown => view.nodeRuns = NodeRunsOf(r)'
      BY <1>1, <2>1 DEF ViewInv, Settled
    <2>3. QED
      BY <2>1, <2>2 DEF ViewInv
  <1>3. DOMAIN job' = Processes /\ DOMAIN exec' = Processes
    BY DEF IInv, Alone
  <1>4. QED
    BY <1>1, <1>2, <1>3 DEF IInv

\* A step that changes where a process stands, and no round and no row of one.
LEMMA JobStep ==
  ASSUME IInv, NEW p \in Processes, job' = [job EXCEPT ![p] = job'[p]], JobInv(p)',
         exec' = exec, view' = view, db'.runs = db.runs, db'.nodeRuns = db.nodeRuns,
         job'[p].record = "stored" => job[p].record = "stored",
         job'[p].record = "due" /\ exec[p].finished => job[p].record = "due",
         TablesInv', WorkflowInv'
  PROVE  IInv'
  <1>1. ProcessInv(p) /\ \A q : NodeRunsOf(q)' = NodeRunsOf(q)
    BY DEF IInv, NodeRunsOf
  <1>2. Alone(p)
    BY <1>1 DEF IInv, Alone
  <1>3. AllStored(p)' <=> AllStored(p)
    BY <1>1 DEF AllStored, EntryRows, RowsOf
  <1>4. Final(p) => Final(p)'
    BY <1>3 DEF Final
  <1>5. ExecInv(p)' /\ StoredInv(p)'
    <2>1. ExecInv(p)'
      BY <1>1 DEF ProcessInv, ExecInv, RoundsInv
    <2>2. StoredInv(p)'
      BY <1>1 DEF ProcessInv, StoredInv
    <2>3. QED
      BY <2>1, <2>2
  <1>6. RunRowsInv(p)'
    BY <1>1, <1>4 DEF ProcessInv, RunRowsInv
  <1>7. ProcessInv(p)'
    BY <1>1, <1>3, <1>5, <1>6 DEF ProcessInv
  <1>8. Settled(p)
    BY <1>1, <1>4 DEF Settled
  <1>9. QED
    BY <1>2, <1>7, <1>8, StepInv

LEMMA SameTables ==
  ASSUME IInv, db' = db
  PROVE  TablesInv' /\ WorkflowInv'
  BY DEF IInv, TablesInv, WorkflowInv, ImportedBy
-----------------------------------------------------------------------------
(* Importing.                                                              *)

LEMMA ImportDefinitionsStep ==
  ASSUME IInv, NEW p \in Processes, ImportDefinitions(p)
  PROVE  IInv'
  <1>1. /\ job[p].at = "idle" /\ job' = [job EXCEPT ![p].at = "pinning"] /\ JobInv(p)
        /\ exec' = exec /\ view' = view /\ p \in DOMAIN job /\ TablesInv /\ WorkflowInv
    BY DEF ImportDefinitions, Goes, IInv, ProcessInv
  <1>2. /\ job'[p] = [job[p] EXCEPT !.at = "pinning"]
        /\ job' = [job EXCEPT ![p] = job'[p]]
    BY <1>1
  <1>3. job'[p].record = job[p].record /\ JobInv(p)'
    BY <1>1, <1>2 DEF JobInv, PinnedNodes
  <1>4. /\ DOMAIN db' = DOMAIN db
        /\ db'.runs = db.runs /\ db'.nodeRuns = db.nodeRuns
        /\ db'.workflows = db.workflows /\ db'.instances = db.instances
    BY <1>1 DEF ImportDefinitions, WithDefinitions, TablesInv, EmptyTables
  <1>5. TablesInv' /\ WorkflowInv'
    BY <1>1, <1>4 DEF TablesInv, WorkflowInv, ImportedBy
  <1>6. QED
    BY <1>1, <1>2, <1>3, <1>4, <1>5, JobStep

LEMMA PinNodeStep ==
  ASSUME IInv, NEW p \in Processes, NEW n \in Nodes(p), PinNode(p, n)
  PROVE  IInv'
  <1>1. /\ job[p].at = "pinning" /\ JobInv(p) /\ p \in DOMAIN job
        /\ exec' = exec /\ view' = view /\ db' = db
    BY DEF PinNode, IInv, ProcessInv
  <1>2. PICK row :
          /\ row.node = n /\ row.body = p
          /\ DOMAIN row = {"id", "workflow", "node", "body", "def", "executor"}
          /\ \/ job' = [job EXCEPT ![p].rows = @ \cup {row}]
             \/ job' = [job EXCEPT ![p].at = "failed"]
    <2> DEFINE v == ResolvedExecutor(p, n)
               row == [id |-> <<p, "instance", n>>, workflow |-> None, node |-> n, body |-> p,
                       def |-> DefinitionID(db, Plan[p][n].def),
                       executor |-> ExecutorID(db, Plan[p][n].def, v)]
    <2>1. \/ job' = [job EXCEPT ![p].rows = @ \cup {row}]
          \/ job' = [job EXCEPT ![p].at = "failed"]
      BY DEF PinNode, Goes
    <2>2. /\ row.node = n /\ row.body = p
          /\ DOMAIN row = {"id", "workflow", "node", "body", "def", "executor"}
      OBVIOUS
    <2> HIDE DEF v, row
    <2>3. QED
      BY <2>1, <2>2
  <1>3. /\ job' = [job EXCEPT ![p] = job'[p]] /\ job'[p].record = job[p].record
        /\ JobInv(p)'
    <2>1. CASE job' = [job EXCEPT ![p].at = "failed"]
      BY <1>1, <2>1 DEF JobInv, PinnedNodes
    <2>2. CASE job' = [job EXCEPT ![p].rows = @ \cup {row}]
      <3>1. /\ DOMAIN job'[p] = DOMAIN job[p]
            /\ job'[p].at = job[p].at /\ job'[p].record = job[p].record
            /\ job'[p].rows = job[p].rows \cup {row}
            /\ job' = [job EXCEPT ![p] = job'[p]]
        BY <1>1, <2>2 DEF JobInv
      <3>2. PinnedNodes(p)' = PinnedNodes(p) \cup {n}
        BY <1>2, <3>1 DEF PinnedNodes
      <3>3. QED
        BY <1>1, <1>2, <3>1, <3>2 DEF JobInv
    <2>3. QED
      BY <1>2, <2>1, <2>2
  <1>4. QED
    BY <1>1, <1>3, SameTables, JobStep

AllOf(instances, id, body, nodes) ==
  /\ {i.node : i \in instances} = nodes
  /\ \A i \in instances : i.workflow = id /\ i.body = body

LeftOf(instances, id, nodes) ==
  instances \ {i \in instances : i.workflow = id /\ i.node \notin nodes}

\* The key of an instance is its workflow and its node; as all instances are of the one
\* workflow, those of the import are left when the stale ones are deleted.
LEMMA ImportedInstances ==
  ASSUME NEW tables, NEW rows, NEW id, NEW body, NEW nodes,
         \A i \in tables.instances : i.workflow = id,
         AllOf(rows, id, body, nodes),
         \A row \in rows : DOMAIN row = {"id", "workflow", "node", "body", "def", "executor"}
  PROVE  AllOf(LeftOf(UpsertNodeInstances(tables, rows), id, nodes), id, body, nodes)
  <1> DEFINE have == tables.instances
             all == UpsertNodeInstances(tables, rows)
             kept == LeftOf(all, id, nodes)
             Key(row) == <<row.workflow, row.node>>
             Stored(row) == [row EXCEPT !.id = StableID({h \in have : Key(h) = Key(row)}, row)]
  <1>1. all = {h \in have : \A row \in rows : Key(row) # Key(h)} \cup {Stored(row) : row \in rows}
    BY DEF UpsertNodeInstances, Upsert, Twins
  <1>7. kept = all \ {i \in all : i.workflow = id /\ i.node \notin nodes}
    BY DEF LeftOf
  <1>8. /\ {row.node : row \in rows} = nodes
        /\ \A row \in rows : row.workflow = id /\ row.body = body
    BY DEF AllOf
  <1> HIDE DEF all, kept
  <1>2. \A row \in rows : Stored(row).node = row.node /\ Stored(row).body = body
                          /\ Stored(row).workflow = id
    BY <1>8
  <1>3. \A h \in have : h.node \in nodes => \E row \in rows : Key(row) = Key(h)
    BY <1>8
  <1>4. \A h \in have : h.node = h.node /\ h.workflow = id
    OBVIOUS
  <1> HIDE DEF Stored
  <1>5. kept = {Stored(row) : row \in rows}
    BY <1>1, <1>2, <1>3, <1>4, <1>7, <1>8
  <1>6. AllOf(kept, id, body, nodes)
    BY <1>2, <1>5, <1>8 DEF AllOf
  <1>9. QED
    BY <1>6 DEF all, kept

LEMMA ImportWorkflowStep ==
  ASSUME IInv, NEW p \in Processes, ImportWorkflow(p)
  PROVE  IInv'
  <1>1. /\ job[p].at = "pinning" /\ JobInv(p) /\ p \in DOMAIN job /\ ~ exec[p].finished
        /\ exec' = exec /\ view' = view /\ PinnedNodes(p) = Nodes(p)
        /\ TablesInv /\ WorkflowInv
    BY DEF ImportWorkflow, IInv, ProcessInv, JobInv
  <1>2. CASE db' = db /\ job' = [job EXCEPT ![p].at = "failed"]
    <2>1. job' = [job EXCEPT ![p] = job'[p]] /\ job'[p].record = job[p].record /\ JobInv(p)'
      BY <1>1, <1>2 DEF JobInv, PinnedNodes
    <2>2. QED
      BY <1>1, <1>2, <2>1, SameTables, JobStep
  <1>3. CASE db' = WithWorkflow(p) /\ job' = [job EXCEPT ![p].at = "running", ![p].record = "due"]
    <2>1. job' = [job EXCEPT ![p] = job'[p]] /\ job'[p].record = "due" /\ JobInv(p)'
      BY <1>1, <1>3 DEF JobInv, PinnedNodes
    <2> DEFINE workflow == [id |-> <<p, "workflow">>, name |-> "ship", version |-> "", body |-> p]
               id == StableID(Twins(db.workflows, workflow, WorkflowKey), workflow)
               New(row) == [row EXCEPT !.workflow = id]
               instances == {New(row) : row \in job[p].rows}
    <2>2. /\ DOMAIN db' = DOMAIN db /\ db'.runs = db.runs /\ db'.nodeRuns = db.nodeRuns
          /\ db'.workflows = UpsertWorkflow(db, workflow)
          /\ db'.instances = LeftOf(UpsertNodeInstances(db, instances), id, Nodes(p))
      BY <1>1, <1>3 DEF WithWorkflow, StaleInstances, LeftOf, TablesInv, EmptyTables
    <2>3. /\ db'.workflows = {[workflow EXCEPT !.id = id]}
          /\ \A i \in db.instances : i.workflow = id
      <3>1. CASE db.workflows = {} /\ db.instances = {}
        <4>1. Twins(db.workflows, workflow, WorkflowKey) = {}
          BY <3>1 DEF Twins
        <4>2. UpsertWorkflow(db, workflow) = {[workflow EXCEPT !.id = id]}
          BY <3>1, <4>1 DEF UpsertWorkflow, Upsert
        <4>3. QED
          BY <2>2, <3>1, <4>2
      <3>2. CASE \E q \in Processes, w \in db.workflows : ImportedBy(q, w)
        <4>1. PICK q \in Processes, w \in db.workflows : ImportedBy(q, w)
          BY <3>2
        <4>2. db.workflows = {w} /\ WorkflowKey(w) = WorkflowKey(workflow)
          BY <4>1 DEF ImportedBy, WorkflowKey
        <4>3. Twins(db.workflows, workflow, WorkflowKey) = {w}
          BY <4>2 DEF Twins
        <4>4. id = w.id
          BY <4>3 DEF StableID
        <4>5. UpsertWorkflow(db, workflow) = {[workflow EXCEPT !.id = id]}
          BY <4>2 DEF UpsertWorkflow, Upsert
        <4>6. QED
          BY <2>2, <4>1, <4>4, <4>5 DEF ImportedBy
      <3>3. QED
        BY <1>1, <3>1, <3>2 DEF WorkflowInv
    <2>4. AllOf(db'.instances, id, p, Nodes(p))
      <3>1. /\ AllOf(instances, id, p, Nodes(p))
            /\ \A row \in instances :
                 DOMAIN row = {"id", "workflow", "node", "body", "def", "executor"}
        <4>1. ASSUME NEW row \in job[p].rows
              PROVE  /\ DOMAIN New(row) = {"id", "workflow", "node", "body", "def", "executor"}
                     /\ New(row).workflow = id /\ New(row).body = p /\ New(row).node = row.node
          BY <1>1 DEF JobInv
        <4> HIDE DEF New
        <4>2. {row.node : row \in instances} = PinnedNodes(p)
          <5>1. \A row \in job[p].rows : New(row) \in instances
            OBVIOUS
          <5>2. \A new \in instances : \E row \in job[p].rows : new = New(row)
            OBVIOUS
          <5> HIDE DEF instances
          <5>3. QED
            BY ZenonT(30), <4>1, <5>1, <5>2 DEF PinnedNodes
        <4>3. QED
          BY <1>1, <4>1, <4>2 DEF AllOf
      <3> HIDE DEF instances, id
      <3>2. \A i \in db.instances : i.workflow = id
        BY <2>3
      <3>3. AllOf(LeftOf(UpsertNodeInstances(db, instances), id, Nodes(p)), id, p, Nodes(p))
        BY <3>1, <3>2, ImportedInstances
      <3>4. QED
        BY <2>2, <3>3
    <2>5. WorkflowInv'
      <3> HIDE DEF id
      <3>1. PICK w : /\ w = [workflow EXCEPT !.id = id] /\ w.id = id
                     /\ DOMAIN w = {"id", "name", "version", "body"}
                     /\ w.name = "ship" /\ w.version = "" /\ w.body = p
        <4> DEFINE new == [workflow EXCEPT !.id = id]
        <4>1. /\ new.id = id /\ DOMAIN new = {"id", "name", "version", "body"}
              /\ new.name = "ship" /\ new.version = "" /\ new.body = p
          OBVIOUS
        <4> HIDE DEF workflow
        <4>2. QED
          BY <4>1
      <3>2. db'.workflows = {w}
        BY <2>3, <3>1
      <3>3. ImportedBy(p, w)'
        BY <2>4, <3>1, <3>2 DEF ImportedBy, AllOf
      <3>4. QED
        BY <3>2, <3>3 DEF WorkflowInv
    <2>6. TablesInv'
      BY <1>1, <2>2 DEF TablesInv
    <2>7. QED
      BY <1>1, <2>1, <2>2, <2>5, <2>6, JobStep
  <1>4. QED
    BY <1>2, <1>3 DEF ImportWorkflow, Goes

-----------------------------------------------------------------------------
(* How the rounds of a node change.                                        *)

\* An entry keeps its id and its round once it has them.
Grows(h, g) ==
  /\ Len(h) \in Nat /\ Len(g) \in Nat /\ Len(h) <= Len(g)
  /\ \A i \in 1..Len(h) :
       /\ h[i].id # NoID => g[i].id = h[i].id
       /\ g[i].round = h[i].round \/ (i = 1 /\ h[i].round = 0)

LEMMA SameGrows ==
  ASSUME NEW p, NEW n, NEW h, HistoryInv(p, n, h)
  PROVE  Grows(h, h)
  BY DEF HistoryInv, Grows

LEMMA AppendGrows ==
  ASSUME NEW p, NEW n, NEW h, HistoryInv(p, n, h), h[Len(h)].round # 0,
         NEW g, g = Append(h, Entry(<<p, n, h[Len(h)].round + 1>>, h[Len(h)].round + 1, "Ready"))
  PROVE  HistoryInv(p, n, g) /\ Grows(h, g)
  <1> DEFINE e == Entry(<<p, n, h[Len(h)].round + 1>>, h[Len(h)].round + 1, "Ready")
  <1>1. /\ h \in Seq(Entries(p, n)) /\ Len(h) \in Nat \ {0}
        /\ h[Len(h)].round = Len(h)
    BY DEF HistoryInv
  <1>2. /\ e = [id |-> <<p, n, Len(h) + 1>>, round |-> Len(h) + 1, status |-> "Ready"]
        /\ e \in Entries(p, n)
    BY <1>1 DEF Entries, Entry, Transitions
  <1>3. e.id = <<p, n, Len(h) + 1>> /\ e.round = Len(h) + 1
    BY <1>2 DEF Entry
  <1> HIDE DEF e
  <1>4. g = Append(h, e)
    BY DEF e
  <1>5. /\ g \in Seq(Entries(p, n)) /\ Len(g) = Len(h) + 1
        /\ \A i \in 1..Len(h) : g[i] = h[i]
        /\ g[Len(h) + 1] = e
    BY <1>1, <1>2, <1>4, AppendProperties
  <1>6. ASSUME NEW i \in 1..Len(h)
        PROVE  \/ h[i].round = i /\ h[i].id = <<p, n, i>>
               \/ i = 1 /\ h[i].round = 1 /\ h[i].id = <<p, n, 0>>
    BY <1>1 DEF HistoryInv
  <1>7. ASSUME NEW i \in 1..Len(g)
        PROVE  \/ g[i].round = i /\ g[i].id = <<p, n, i>>
               \/ i = 1 /\ g[i].round = 1 /\ g[i].id = <<p, n, 0>>
    <2>1. CASE i \in 1..Len(h)
      BY <1>5, <1>6, <2>1
    <2>2. CASE i = Len(h) + 1
      BY <1>3, <1>5, <2>2
    <2>3. Len(h) \in Nat /\ Len(g) = Len(h) + 1
      BY <1>1, <1>5
    <2>4. i \in 1..Len(h) \/ i = Len(h) + 1
      BY <2>3
    <2>5. QED
      BY <2>1, <2>2, <2>4
  <1>8. HistoryInv(p, n, g)
    <2>1. g \in Seq(Entries(p, n)) /\ Len(g) > 0
      BY <1>1, <1>5
    <2>2. QED
      BY <1>7, <2>1 DEF HistoryInv
  <1>9. QED
    BY <1>1, <1>5, <1>8 DEF Grows

LEMMA FirstGrows ==
  ASSUME NEW p, NEW n, NEW h, HistoryInv(p, n, h), h[Len(h)].round = 0,
         NEW id, id = IF h[Len(h)].id = NoID THEN <<p, n, 1>> ELSE h[Len(h)].id,
         NEW g, g = <<[id |-> id, round |-> 1, status |-> "Ready"]>>
  PROVE  HistoryInv(p, n, g) /\ Grows(h, g)
  <1>1. Len(h) = 1 /\ h[1].round = 0 /\ h[1].id \in {NoID, <<p, n, 0>>}
    BY DEF HistoryInv
  <1>2. id \in {<<p, n, 0>>, <<p, n, 1>>}
    BY <1>1
  <1>3. /\ Len(g) = 1 /\ g[1].id = id /\ g[1].round = 1 /\ g[1].status = "Ready"
        /\ g[1] \in Entries(p, n)
    BY <1>2 DEF Entries, Transitions
  <1>4. g \in Seq(Entries(p, n))
    BY <1>3
  <1>5. HistoryInv(p, n, g)
    BY <1>2, <1>3, <1>4 DEF HistoryInv
  <1>6. QED
    BY <1>1, <1>3, <1>5 DEF Grows

LEMMA StatusGrows ==
  ASSUME NEW p, NEW n, NEW h, HistoryInv(p, n, h), NEW status \in DOMAIN Transitions,
         NEW g, g = [h EXCEPT ![Len(h)] = [h[Len(h)] EXCEPT !.status = status]]
  PROVE  HistoryInv(p, n, g) /\ Grows(h, g)
  <1> DEFINE e == [h[Len(h)] EXCEPT !.status = status]
  <1>1. /\ h \in Seq(Entries(p, n)) /\ Len(h) \in Nat /\ Len(h) \in 1..Len(h)
        /\ h[Len(h)] \in Entries(p, n)
    BY DEF HistoryInv
  <1>2. e \in Entries(p, n) /\ e.id = h[Len(h)].id /\ e.round = h[Len(h)].round
    BY <1>1 DEF Entries
  <1> HIDE DEF e
  <1>3. g = [h EXCEPT ![Len(h)] = e]
    BY DEF e
  <1>4. /\ g \in Seq(Entries(p, n)) /\ Len(g) = Len(h)
        /\ \A i \in 1..Len(h) : g[i] = IF i = Len(h) THEN e ELSE h[i]
    BY SMTT(30), <1>1, <1>2, <1>3, ExceptSeq
  <1>5. \A i \in 1..Len(h) : g[i].id = h[i].id /\ g[i].round = h[i].round
    BY <1>2, <1>4
  <1>6. QED
    BY <1>1, <1>4, <1>5 DEF HistoryInv, Grows

Named(p, n, h) == [i \in DOMAIN h |-> [h[i] EXCEPT !.id = Row(p, n, h[i]).id]]

LEMMA NamedGrows ==
  ASSUME NEW p, NEW n, NEW h, HistoryInv(p, n, h), NEW g, g = Named(p, n, h)
  PROVE  /\ HistoryInv(p, n, g) /\ Grows(h, g) /\ Len(g) = Len(h)
         /\ \A i \in 1..Len(h) : g[i].id # NoID /\ Row(p, n, g[i]) = Row(p, n, h[i])
  <1>1. h \in Seq(Entries(p, n)) /\ Len(h) \in Nat /\ DOMAIN h = 1..Len(h)
    BY DEF HistoryInv
  <1>2. ASSUME NEW i \in 1..Len(h)
        PROVE  /\ g[i] \in Entries(p, n) /\ g[i].round = h[i].round /\ g[i].status = h[i].status
               /\ g[i].id = IF h[i].id = NoID THEN <<p, n, 0>> ELSE h[i].id
    <2>1. h[i] \in Entries(p, n) /\ g[i] = [h[i] EXCEPT !.id = Row(p, n, h[i]).id]
      BY <1>1 DEF Named
    <2>2. Row(p, n, h[i]).id = IF h[i].id = NoID THEN <<p, n, 0>> ELSE h[i].id
      BY DEF Row
    <2>3. QED
      BY <2>1, <2>2 DEF Entries
  <1>3. g \in Seq(Entries(p, n)) /\ Len(g) = Len(h)
    BY <1>1, <1>2 DEF Named
  <1>4. \A k : <<p, n, k>> # NoID
    BY DEF NoID
  <1>5. ASSUME NEW i \in 1..Len(h)
        PROVE  /\ \/ g[i].round = i /\ g[i].id = <<p, n, i>>
                  \/ i = 1 /\ g[i].round = 1 /\ g[i].id = <<p, n, 0>>
                  \/ Len(g) = 1 /\ g[i].round = 0 /\ g[i].id \in {NoID, <<p, n, 0>>}
               /\ g[i].id # NoID
    <2>1. \/ h[i].round = i /\ h[i].id = <<p, n, i>>
          \/ i = 1 /\ h[i].round = 1 /\ h[i].id = <<p, n, 0>>
          \/ Len(h) = 1 /\ h[i].round = 0 /\ h[i].id \in {NoID, <<p, n, 0>>}
      BY <1>1 DEF HistoryInv
    <2>2. CASE h[i].id = NoID
      BY <1>2, <1>3, <1>4, <2>1, <2>2
    <2>3. CASE h[i].id # NoID
      BY <1>2, <1>3, <2>1, <2>3
    <2>4. QED
      BY <2>2, <2>3
  <1>6. HistoryInv(p, n, g)
    BY <1>1, <1>3, <1>5 DEF HistoryInv
  <1>7. Grows(h, g)
    BY <1>1, <1>2, <1>3 DEF Grows
  <1>8. ASSUME NEW i \in 1..Len(h)
        PROVE  Row(p, n, g[i]) = Row(p, n, h[i])
    BY <1>2, <1>5 DEF Row
  <1>9. QED
    BY <1>3, <1>5, <1>6, <1>7, <1>8

-----------------------------------------------------------------------------
(* Rounds are prepared and change their status.                            *)

LEMMA StoredGrows ==
  ASSUME NEW p, StoredInv(p), NodeRunsOf(p)' = NodeRunsOf(p),
         \A n \in Nodes(p) : Grows(exec[p].nodes[n], exec'[p].nodes[n])
  PROVE  StoredInv(p)'
  <1>1. SUFFICES ASSUME NEW h \in NodeRunsOf(p)
                 PROVE  /\ h.node \in Nodes(p)
                        /\ \E i \in 1..Len(exec'[p].nodes[h.node]) :
                             /\ h.id # NoID
                             /\ h.id = exec'[p].nodes[h.node][i].id
                             /\ \/ h.round = exec'[p].nodes[h.node][i].round
                                \/ i = 1 /\ h.round = 0
    BY DEF StoredInv
  <1>2. h.node \in Nodes(p)
    BY DEF StoredInv
  <1>3. PICK i \in 1..Len(exec[p].nodes[h.node]) :
          /\ h.id # NoID
          /\ h.id = exec[p].nodes[h.node][i].id
          /\ h.round = exec[p].nodes[h.node][i].round \/ (i = 1 /\ h.round = 0)
    BY DEF StoredInv
  <1>4. Grows(exec[p].nodes[h.node], exec'[p].nodes[h.node])
    BY <1>2
  <1>5. /\ i \in 1..Len(exec'[p].nodes[h.node])
        /\ exec'[p].nodes[h.node][i].id = h.id
        /\ \/ exec'[p].nodes[h.node][i].round = exec[p].nodes[h.node][i].round
           \/ i = 1 /\ exec[p].nodes[h.node][i].round = 0
    <2>1. ASSUME NEW old, NEW new, Grows(old, new), NEW k \in 1..Len(old)
          PROVE  /\ k \in 1..Len(new)
                 /\ old[k].id # NoID => new[k].id = old[k].id
                 /\ new[k].round = old[k].round \/ (k = 1 /\ old[k].round = 0)
      BY <2>1 DEF Grows
    <2>2. QED
      BY SMTT(30), <1>3, <1>4, <2>1
  <1>6. QED
    BY <1>2, <1>3, <1>5

LEMMA ChangesStep ==
  ASSUME IInv, NEW p \in Processes, Changes(p),
         exec' = [exec EXCEPT ![p] = exec'[p]],
         DOMAIN exec'[p] = DOMAIN exec[p], DOMAIN exec'[p].nodes = Nodes(p),
         \A n \in Nodes(p) : /\ HistoryInv(p, n, exec'[p].nodes[n])
                             /\ Grows(exec[p].nodes[n], exec'[p].nodes[n])
  PROVE  IInv'
  <1>1. /\ job[p].at = "running" /\ job[p].record # "due" /\ ~ exec[p].finished
        /\ job' = [job EXCEPT ![p].record = "due"] /\ p \in DOMAIN job
        /\ db' = db /\ view' = view /\ ProcessInv(p)
        /\ \A q : NodeRunsOf(q)' = NodeRunsOf(q)
        /\ DOMAIN job = Processes /\ DOMAIN exec = Processes
    BY DEF Changes, IInv, NodeRunsOf
  <1>2. job'[p].record = "due" /\ JobInv(p)'
    BY <1>1 DEF ProcessInv, JobInv, PinnedNodes
  <1>3. ExecInv(p)'
    BY <1>1 DEF ProcessInv, ExecInv, RoundsInv
  <1>4. StoredInv(p)'
    BY <1>1, StoredGrows DEF ProcessInv
  <1>5. RunRowsInv(p)'
    BY <1>1 DEF ProcessInv, RunRowsInv, Final
  <1>6. ProcessInv(p)'
    BY <1>2, <1>3, <1>4, <1>5 DEF ProcessInv
  <1>7. Alone(p)
    BY <1>1 DEF Alone
  <1>8. Settled(p)
    BY <1>1 DEF Settled, Final
  <1>9. QED
    BY <1>1, <1>6, <1>7, <1>8, SameTables, StepInv

LEMMA PrepareRunStep ==
  ASSUME IInv, NEW p \in Processes, NEW n \in Nodes(p), PrepareRun(p, n)
  PROVE  IInv'
  <1> DEFINE h == exec[p].nodes[n]
             g == Prepared(p, n)
  <1>1. /\ Changes(p) /\ exec' = [exec EXCEPT ![p].nodes[n] = g]
        /\ ExecInv(p) /\ HistoryInv(p, n, h) /\ p \in DOMAIN exec
    BY DEF PrepareRun, IInv, ProcessInv, ExecInv, RoundsInv
  <1>2. h[Len(h)].round \in Nat
    BY SMTT(30), <1>1 DEF HistoryInv, Entries
  <1>3. HistoryInv(p, n, g) /\ Grows(h, g)
    <2>1. CASE h[Len(h)].round = 0
      <3> DEFINE id == IF h[Len(h)].id = NoID THEN <<p, n, 1>> ELSE h[Len(h)].id
      <3>1. g = <<[id |-> id, round |-> 1, status |-> "Ready"]>>
        BY <2>1 DEF Prepared, Current, Entry
      <3> HIDE DEF g
      <3>2. QED
        BY <1>1, <2>1, <3>1, FirstGrows
    <2>2. CASE h[Len(h)].round # 0
      <3>1. g = Append(h, Entry(<<p, n, h[Len(h)].round + 1>>, h[Len(h)].round + 1, "Ready"))
        BY <2>2 DEF Prepared, Current
      <3> HIDE DEF g
      <3>2. QED
        BY <1>1, <2>2, <3>1, AppendGrows
    <2>3. QED
      BY <2>1, <2>2
  <1> HIDE DEF g
  <1>4. /\ exec' = [exec EXCEPT ![p] = exec'[p]] /\ DOMAIN exec'[p] = DOMAIN exec[p]
        /\ DOMAIN exec'[p].nodes = Nodes(p)
        /\ exec'[p].nodes[n] = g
        /\ \A m \in Nodes(p) \ {n} : exec'[p].nodes[m] = exec[p].nodes[m]
    BY <1>1 DEF ExecInv
  <1>5. ASSUME NEW m \in Nodes(p)
        PROVE  HistoryInv(p, m, exec'[p].nodes[m]) /\ Grows(exec[p].nodes[m], exec'[p].nodes[m])
    <2>1. CASE m = n
      BY <1>3, <1>4, <2>1
    <2>2. CASE m # n
      BY <1>1, <1>4, <2>2, SameGrows DEF ExecInv, RoundsInv
    <2>3. QED
      BY <2>1, <2>2
  <1>6. QED
    BY <1>1, <1>4, <1>5, ChangesStep

LEMMA TransitionToStep ==
  ASSUME IInv, NEW p \in Processes, NEW n \in Nodes(p), NEW status \in DOMAIN Transitions,
         TransitionTo(p, n, status)
  PROVE  IInv'
  <1> DEFINE h == exec[p].nodes[n]
             g == [h EXCEPT ![Len(h)] = [h[Len(h)] EXCEPT !.status = status]]
  <1>1. PICK outcome :
          exec' = [exec EXCEPT ![p].nodes[n][Len(exec[p].nodes[n])].status = status,
                               ![p].status = outcome]
    BY DEF TransitionTo
  <1>2. Changes(p) /\ ExecInv(p) /\ HistoryInv(p, n, h) /\ p \in DOMAIN exec
    BY DEF TransitionTo, IInv, ProcessInv, ExecInv, RoundsInv
  <1>3. HistoryInv(p, n, g) /\ Grows(h, g)
    BY <1>2, StatusGrows
  <1>4. /\ exec' = [exec EXCEPT ![p] = exec'[p]] /\ DOMAIN exec'[p] = DOMAIN exec[p]
        /\ DOMAIN exec'[p].nodes = Nodes(p)
        /\ exec'[p].nodes[n] = g
        /\ \A m \in Nodes(p) \ {n} : exec'[p].nodes[m] = exec[p].nodes[m]
    BY <1>1, <1>2 DEF ExecInv
  <1> HIDE DEF g
  <1>5. ASSUME NEW m \in Nodes(p)
        PROVE  HistoryInv(p, m, exec'[p].nodes[m]) /\ Grows(exec[p].nodes[m], exec'[p].nodes[m])
    <2>1. CASE m = n
      BY <1>3, <1>4, <2>1
    <2>2. CASE m # n
      BY <1>2, <1>4, <2>2, SameGrows DEF ExecInv, RoundsInv
    <2>3. QED
      BY <2>1, <2>2
  <1>6. QED
    BY <1>2, <1>4, <1>5, ChangesStep

\* No round changes, only how the Run stands.
LEMMA OutcomeStep ==
  ASSUME IInv, NEW p \in Processes, Changes(p), NEW outcome, NEW finished,
         exec' = [exec EXCEPT ![p].finished = finished, ![p].status = outcome]
  PROVE  IInv'
  <1>1. ExecInv(p) /\ p \in DOMAIN exec
    BY DEF IInv, ProcessInv
  <1>2. /\ exec' = [exec EXCEPT ![p] = exec'[p]] /\ DOMAIN exec'[p] = DOMAIN exec[p]
        /\ exec'[p].nodes = exec[p].nodes
    BY <1>1 DEF ExecInv
  <1>3. \A m \in Nodes(p) : /\ HistoryInv(p, m, exec'[p].nodes[m])
                            /\ Grows(exec[p].nodes[m], exec'[p].nodes[m])
    BY <1>1, <1>2, SameGrows DEF ExecInv, RoundsInv
  <1>4. QED
    BY <1>1, <1>2, <1>3, ChangesStep DEF ExecInv

LEMMA AdviceAnsweredStep ==
  ASSUME IInv, NEW p \in Processes, AdviceAnswered(p)
  PROVE  IInv'
  <1>1. PICK outcome : exec' = [exec EXCEPT ![p].status = outcome]
    BY DEF AdviceAnswered
  <1>2. exec' = [exec EXCEPT ![p].finished = exec[p].finished, ![p].status = outcome]
    BY <1>1 DEF IInv, ProcessInv, ExecInv
  <1>3. QED
    BY <1>2, OutcomeStep DEF AdviceAnswered

LEMMA FinishRunStep ==
  ASSUME IInv, NEW p \in Processes, FinishRun(p)
  PROVE  IInv'
  <1>1. PICK outcome : exec' = [exec EXCEPT ![p].finished = TRUE, ![p].status = outcome]
    BY DEF FinishRun
  <1>2. QED
    BY <1>1, OutcomeStep DEF FinishRun
-----------------------------------------------------------------------------
(* Persisting.                                                             *)

LEMMA EntryRowsOf ==
  ASSUME NEW p, NEW row
  PROVE  row \in EntryRows(p) <=>
           \E n \in Nodes(p) : \E i \in 1..Len(exec[p].nodes[n]) : row = Row(p, n, exec[p].nodes[n][i])
  BY DEF EntryRows, RowsOf

\* The entries have their ids, by a transaction or by one that failed.
NamedAll(p) ==
  /\ exec' = [exec EXCEPT ![p] = exec'[p]] /\ DOMAIN exec'[p] = DOMAIN exec[p]
  /\ exec'[p].status = exec[p].status /\ exec'[p].finished = exec[p].finished
  /\ DOMAIN exec'[p].nodes = Nodes(p)
  /\ \A n \in Nodes(p) : exec'[p].nodes[n] = Named(p, n, exec[p].nodes[n])

LEMMA NamedAllKeeps ==
  ASSUME NEW p \in Processes, ExecInv(p), NamedAll(p)
  PROVE  /\ ExecInv(p)'
         /\ \A n \in Nodes(p) : Grows(exec[p].nodes[n], exec'[p].nodes[n])
         /\ EntryRows(p)' = EntryRows(p)
         /\ \A n \in Nodes(p) : \A i \in 1..Len(exec'[p].nodes[n]) : exec'[p].nodes[n][i].id # NoID
  <1>1. \A n \in Nodes(p) :
          LET h == exec[p].nodes[n]  g == exec'[p].nodes[n] IN
          /\ HistoryInv(p, n, g) /\ Grows(h, g) /\ Len(g) = Len(h)
          /\ \A i \in 1..Len(h) : g[i].id # NoID /\ Row(p, n, g[i]) = Row(p, n, h[i])
    BY NamedGrows DEF NamedAll, ExecInv, RoundsInv
  <1>2. ExecInv(p)'
    BY <1>1 DEF NamedAll, ExecInv, RoundsInv
  <1>3. EntryRows(p)' = EntryRows(p)
    <2>1. \A n \in Nodes(p) : RowsOf(p, n)' = RowsOf(p, n)
      BY <1>1 DEF RowsOf
    <2>2. QED
      BY <2>1 DEF EntryRows
  <1>4. QED
    BY <1>1, <1>2, <1>3

LEMMA RecordNames ==
  ASSUME IInv, NEW p \in Processes, Record(p)
  PROVE  NamedAll(p) /\ RecordedRows(p) = EntryRows(p)
  <1>1. ExecInv(p) /\ StoredInv(p) /\ p \in DOMAIN exec
    BY DEF IInv, ProcessInv
  <1>2. RecordedRows(p) = EntryRows(p)
    BY <1>1, RecordedAreEntries
  <1> DEFINE Mine(n, i) == {row \in RecordedRows(p) : row.node = n /\ row.round = exec[p].nodes[n][i].round}
             Stored(n, i) == IF Mine(n, i) = {} THEN exec[p].nodes[n][i].id
                             ELSE (CHOOSE row \in Mine(n, i) : TRUE).id
  <1>3. exec' = [exec EXCEPT ![p].nodes =
                   [n \in Nodes(p) |-> [i \in DOMAIN @[n] |-> [@[n][i] EXCEPT !.id = Stored(n, i)]]]]
    BY DEF Record
  <1>4. ASSUME NEW n \in Nodes(p), NEW i \in 1..Len(exec[p].nodes[n])
        PROVE  Stored(n, i) = Row(p, n, exec[p].nodes[n][i]).id
    <2> DEFINE own == Row(p, n, exec[p].nodes[n][i])
    <2>1. RoundsInv(p, n)
      BY <1>1 DEF ExecInv
    <2>2. own \in Mine(n, i)
      BY <1>2, EntryRowsOf DEF Row
    <2>3. ASSUME NEW row \in Mine(n, i)
          PROVE  row = own
      <3>4. PICK m \in Nodes(p) :
              \E j \in 1..Len(exec[p].nodes[m]) : row = Row(p, m, exec[p].nodes[m][j])
        BY <1>2, EntryRowsOf
      <3>1. PICK j \in 1..Len(exec[p].nodes[m]) : row = Row(p, m, exec[p].nodes[m][j])
        BY <3>4
      <3>2. m = n /\ exec[p].nodes[n][j].round = exec[p].nodes[n][i].round
        BY <3>1 DEF Row
      <3>3. QED
        BY <2>1, <3>1, <3>2, RoundsDiffer
    <2> HIDE DEF own, Mine
    <2>4. (CHOOSE row \in Mine(n, i) : TRUE) = own
      BY <2>2, <2>3
    <2>5. QED
      BY <2>2, <2>4 DEF own
  <1> HIDE DEF Stored, Mine
  <1>5. NamedAll(p)
    <2>1. /\ exec' = [exec EXCEPT ![p] = exec'[p]] /\ DOMAIN exec'[p] = DOMAIN exec[p]
          /\ exec'[p].status = exec[p].status /\ exec'[p].finished = exec[p].finished
          /\ exec'[p].nodes = [n \in Nodes(p) |-> [i \in DOMAIN exec[p].nodes[n] |->
                                 [exec[p].nodes[n][i] EXCEPT !.id = Stored(n, i)]]]
      BY <1>1, <1>3 DEF ExecInv
    <2>2. ASSUME NEW n \in Nodes(p)
          PROVE  exec'[p].nodes[n] = Named(p, n, exec[p].nodes[n])
      <3>1. DOMAIN exec[p].nodes[n] = 1..Len(exec[p].nodes[n])
        BY <1>1 DEF ExecInv, RoundsInv, HistoryInv
      <3>2. QED
        BY <1>4, <2>1, <3>1 DEF Named
    <2>3. QED
      BY <2>1, <2>2 DEF NamedAll
  <1>6. QED
    BY <1>2, <1>5

\* The transaction: the rows of the Run are its entries, and no other Run has changed.
LEMMA RecordedRun ==
  ASSUME IInv, NEW p \in Processes, Record(p)
  PROVE  /\ Alone(p) /\ NamedAll(p) /\ EntryRows(p)' = EntryRows(p)
         /\ NodeRunsOf(p)' = EntryRows(p)
         /\ \A row \in EntryRows(p) : row.run = p
         /\ DOMAIN db' = DOMAIN db
         /\ db'.runs = {r \in db.runs : r.id # p}
                         \cup {[id |-> p, status |-> exec[p].status, finished |-> exec[p].finished]}
         /\ db'.nodeRuns = {h \in db.nodeRuns : \A row \in EntryRows(p) : row.id # h.id}
                             \cup EntryRows(p)
         /\ db'.workflows = db.workflows /\ db'.instances = db.instances
  <1> DEFINE rows == EntryRows(p)
             run == [id |-> p, status |-> exec[p].status, finished |-> exec[p].finished]
  <1>1. /\ job[p].record = "due" /\ p \in DOMAIN job /\ ProcessInv(p) /\ TablesInv
        /\ DOMAIN job = Processes /\ DOMAIN exec = Processes
        /\ job' = [job EXCEPT ![p].record = "stored"]
        /\ db' = [db EXCEPT !.runs = {r \in @ : r.id # p} \cup {run},
                            !.nodeRuns = {h \in @ : \A row \in rows : row.id # h.id} \cup rows]
        /\ view' = view
    BY RecordNames DEF Record, IInv
  <1>2. NamedAll(p) /\ ExecInv(p) /\ StoredInv(p)
    BY <1>1, RecordNames DEF ProcessInv
  <1>3. /\ ExecInv(p)' /\ EntryRows(p)' = rows
        /\ \A n \in Nodes(p) : \A i \in 1..Len(exec'[p].nodes[n]) : exec'[p].nodes[n][i].id # NoID
    BY <1>2, NamedAllKeeps
  <1> HIDE DEF rows, run
  <1>4. /\ DOMAIN db' = DOMAIN db
        /\ db'.runs = {r \in db.runs : r.id # p} \cup {run}
        /\ db'.nodeRuns = {h \in db.nodeRuns : \A row \in rows : row.id # h.id} \cup rows
        /\ db'.workflows = db.workflows /\ db'.instances = db.instances
    BY <1>1 DEF TablesInv, EmptyTables
  <1>5. ASSUME NEW row \in rows
        PROVE  row.run = p /\ \E n, k : row.id = <<p, n, k>>
    <2>4. PICK n \in Nodes(p) :
            \E i \in 1..Len(exec[p].nodes[n]) : row = Row(p, n, exec[p].nodes[n][i])
      BY EntryRowsOf DEF rows
    <2>1. PICK i \in 1..Len(exec[p].nodes[n]) : row = Row(p, n, exec[p].nodes[n][i])
      BY <2>4
    <2>2. exec[p].nodes[n][i] \in Entries(p, n)
      BY <1>2, EntryFields DEF ExecInv
    <2>3. QED
      BY <2>1, <2>2 DEF Row, Entries
  <1>6. NodeRunsOf(p)' = rows
    <2>1. ASSUME NEW h \in NodeRunsOf(p)
          PROVE  \E row \in rows : row.id = h.id
      <3>1. PICK i \in 1..Len(exec[p].nodes[h.node]) :
              h.node \in Nodes(p) /\ h.id # NoID /\ h.id = exec[p].nodes[h.node][i].id
        BY <1>2 DEF StoredInv
      <3>2. Row(p, h.node, exec[p].nodes[h.node][i]).id = h.id
        BY <3>1 DEF Row
      <3>3. Row(p, h.node, exec[p].nodes[h.node][i]) \in rows
        BY <3>1, EntryRowsOf DEF rows
      <3>4. QED
        BY <3>2, <3>3
    <2>2. QED
      BY <1>4, <1>5, <2>1 DEF NodeRunsOf
  <1>7. ASSUME NEW q \in Processes \ {p}
        PROVE  NodeRunsOf(q)' = NodeRunsOf(q)
    <2>1. ASSUME NEW h \in NodeRunsOf(q)
          PROVE  \A row \in rows : row.id # h.id
      <3>5. PICK n \in Nodes(q) :
              \E i \in 1..Len(exec[q].nodes[n]) : h.id # NoID /\ h.id = exec[q].nodes[n][i].id
        BY DEF IInv, ProcessInv, StoredInv
      <3>1. PICK i \in 1..Len(exec[q].nodes[n]) : h.id # NoID /\ h.id = exec[q].nodes[n][i].id
        BY <3>5
      <3>2. exec[q].nodes[n][i] \in Entries(q, n)
        BY EntryFields DEF IInv, ProcessInv, ExecInv
      <3>3. \E k : h.id = <<q, n, k>>
        BY <3>1, <3>2 DEF Entries
      <3>4. QED
        BY <1>5, <3>3
    <2>2. QED
      BY <1>4, <1>5, <2>1 DEF NodeRunsOf
  <1>8. Alone(p)
    <2>1. \A q \in Processes \ {p} : \A r \in db'.runs : r.id = q => r \in db.runs
      BY <1>4 DEF run
    <2>2. QED
      BY <1>1, <1>2, <1>7, <2>1 DEF Alone, NamedAll
  <1>9. QED
    BY <1>2, <1>3, <1>4, <1>5, <1>6, <1>8 DEF rows, run

LEMMA RecordStep ==
  ASSUME IInv, NEW p \in Processes, Record(p)
  PROVE  IInv'
  <1> DEFINE rows == EntryRows(p)
             run == [id |-> p, status |-> exec[p].status, finished |-> exec[p].finished]
  <1>1. /\ job[p].record = "due" /\ p \in DOMAIN job /\ ProcessInv(p) /\ TablesInv
        /\ job' = [job EXCEPT ![p].record = "stored"]
    BY DEF Record, IInv
  <1>2. /\ Alone(p) /\ NamedAll(p) /\ ExecInv(p)
        /\ EntryRows(p)' = rows /\ NodeRunsOf(p)' = rows
        /\ \A row \in rows : row.run = p
    BY <1>1, RecordedRun DEF ProcessInv
  <1>3. /\ ExecInv(p)'
        /\ \A n \in Nodes(p) : \A i \in 1..Len(exec'[p].nodes[n]) : exec'[p].nodes[n][i].id # NoID
    BY <1>2, NamedAllKeeps
  <1>4. /\ DOMAIN db' = DOMAIN db
        /\ db'.runs = {r \in db.runs : r.id # p} \cup {run}
        /\ db'.nodeRuns = {h \in db.nodeRuns : \A row \in rows : row.id # h.id} \cup rows
        /\ db'.workflows = db.workflows /\ db'.instances = db.instances
    BY RecordedRun
  <1> HIDE DEF rows, run
  <1>9. AllStored(p)'
    BY <1>2, <1>3 DEF AllStored
  <1>10. job'[p].record = "stored" /\ JobInv(p)'
    <2>1. job[p].at = "running"
      BY <1>1 DEF ProcessInv, JobInv
    <2>2. /\ job'[p].record = "stored" /\ job'[p].at = job[p].at /\ job'[p].rows = job[p].rows
          /\ DOMAIN job'[p] = DOMAIN job[p]
      BY <1>1 DEF ProcessInv, JobInv
    <2>3. QED
      BY <1>1, <2>1, <2>2 DEF ProcessInv, JobInv, PinnedNodes
  <1>11. StoredInv(p)'
    <2>1. SUFFICES ASSUME NEW h \in NodeRunsOf(p)'
                   PROVE  /\ h.node \in Nodes(p)
                          /\ \E i \in 1..Len(exec'[p].nodes[h.node]) :
                               /\ h.id # NoID
                               /\ h.id = exec'[p].nodes[h.node][i].id
                               /\ h.round = exec'[p].nodes[h.node][i].round
      BY DEF StoredInv
    <2>5. PICK n \in Nodes(p) :
            \E i \in 1..Len(exec'[p].nodes[n]) : h = Row(p, n, exec'[p].nodes[n][i])
      BY <1>9 DEF AllStored, EntryRows, RowsOf
    <2>2. PICK i \in 1..Len(exec'[p].nodes[n]) : h = Row(p, n, exec'[p].nodes[n][i])
      BY <2>5
    <2>3. h.node = n /\ h.round = exec'[p].nodes[n][i].round /\ h.id = exec'[p].nodes[n][i].id
      BY <1>3, <2>2 DEF Row
    <2>4. QED
      BY <1>3, <2>2, <2>3
  <1>12. RunRowsInv(p)'
    <2>1. ASSUME NEW r \in db'.runs, r.id = p
          PROVE  r.finished = exec'[p].finished /\ r.status = exec'[p].status
      BY <1>2, <1>4, <2>1 DEF NamedAll, run
    <2>2. QED
      BY <1>9, <1>10, <2>1 DEF RunRowsInv, Final
  <1>13. ProcessInv(p)'
    BY <1>3, <1>9, <1>10, <1>11, <1>12 DEF ProcessInv
  <1>14. Settled(p)
    BY <1>1 DEF Settled, Final
  <1>15. TablesInv' /\ WorkflowInv'
    <2>1. TablesInv'
      BY <1>1, <1>2, <1>4 DEF TablesInv, run
    <2>2. WorkflowInv /\ db'.workflows = db.workflows /\ db'.instances = db.instances
      BY <1>4 DEF IInv
    <2>3. WorkflowInv'
      <3>1. \A q, w : ImportedBy(q, w)' <=> ImportedBy(q, w)
        BY <2>2 DEF ImportedBy
      <3>2. QED
        BY <2>2, <3>1 DEF WorkflowInv
    <2>4. QED
      BY <2>1, <2>3
  <1>16. QED
    BY <1>2, <1>13, <1>14, <1>15, StepInv

LEMMA RecordFailsNames ==
  ASSUME IInv, NEW p \in Processes, RecordFails(p)
  PROVE  exec' = exec \/ NamedAll(p)
  <1>1. CASE exec' = [exec EXCEPT ![p].nodes =
                        [n \in Nodes(p) |-> [i \in DOMAIN @[n] |->
                           [@[n][i] EXCEPT !.id = Row(p, n, exec[p].nodes[n][i]).id]]]]
    BY <1>1 DEF IInv, ProcessInv, ExecInv, NamedAll, Named
  <1>2. QED
    BY <1>1 DEF RecordFails

LEMMA RecordFailsStep ==
  ASSUME IInv, NEW p \in Processes, RecordFails(p)
  PROVE  IInv'
  <1>1. /\ job[p].record = "due" /\ p \in DOMAIN job /\ ProcessInv(p) /\ db' = db /\ view' = view
        /\ job' = [job EXCEPT ![p].record = "none"]
        /\ \A q : NodeRunsOf(q)' = NodeRunsOf(q)
        /\ DOMAIN job = Processes /\ DOMAIN exec = Processes
    BY DEF RecordFails, IInv, NodeRunsOf
  <1>2. /\ job'[p].record = "none"
        /\ JobInv(p) => JobInv(p)' \/ exec'[p].finished # exec[p].finished
    <2>1. job[p].at = "running"
      BY <1>1 DEF ProcessInv, JobInv
    <2>2. /\ job'[p].record = "none" /\ job'[p].at = job[p].at /\ job'[p].rows = job[p].rows
          /\ DOMAIN job'[p] = DOMAIN job[p]
      BY <1>1 DEF ProcessInv, JobInv
    <2>3. QED
      BY <1>1, <2>1, <2>2 DEF ProcessInv, JobInv, PinnedNodes
  <1>3. CASE exec' = exec
    <2>1. JobInv(p)'
      BY <1>1, <1>2, <1>3 DEF ProcessInv
    <2>2. job' = [job EXCEPT ![p] = job'[p]]
      BY <1>1
    <2>3. QED
      BY <1>1, <1>2, <1>3, <2>1, <2>2, SameTables, JobStep
  <1>4. CASE NamedAll(p)
    <2>1. /\ ExecInv(p)' /\ \A n \in Nodes(p) : Grows(exec[p].nodes[n], exec'[p].nodes[n])
      BY <1>1, <1>4, NamedAllKeeps DEF ProcessInv
    <2>2. StoredInv(p)'
      BY <1>1, <2>1, StoredGrows DEF ProcessInv
    <2>3. JobInv(p)'
      BY <1>1, <1>2, <1>4 DEF ProcessInv, NamedAll
    <2>4. RunRowsInv(p)'
      BY <1>1 DEF ProcessInv, RunRowsInv, Final
    <2>5. ProcessInv(p)'
      BY <1>2, <2>1, <2>2, <2>3, <2>4 DEF ProcessInv
    <2>6. Alone(p)
      BY <1>1, <1>4 DEF Alone, NamedAll
    <2>7. Settled(p)
      BY <1>1 DEF Settled, Final
    <2>8. QED
      BY <1>1, <2>5, <2>6, <2>7, SameTables, StepInv
  <1>5. exec' = exec \/ NamedAll(p)
    BY RecordFailsNames
  <1>6. QED
    BY <1>3, <1>4, <1>5
-----------------------------------------------------------------------------
(* Reading.                                                                *)

\* A step of the reader.
LEMMA ReaderStep ==
  ASSUME IInv, ViewInv', db' = db, job' = job, exec' = exec
  PROVE  IInv'
  <1>1. TablesInv' /\ WorkflowInv'
    BY SameTables
  <1>2. \A q : NodeRunsOf(q)' = NodeRunsOf(q)
    BY DEF NodeRunsOf
  <1>3. ASSUME NEW p \in Processes
        PROVE  ProcessInv(p)'
    <2>1. ProcessInv(p)
      BY DEF IInv
    <2>2. JobInv(p)'
      BY <2>1 DEF ProcessInv, JobInv, PinnedNodes
    <2>3. ExecInv(p)'
      BY <2>1 DEF ProcessInv, ExecInv, RoundsInv
    <2>4. StoredInv(p)'
      BY <1>2, <2>1 DEF ProcessInv, StoredInv
    <2>5. AllStored(p)' <=> AllStored(p)
      BY <1>2 DEF AllStored, EntryRows, RowsOf
    <2>6. RunRowsInv(p)'
      BY <2>1, <2>5 DEF ProcessInv, RunRowsInv, Final
    <2>7. QED
      BY <2>1, <2>2, <2>3, <2>4, <2>5, <2>6 DEF ProcessInv
  <1>4. QED
    BY <1>1, <1>3 DEF IInv

\* A final Run that is read, and nodes that are read after it.
Sees(v) ==
  v.finished => \E r \in Processes :
    /\ v.of = {r} /\ Final(r) /\ v.status = exec[r].status
    /\ v.at \in Shown => v.nodeRuns = NodeRunsOf(r)

LEMMA SeesNext ==
  ASSUME IInv, db' = db, job' = job, exec' = exec, Sees(view'), DOMAIN view' = DOMAIN NoView,
         view'.at = "resolved" =>
           /\ \E r \in Processes : view'.of = {r}
           /\ view'.read \in {0, 1}
           /\ view'.read = 0 => view'.finished = FALSE
  PROVE  IInv'
  <1>1. \A q : NodeRunsOf(q)' = NodeRunsOf(q)
    BY DEF NodeRunsOf
  <1>2. ASSUME NEW q
        PROVE  Final(q)' <=> Final(q)
    BY <1>1 DEF Final, AllStored, EntryRows, RowsOf
  <1>3. view'.finished => \E r \in Processes :
          /\ view'.of = {r} /\ Final(r)' /\ view'.status = exec'[r].status
          /\ view'.at \in Shown => view'.nodeRuns = NodeRunsOf(r)'
    BY <1>1, <1>2 DEF Sees
  <1>4. ViewInv'
    BY <1>3 DEF ViewInv, NoView
  <1>5. QED
    BY <1>4, ReaderStep

LEMMA NoViewFields ==
  /\ DOMAIN NoView = {"of", "at", "read", "status", "finished", "nodeRuns"}
  /\ NoView.finished = FALSE /\ NoView.at = "none" /\ NoView.read = 0
  BY DEF NoView

LEMMA FinishedRow ==
  ASSUME IInv, NEW r \in db.runs, r.finished
  PROVE  r.id \in Processes /\ Final(r.id) /\ r.status = exec[r.id].status
  BY DEF IInv, TablesInv, ProcessInv, RunRowsInv

LEMMA ResolveRunStep ==
  ASSUME IInv, NEW prefix \in Prefixes, ResolveRun(prefix)
  PROVE  IInv'
  <1> DEFINE matches == {r.id : r \in {r \in db.runs : r.id \in prefix}}
  <1>1. /\ Cardinality(matches) = 1 /\ view' = [NoView EXCEPT !.of = matches, !.at = "resolved"]
        /\ db' = db /\ job' = job /\ exec' = exec
    BY DEF ResolveRun
  <1>2. matches \in SUBSET Processes
    BY DEF IInv, TablesInv
  <1> HIDE DEF matches
  <1>3. \E r \in Processes : matches = {r}
    <2>1. IsFiniteSet(matches)
      BY <1>2, FS_Subset, HistoryAssumption
    <2>2. \E r : matches = {r}
      BY <1>1, <2>1, FS_Singleton
    <2>3. QED
      BY <1>2, <2>2
  <1>4. /\ DOMAIN view' = DOMAIN NoView /\ view'.of = matches /\ view'.at = "resolved"
        /\ view'.read = 0 /\ view'.finished = FALSE
    BY <1>1, NoViewFields
  <1>5. Sees(view')
    BY <1>4 DEF Sees
  <1>6. QED
    BY <1>1, <1>3, <1>4, <1>5, SeesNext

LEMMA ReadRunRowStep ==
  ASSUME IInv, ReadRunRow
  PROVE  IInv'
  <1>1. PICK r \in db.runs :
          /\ r.id \in view.of
          /\ view' = [Reading EXCEPT !.status = r.status, !.finished = r.finished]
    BY DEF ReadRunRow
  <1>2. /\ view.at = "resolved" /\ DOMAIN view = DOMAIN NoView /\ view.read \in {0, 1}
        /\ ReadOrder[view.read + 1] = "row"
        /\ db' = db /\ job' = job /\ exec' = exec
    BY DEF ReadRunRow, ReadsNext, IInv, ViewInv
  <1>3. PICK p \in Processes : view.of = {p}
    BY <1>2 DEF IInv, ViewInv
  <1>4. view.read = 0
    BY <1>2 DEF ReadOrder
  <1>5. /\ DOMAIN view' = DOMAIN NoView /\ view'.of = {p} /\ view'.at = "resolved"
        /\ view'.read = 1 /\ view'.finished = r.finished /\ view'.status = r.status
    BY <1>1, <1>2, <1>3, <1>4, NoViewFields DEF Reading
  <1>6. Sees(view')
    BY <1>1, <1>3, <1>5, FinishedRow DEF Sees, Shown
  <1>7. QED
    BY <1>2, <1>5, <1>6, SeesNext

LEMMA ReadNodesStep ==
  ASSUME IInv, ReadNodes
  PROVE  IInv'
  <1>1. /\ view' = [Reading EXCEPT !.nodeRuns = UNION {NodeRunsOf(r) : r \in view.of}]
        /\ view.at = "resolved" /\ DOMAIN view = DOMAIN NoView /\ view.read \in {0, 1}
        /\ ReadOrder[view.read + 1] = "nodes"
        /\ db' = db /\ job' = job /\ exec' = exec
    BY DEF ReadNodes, ReadsNext, IInv, ViewInv
  <1>2. PICK p \in Processes : view.of = {p}
    BY <1>1 DEF IInv, ViewInv
  <1>3. view.read = 1
    BY <1>1 DEF ReadOrder
  <1>4. UNION {NodeRunsOf(r) : r \in view.of} = NodeRunsOf(p)
    BY <1>2
  <1>5. /\ DOMAIN view' = DOMAIN NoView /\ view'.of = {p} /\ view'.at = "run"
        /\ view'.finished = view.finished /\ view'.status = view.status
        /\ view'.nodeRuns = NodeRunsOf(p)
    BY <1>1, <1>2, <1>3, <1>4, NoViewFields DEF Reading
  <1>6. Sees(view')
    BY <1>2, <1>5 DEF IInv, ViewInv, Sees
  <1>7. QED
    BY <1>1, <1>5, <1>6, SeesNext

LEMMA ReadNodeRoundsStep ==
  ASSUME IInv, NEW n, ReadNodeRounds(n)
  PROVE  IInv'
  <1>1. /\ view.at = "resolved" /\ view.read = 0 /\ DOMAIN view = DOMAIN NoView
        /\ view.finished = FALSE /\ db' = db /\ job' = job /\ exec' = exec
    BY DEF ReadNodeRounds, IInv, ViewInv
  <1>2. DOMAIN view' = DOMAIN NoView /\ view'.at = "rounds" /\ view'.finished = FALSE
    BY <1>1, NoViewFields DEF ReadNodeRounds
  <1>3. QED
    BY <1>1, <1>2, SeesNext DEF Sees

LEMMA ListRunsStep ==
  ASSUME IInv, NEW p \in Processes, ListRuns(p)
  PROVE  IInv'
  <1>1. PICK r \in db.runs :
          /\ r.id = p
          /\ view' = [NoView EXCEPT !.of = {p}, !.at = "listed", !.status = r.status,
                        !.finished = r.finished, !.nodeRuns = NodeRunsOf(p)]
    BY DEF ListRuns
  <1>2. /\ DOMAIN view' = DOMAIN NoView /\ view'.of = {p} /\ view'.at = "listed"
        /\ view'.finished = r.finished /\ view'.status = r.status
        /\ view'.nodeRuns = NodeRunsOf(p)
    BY <1>1, NoViewFields
  <1>3. Sees(view')
    BY <1>1, <1>2, FinishedRow DEF Sees
  <1>4. QED
    BY <1>2, <1>3, SeesNext DEF ListRuns

LEMMA PrintAndExitStep ==
  ASSUME IInv, PrintAndExit
  PROVE  IInv'
  BY NoViewFields, SeesNext DEF PrintAndExit, Sees

LEMMA Stutter ==
  ASSUME IInv, UNCHANGED vars
  PROVE  IInv'
  <1>1. view' = view /\ db' = db /\ job' = job /\ exec' = exec
    BY DEF vars
  <1>2. Sees(view') /\ DOMAIN view' = DOMAIN NoView
        /\ (view'.at = "resolved" =>
              /\ \E r \in Processes : view'.of = {r}
              /\ view'.read \in {0, 1}
              /\ view'.read = 0 => view'.finished = FALSE)
    BY <1>1 DEF IInv, ViewInv, Sees
  <1>3. QED
    BY <1>1, <1>2, SeesNext
-----------------------------------------------------------------------------
(* The theorems.                                                           *)

LEMMA InitInv ==
  ASSUME Init
  PROVE  IInv
  <1>1. /\ db = EmptyTables /\ view = NoView
        /\ job = [p \in Processes |-> [at |-> "idle", rows |-> {}, record |-> "none"]]
        /\ exec = [p \in Processes |-> [status |-> "Running", finished |-> FALSE,
                     nodes |-> [n \in Nodes(p) |-> <<Entry(NoID, 0, "Pending")>>]]]
    BY DEF Init
  <1>2. /\ DOMAIN db = DOMAIN EmptyTables /\ db.runs = {} /\ db.nodeRuns = {}
        /\ db.workflows = {} /\ db.instances = {}
    BY <1>1 DEF EmptyTables
  <1>3. ASSUME NEW p \in Processes
        PROVE  ProcessInv(p)
    <2>1. ASSUME NEW n \in Nodes(p)
          PROVE  RoundsInv(p, n)
      <3>1. exec[p].nodes[n] = <<Entry(NoID, 0, "Pending")>>
        BY <1>1
      <3>2. /\ Entry(NoID, 0, "Pending") \in Entries(p, n)
            /\ Entry(NoID, 0, "Pending").round = 0 /\ Entry(NoID, 0, "Pending").id = NoID
        BY DEF Entry, Entries, Transitions
      <3>3. QED
        BY <3>1, <3>2 DEF RoundsInv, HistoryInv
    <2>2. ExecInv(p)
      BY <1>1, <2>1 DEF ExecInv
    <2>3. JobInv(p)
      BY <1>1 DEF JobInv, PinnedNodes
    <2>4. StoredInv(p) /\ RunRowsInv(p) /\ job[p].record = "none"
      BY <1>1, <1>2 DEF StoredInv, RunRowsInv, NodeRunsOf
    <2>5. QED
      BY <2>2, <2>3, <2>4 DEF ProcessInv
  <1>4. ViewInv
    BY <1>1, NoViewFields DEF ViewInv
  <1>5. QED
    BY <1>1, <1>2, <1>3, <1>4 DEF IInv, TablesInv, WorkflowInv

LEMMA NextInv ==
  ASSUME IInv, [Next]_vars
  PROVE  IInv'
  <1>1. ASSUME NEW p \in Processes, Run(p)
        PROVE  IInv'
    BY <1>1, ImportDefinitionsStep, ImportWorkflowStep, PinNodeStep, PrepareRunStep,
       TransitionToStep, AdviceAnsweredStep, FinishRunStep, RecordStep, RecordFailsStep DEF Run
  <1>2. CASE History
    BY <1>2, ResolveRunStep, ReadRunRowStep, ReadNodesStep, ReadNodeRoundsStep, ListRunsStep
    DEF History
  <1>3. CASE PrintAndExit
    BY <1>3, PrintAndExitStep
  <1>4. CASE UNCHANGED vars
    BY <1>4, Stutter
  <1>5. QED
    BY <1>1, <1>2, <1>3, <1>4 DEF Next

THEOREM Inductive == Spec => []IInv
  <1>1. Init => IInv
    BY InitInv
  <1>2. IInv /\ [Next]_vars => IInv'
    BY NextInv
  <1>3. QED
    BY <1>1, <1>2, PTL DEF Spec

\* However the imports of programs with other executors, other texts and other nodes
\* interleave, the stored workflow is the one import that came last.
THEOREM OneImport == Spec => []StoredWorkflowIsOneImport
  <1>1. IInv => StoredWorkflowIsOneImport
    <2>1. SUFFICES ASSUME IInv, NEW w \in db.workflows
                   PROVE  \E p \in Processes :
                            /\ w.body = p
                            /\ {i.node : i \in db.instances} = Nodes(p)
                            /\ \A i \in db.instances : i.body = p /\ i.workflow = w.id
      BY DEF StoredWorkflowIsOneImport
    <2>2. PICK p \in Processes, v \in db.workflows : ImportedBy(p, v)
      BY <2>1 DEF IInv, WorkflowInv
    <2>3. QED
      BY ZenonT(30), <2>1, <2>2 DEF ImportedBy
  <1>2. QED
    BY <1>1, Inductive, PTL

\* Whatever transactions failed before and whichever ids they left in memory, a transaction
\* that succeeds leaves every round of the execution in one row, and no other row.
THEOREM RecordCorrect == Spec => []RecordIsExecution
  <1>1. IInv => RecordIsExecution
    <2>1. SUFFICES ASSUME IInv, NEW p \in Processes, job[p].record = "stored"
                   PROVE  /\ {[id |-> h.id, node |-> h.node, round |-> h.round, status |-> h.status] :
                                h \in NodeRunsOf(p)}
                               = UNION {{[id |-> e.id, node |-> n, round |-> e.round, status |-> e.status] :
                                   e \in {exec[p].nodes[n][i] : i \in DOMAIN exec[p].nodes[n]}} :
                                     n \in Nodes(p)}
                          /\ \A g, h \in NodeRunsOf(p) : g.node = h.node /\ g.round = h.round => g = h
      BY DEF RecordIsExecution
    <2> DEFINE Shape(h) == [id |-> h.id, node |-> h.node, round |-> h.round, status |-> h.status]
               Of(n, e) == [id |-> e.id, node |-> n, round |-> e.round, status |-> e.status]
    <2>2. ExecInv(p) /\ AllStored(p)
      BY <2>1 DEF IInv, ProcessInv
    <2>3. ASSUME NEW n \in Nodes(p)
          PROVE  /\ DOMAIN exec[p].nodes[n] = 1..Len(exec[p].nodes[n])
                 /\ \A i \in 1..Len(exec[p].nodes[n]) :
                      Shape(Row(p, n, exec[p].nodes[n][i])) = Of(n, exec[p].nodes[n][i])
      BY SMTT(30), <2>2 DEF ExecInv, AllStored, RoundsInv, HistoryInv, Row
    <2>4. \A row : row \in NodeRunsOf(p) <=>
            \E n \in Nodes(p) : \E i \in 1..Len(exec[p].nodes[n]) : row = Row(p, n, exec[p].nodes[n][i])
      BY <2>2, EntryRowsOf DEF AllStored
    <2>5. ASSUME NEW g \in NodeRunsOf(p), NEW h \in NodeRunsOf(p), g.node = h.node, g.round = h.round
          PROVE  g = h
      <3>1. PICK n \in Nodes(p) :
              \E i \in 1..Len(exec[p].nodes[n]) : g = Row(p, n, exec[p].nodes[n][i])
        BY <2>4
      <3>2. PICK i \in 1..Len(exec[p].nodes[n]) : g = Row(p, n, exec[p].nodes[n][i])
        BY <3>1
      <3>3. PICK m \in Nodes(p) :
              \E j \in 1..Len(exec[p].nodes[m]) : h = Row(p, m, exec[p].nodes[m][j])
        BY <2>4
      <3>4. PICK j \in 1..Len(exec[p].nodes[m]) : h = Row(p, m, exec[p].nodes[m][j])
        BY <3>3
      <3>5. m = n /\ exec[p].nodes[n][i].round = exec[p].nodes[n][j].round
        BY <2>5, <3>2, <3>4 DEF Row
      <3>6. i = j
        BY <2>2, <3>4, <3>5, RoundsDiffer DEF ExecInv
      <3>7. QED
        BY <3>2, <3>4, <3>5, <3>6
    <2> HIDE DEF Shape, Of
    <2>6. {Shape(h) : h \in NodeRunsOf(p)}
            = UNION {{Of(n, e) : e \in {exec[p].nodes[n][i] : i \in DOMAIN exec[p].nodes[n]}} : n \in Nodes(p)}
      <3> DEFINE Left(n) == {Of(n, e) : e \in {exec[p].nodes[n][i] : i \in DOMAIN exec[p].nodes[n]}}
      <3>1. \A n \in Nodes(p) : Left(n) = {Shape(h) : h \in RowsOf(p, n)}
        BY <2>3 DEF RowsOf
      <3> HIDE DEF Left
      <3>2. \A h : h \in NodeRunsOf(p) <=> \E n \in Nodes(p) : h \in RowsOf(p, n)
        BY <2>2 DEF AllStored, EntryRows
      <3>3. ASSUME NEW x, x \in {Shape(h) : h \in NodeRunsOf(p)}
            PROVE  x \in UNION {Left(n) : n \in Nodes(p)}
        <4>1. PICK h \in NodeRunsOf(p) : x = Shape(h)
          BY <3>3
        <4>2. PICK n \in Nodes(p) : h \in RowsOf(p, n)
          BY <3>2
        <4>3. x \in Left(n)
          BY <3>1, <4>1, <4>2
        <4>4. QED
          BY <4>3
      <3>4. ASSUME NEW x, x \in UNION {Left(n) : n \in Nodes(p)}
            PROVE  x \in {Shape(h) : h \in NodeRunsOf(p)}
        <4>1. PICK n \in Nodes(p) : x \in Left(n)
          BY <3>4
        <4>2. PICK h \in RowsOf(p, n) : x = Shape(h)
          BY <3>1, <4>1
        <4>3. QED
          BY <3>2, <4>2
      <3>5. {Shape(h) : h \in NodeRunsOf(p)} = UNION {Left(n) : n \in Nodes(p)}
        BY <3>3, <3>4
      <3>6. QED
        BY <3>5 DEF Left
    <2>7. QED
      BY <2>5, <2>6 DEF Shape, Of
  <1>2. QED
    BY <1>1, Inductive, PTL

\* The row of a Run says that it is finished only once nothing is going to change, and it is
\* read first: what is shown of a finished Run is what its engine ended with.
THEOREM FinishedViewCorrect == Spec => []FinishedViewIsFinal
  <1>1. IInv => FinishedViewIsFinal
    <2>1. SUFFICES ASSUME IInv, view.finished, view.at \in Shown, NEW r \in view.of
                   PROVE  /\ view.status = exec[r].status
                          /\ view.nodeRuns = NodeRunsOf(r)
                          /\ \A n \in Nodes(r) : \E h \in view.nodeRuns :
                               /\ h.node = n
                               /\ <<h.round, h.status>> = <<Current(r, n).round, Current(r, n).status>>
      BY DEF FinishedViewIsFinal
    <2>2. /\ r \in Processes /\ Final(r) /\ view.status = exec[r].status
          /\ view.nodeRuns = NodeRunsOf(r)
      BY <2>1 DEF IInv, ViewInv
    <2>3. ASSUME NEW n \in Nodes(r)
          PROVE  \E h \in view.nodeRuns :
                   /\ h.node = n
                   /\ <<h.round, h.status>> = <<Current(r, n).round, Current(r, n).status>>
      <3> DEFINE row == Row(r, n, Current(r, n))
      <3>1. Len(exec[r].nodes[n]) \in 1..Len(exec[r].nodes[n])
        BY <2>1, <2>2 DEF IInv, ProcessInv, ExecInv, RoundsInv, HistoryInv
      <3>2. row \in EntryRows(r)
        BY <3>1, EntryRowsOf DEF Current
      <3>3. row \in view.nodeRuns
        BY <2>2, <3>2 DEF Final, AllStored
      <3>4. row.node = n /\ row.round = Current(r, n).round /\ row.status = Current(r, n).status
        BY DEF Row
      <3> HIDE DEF row
      <3>5. QED
        BY <3>3, <3>4
    <2>4. QED
      BY <2>2, <2>3
  <1>2. QED
    BY <1>1, Inductive, PTL
-----------------------------------------------------------------------------
(* What is stored of a Run goes on as its engine does.                     *)

Later(status, other) == status = other \/ Promise!Stage[status] < Promise!Stage[other]

\* The rounds of a node but the newest have ended, and only an entry without a round waits.
Course(history) ==
  \A i \in 1..Len(history) :
    /\ history[i].status \in DOMAIN Promise!Stage
    /\ history[i].round = 0 <=> history[i].status = "Pending"
    /\ i < Len(history) => history[i].status \in Promise!Ended

\* An entry goes on as long as no other round of its node begins.
Onward(h, g) ==
  \A i \in 1..Len(h) :
    /\ i \in 1..Len(g)
    /\ h[i].id # NoID => g[i].id = h[i].id
    /\ g[i].round = h[i].round \/ (h[i].round = 0 /\ g[i].round = 1)
    /\ Later(h[i].status, g[i].status)

\* The stored row is that of an entry, or of what the entry was.
StandsFor(h, e) ==
  /\ h.id # NoID /\ h.id = e.id
  /\ h.round = e.round \/ (h.round = 0 /\ e.round = 1)
  /\ h.status \in DOMAIN Promise!Stage /\ Later(h.status, e.status)

BehindInv(p) ==
  \A h \in NodeRunsOf(p) :
    /\ h.node \in Nodes(p)
    /\ \E i \in 1..Len(exec[p].nodes[h.node]) : StandsFor(h, exec[p].nodes[h.node][i])

\* How an execution stands, and ends.
EndInv(p) ==
  IF exec[p].finished
    THEN /\ exec[p].status \in {"Stopped", "Failed"}
         /\ \A n \in Nodes(p) : Current(p, n).status \notin {"Ready", "Running"}
    ELSE exec[p].status \in {"Running", "Failed"}

\* The row of a Run comes with all of its nodes, and its failure is that of the execution.
ListedInv(p) ==
  \A r \in db.runs : r.id = p =>
    /\ \A n \in Nodes(p) : \E h \in NodeRunsOf(p) : h.node = n
    /\ r.status = "Failed" => exec[p].status = "Failed"

CourseInv(p) ==
  /\ \A n \in Nodes(p) : Course(exec[p].nodes[n])
  /\ BehindInv(p) /\ EndInv(p) /\ ListedInv(p)

RecordInv == \A p \in Processes : CourseInv(p)

LEMMA StandsForLater ==
  ASSUME NEW h, NEW e, NEW f, StandsFor(h, e), e.status \in DOMAIN Promise!Stage,
         f.status \in DOMAIN Promise!Stage,
         e.id # NoID => f.id = e.id,
         f.round = e.round \/ (e.round = 0 /\ f.round = 1), Later(e.status, f.status)
  PROVE  StandsFor(h, f)
  <1>1. \A status \in DOMAIN Promise!Stage : Promise!Stage[status] \in Nat
    BY DEF Promise!Stage
  <1>2. Later(h.status, f.status)
    BY <1>1 DEF StandsFor, Later
  <1>3. QED
    BY <1>2 DEF StandsFor

LEMMA OnwardSame ==
  ASSUME NEW h
  PROVE  Onward(h, h)
  BY DEF Onward, Later

LEMMA OnwardAppend ==
  ASSUME NEW p, NEW n, NEW h, HistoryInv(p, n, h), h[Len(h)].round # 0, Course(h),
         h[Len(h)].status \in Promise!Ended,
         NEW g, g = Append(h, Entry(<<p, n, h[Len(h)].round + 1>>, h[Len(h)].round + 1, "Ready"))
  PROVE  Course(g) /\ Onward(h, g)
  <1> DEFINE e == Entry(<<p, n, h[Len(h)].round + 1>>, h[Len(h)].round + 1, "Ready")
  <1>1. /\ h \in Seq(Entries(p, n)) /\ Len(h) \in Nat \ {0}
        /\ h[Len(h)].round = Len(h)
    BY DEF HistoryInv
  <1>2. e \in Entries(p, n) /\ e.round = Len(h) + 1 /\ e.status = "Ready"
    BY <1>1 DEF Entries, Entry, Transitions
  <1> HIDE DEF e
  <1>3. g = Append(h, e)
    BY DEF e
  <1>4. /\ Len(g) = Len(h) + 1
        /\ \A i \in 1..Len(h) : g[i] = h[i]
        /\ g[Len(h) + 1] = e
    BY <1>1, <1>2, <1>3, AppendProperties
  <1>5. ASSUME NEW i \in 1..Len(g)
        PROVE  /\ g[i].status \in DOMAIN Promise!Stage
               /\ g[i].round = 0 <=> g[i].status = "Pending"
               /\ i < Len(g) => g[i].status \in Promise!Ended
    <2>1. CASE i \in 1..Len(h)
      <3>1. g[i] = h[i] /\ (i < Len(h) \/ i = Len(h))
        BY <1>1, <1>4, <2>1
      <3>2. QED
        BY <2>1, <3>1 DEF Course
    <2>2. CASE i = Len(h) + 1
      BY <1>1, <1>2, <1>4, <2>2 DEF Promise!Stage
    <2>3. QED
      BY <1>1, <1>4, <2>1, <2>2
  <1>6. Course(g)
    BY <1>5 DEF Course
  <1>7. Onward(h, g)
    BY <1>1, <1>4 DEF Onward, Later
  <1>8. QED
    BY <1>6, <1>7

LEMMA OnwardFirst ==
  ASSUME NEW p, NEW n, NEW h, HistoryInv(p, n, h), Course(h), h[Len(h)].round = 0,
         NEW id, id = IF h[Len(h)].id = NoID THEN <<p, n, 1>> ELSE h[Len(h)].id,
         NEW g, g = <<[id |-> id, round |-> 1, status |-> "Ready"]>>
  PROVE  Course(g) /\ Onward(h, g)
  <1>1. Len(h) = 1 /\ h[1].round = 0 /\ h[1].status = "Pending"
    BY DEF HistoryInv, Course
  <1>2. /\ Len(g) = 1 /\ g[1].id = id /\ g[1].round = 1 /\ g[1].status = "Ready"
    OBVIOUS
  <1>3. "Ready" \in DOMAIN Promise!Stage /\ Later("Pending", "Ready")
    BY DEF Promise!Stage, Later
  <1>4. QED
    BY <1>1, <1>2, <1>3 DEF Course, Onward

LEMMA OnwardStatus ==
  ASSUME NEW p, NEW n, NEW h, HistoryInv(p, n, h), Course(h),
         NEW status \in {"WaitingHuman", "Running", "Succeeded", "Failed"},
         Later(h[Len(h)].status, status), h[Len(h)].status # "Pending",
         NEW g, g = [h EXCEPT ![Len(h)] = [h[Len(h)] EXCEPT !.status = status]]
  PROVE  Course(g) /\ Onward(h, g) /\ Len(g) = Len(h) /\ g[Len(g)].status = status
  <1> DEFINE e == [h[Len(h)] EXCEPT !.status = status]
  <1>1. /\ h \in Seq(Entries(p, n)) /\ Len(h) \in Nat /\ Len(h) \in 1..Len(h)
        /\ h[Len(h)] \in Entries(p, n)
    BY DEF HistoryInv
  <1>2. /\ e \in Entries(p, n) /\ e.id = h[Len(h)].id /\ e.round = h[Len(h)].round
        /\ e.status = status
    BY <1>1 DEF Entries, Transitions
  <1> HIDE DEF e
  <1>3. g = [h EXCEPT ![Len(h)] = e]
    BY DEF e
  <1>4. /\ Len(g) = Len(h)
        /\ \A i \in 1..Len(h) : g[i] = IF i = Len(h) THEN e ELSE h[i]
    BY SMTT(30), <1>1, <1>2, <1>3, ExceptSeq
  <1>5. status \in DOMAIN Promise!Stage /\ status # "Pending"
    BY DEF Promise!Stage
  <1>6. h[Len(h)].round # 0
    BY <1>1 DEF Course
  <1>7. Course(g)
    BY <1>1, <1>2, <1>4, <1>5, <1>6 DEF Course
  <1>8. Onward(h, g)
    BY <1>2, <1>4 DEF Onward, Later
  <1>9. QED
    BY <1>1, <1>2, <1>4, <1>7, <1>8

LEMMA OnwardNamed ==
  ASSUME NEW p, NEW n, NEW h, HistoryInv(p, n, h), Course(h), NEW g, g = Named(p, n, h)
  PROVE  /\ Course(g) /\ Onward(h, g) /\ Len(g) = Len(h)
         /\ \A i \in 1..Len(h) : g[i].status = h[i].status
  <1>1. /\ Len(g) = Len(h) /\ Len(h) \in Nat
        /\ \A i \in 1..Len(h) :
             /\ h[i].id # NoID => g[i].id = h[i].id
             /\ Row(p, n, g[i]) = Row(p, n, h[i])
    BY NamedGrows DEF Grows
  <1>2. \A i \in 1..Len(h) : g[i].status = h[i].status /\ g[i].round = h[i].round
    BY <1>1 DEF Row
  <1>3. QED
    BY <1>1, <1>2 DEF Course, Onward, Later
-----------------------------------------------------------------------------
(* Every step keeps it.                                                    *)

SameRows ==
  db'.runs = db.runs /\ db'.nodeRuns = db.nodeRuns

LEMMA SameRecords ==
  ASSUME SameRows
  PROVE  Records' = Records /\ \A p : NodeRunsOf(p)' = NodeRunsOf(p)
  <1>1. \A p : NodeRunsOf(p)' = NodeRunsOf(p)
    BY DEF SameRows, NodeRunsOf
  <1>2. \A p : Found(p)' = Found(p)
    BY <1>1 DEF SameRows, Found
  <1>3. QED
    BY <1>1, <1>2 DEF Records

\* Neither an execution nor what is stored of one changes.
LEMMA SameCourse ==
  ASSUME RecordInv, SameRows, exec' = exec
  PROVE  RecordInv' /\ Records' = Records
  <1>1. ASSUME NEW p \in Processes
        PROVE  CourseInv(p)'
    <2>1. CourseInv(p)
      BY DEF RecordInv
    <2>2. BehindInv(p)' /\ EndInv(p)' /\ ListedInv(p)'
      BY <2>1, SameRecords DEF CourseInv, BehindInv, EndInv, ListedInv, Current, SameRows
    <2>3. QED
      BY <2>1, <2>2 DEF CourseInv
  <1>2. QED
    BY <1>1, SameRecords DEF RecordInv

\* An execution goes on, and nothing is stored of it yet.
LEMMA ExecStep ==
  ASSUME RecordInv, NEW p \in Processes, SameRows, exec' = [exec EXCEPT ![p] = exec'[p]],
         DOMAIN exec = Processes,
         \A n \in Nodes(p) : Course(exec'[p].nodes[n]) /\ Onward(exec[p].nodes[n], exec'[p].nodes[n]),
         exec[p].status = "Failed" => exec'[p].status = "Failed",
         EndInv(p)'
  PROVE  RecordInv' /\ Records' = Records
  <1>1. \A q : NodeRunsOf(q)' = NodeRunsOf(q)
    BY SameRecords
  <1>2. BehindInv(p)'
    <2>1. SUFFICES ASSUME NEW h \in NodeRunsOf(p)
                   PROVE  /\ h.node \in Nodes(p)
                          /\ \E i \in 1..Len(exec'[p].nodes[h.node]) :
                               StandsFor(h, exec'[p].nodes[h.node][i])
      BY <1>1 DEF BehindInv
    <2>2. h.node \in Nodes(p)
      BY DEF RecordInv, CourseInv, BehindInv
    <2>3. PICK i \in 1..Len(exec[p].nodes[h.node]) : StandsFor(h, exec[p].nodes[h.node][i])
      BY DEF RecordInv, CourseInv, BehindInv
    <2>4. /\ Course(exec[p].nodes[h.node]) /\ Course(exec'[p].nodes[h.node])
          /\ Onward(exec[p].nodes[h.node], exec'[p].nodes[h.node])
      BY <2>2 DEF RecordInv, CourseInv
    <2>5. /\ i \in 1..Len(exec'[p].nodes[h.node])
          /\ StandsFor(h, exec'[p].nodes[h.node][i])
      BY <2>3, <2>4, StandsForLater DEF Course, Onward
    <2>6. QED
      BY <2>2, <2>5
  <1>3. ListedInv(p)'
    BY <1>1 DEF RecordInv, CourseInv, ListedInv, SameRows
  <1>4. ASSUME NEW q \in Processes, q # p
        PROVE  CourseInv(q)'
    <2>1. CourseInv(q) /\ exec'[q] = exec[q]
      BY <1>4 DEF RecordInv
    <2>2. BehindInv(q)' /\ EndInv(q)' /\ ListedInv(q)'
      BY <1>1, <2>1 DEF CourseInv, BehindInv, EndInv, ListedInv, Current, SameRows
    <2>3. QED
      BY <2>1, <2>2 DEF CourseInv
  <1>5. CourseInv(p)'
    BY <1>2, <1>3 DEF CourseInv
  <1>6. QED
    BY <1>4, <1>5, SameRecords DEF RecordInv

LEMMA ImportsKeepRows ==
  ASSUME IInv, NEW p \in Processes, ImportDefinitions(p) \/ ImportWorkflow(p)
  PROVE  SameRows /\ exec' = exec
  <1>1. DOMAIN db = DOMAIN EmptyTables
    BY DEF IInv, TablesInv
  <1>2. CASE ImportDefinitions(p)
    BY <1>1, <1>2 DEF ImportDefinitions, WithDefinitions, EmptyTables, SameRows
  <1>3. CASE ImportWorkflow(p)
    BY <1>1, <1>3 DEF ImportWorkflow, WithWorkflow, EmptyTables, SameRows
  <1>4. QED
    BY <1>2, <1>3

LEMMA PrepareRunCourse ==
  ASSUME IInv, RecordInv, NEW p \in Processes, NEW n \in Nodes(p), PrepareRun(p, n)
  PROVE  RecordInv' /\ Records' = Records
  <1> DEFINE h == exec[p].nodes[n]
             g == Prepared(p, n)
  <1>1. /\ exec' = [exec EXCEPT ![p].nodes[n] = g] /\ ~ exec[p].finished /\ SameRows
        /\ "Ready" \in Transitions[h[Len(h)].status]
        /\ ExecInv(p) /\ HistoryInv(p, n, h) /\ DOMAIN exec = Processes
        /\ CourseInv(p) /\ Course(h)
    BY DEF PrepareRun, Changes, Current, SameRows, IInv, ProcessInv, ExecInv, RoundsInv, RecordInv,
       CourseInv
  <1>2. Len(h) \in 1..Len(h)
    BY <1>1 DEF HistoryInv
  <1>3. Course(g) /\ Onward(h, g)
    <2>1. CASE h[Len(h)].round = 0
      <3> DEFINE id == IF h[Len(h)].id = NoID THEN <<p, n, 1>> ELSE h[Len(h)].id
      <3>1. g = <<[id |-> id, round |-> 1, status |-> "Ready"]>>
        BY <2>1 DEF Prepared, Current, Entry
      <3> HIDE DEF g
      <3>2. QED
        BY <1>1, <2>1, <3>1, OnwardFirst
    <2>2. CASE h[Len(h)].round # 0
      <3>1. g = Append(h, Entry(<<p, n, h[Len(h)].round + 1>>, h[Len(h)].round + 1, "Ready"))
        BY <2>2 DEF Prepared, Current
      <3>2. h[Len(h)].status \in Promise!Ended
        BY <1>1, <1>2, <2>2 DEF Course, Transitions, Promise!Stage, Promise!Ended
      <3> HIDE DEF g
      <3>3. QED
        BY <1>1, <2>2, <3>1, <3>2, OnwardAppend
    <2>3. QED
      BY <2>1, <2>2
  <1> HIDE DEF g
  <1>4. /\ exec' = [exec EXCEPT ![p] = exec'[p]]
        /\ exec'[p].status = exec[p].status /\ exec'[p].finished = exec[p].finished
        /\ exec'[p].nodes[n] = g
        /\ \A m \in Nodes(p) \ {n} : exec'[p].nodes[m] = exec[p].nodes[m]
    BY <1>1 DEF ExecInv
  <1>5. ASSUME NEW m \in Nodes(p)
        PROVE  Course(exec'[p].nodes[m]) /\ Onward(exec[p].nodes[m], exec'[p].nodes[m])
    BY <1>1, <1>3, <1>4, OnwardSame DEF CourseInv
  <1>6. EndInv(p)'
    BY <1>1, <1>4 DEF CourseInv, EndInv
  <1>7. QED
    BY <1>1, <1>4, <1>5, <1>6, ExecStep

LEMMA TransitionToCourse ==
  ASSUME IInv, RecordInv, NEW p \in Processes, NEW n \in Nodes(p),
         NEW status \in DOMAIN Transitions, TransitionTo(p, n, status)
  PROVE  RecordInv' /\ Records' = Records
  <1> DEFINE h == exec[p].nodes[n]
             g == [h EXCEPT ![Len(h)] = [h[Len(h)] EXCEPT !.status = status]]
  <1>1. PICK outcome \in {exec[p].status} \cup ({"Failed"} \cap {status}) :
          exec' = [exec EXCEPT ![p].nodes[n][Len(exec[p].nodes[n])].status = status,
                               ![p].status = outcome]
    BY DEF TransitionTo
  <1>2. /\ ~ exec[p].finished /\ SameRows
        /\ status \in Transitions[h[Len(h)].status] \ {"Ready", "Skipped"}
        /\ ExecInv(p) /\ HistoryInv(p, n, h) /\ DOMAIN exec = Processes
        /\ CourseInv(p) /\ Course(h)
    BY DEF TransitionTo, Changes, Current, SameRows, IInv, ProcessInv, ExecInv, RoundsInv, RecordInv,
       CourseInv
  <1>3. h[Len(h)].status \in DOMAIN Promise!Stage
    BY <1>2 DEF HistoryInv, Course
  <1>4. /\ status \in {"WaitingHuman", "Running", "Succeeded", "Failed"}
        /\ h[Len(h)].status # "Pending" /\ Later(h[Len(h)].status, status)
    BY <1>2, <1>3 DEF Transitions, Promise!Stage, Later
  <1>5. Course(g) /\ Onward(h, g)
    BY <1>2, <1>4, OnwardStatus
  <1>6. /\ exec' = [exec EXCEPT ![p] = exec'[p]]
        /\ exec'[p].status = outcome /\ exec'[p].finished = exec[p].finished
        /\ exec'[p].nodes[n] = g
        /\ \A m \in Nodes(p) \ {n} : exec'[p].nodes[m] = exec[p].nodes[m]
    BY <1>1, <1>2 DEF ExecInv
  <1> HIDE DEF g
  <1>7. ASSUME NEW m \in Nodes(p)
        PROVE  Course(exec'[p].nodes[m]) /\ Onward(exec[p].nodes[m], exec'[p].nodes[m])
    BY <1>2, <1>5, <1>6, OnwardSame DEF CourseInv
  <1>8. EndInv(p)' /\ (exec[p].status = "Failed" => exec'[p].status = "Failed")
    BY <1>1, <1>2, <1>6 DEF CourseInv, EndInv
  <1>9. QED
    BY <1>2, <1>6, <1>7, <1>8, ExecStep

LEMMA OutcomeCourse ==
  ASSUME IInv, RecordInv, NEW p \in Processes, SameRows, NEW outcome, NEW finished,
         exec' = [exec EXCEPT ![p].finished = finished, ![p].status = outcome],
         exec[p].status = "Failed" => outcome = "Failed",
         EndInv(p)'
  PROVE  RecordInv' /\ Records' = Records
  <1>1. ExecInv(p) /\ DOMAIN exec = Processes /\ CourseInv(p)
    BY DEF IInv, ProcessInv, RecordInv
  <1>2. /\ exec' = [exec EXCEPT ![p] = exec'[p]]
        /\ exec'[p].nodes = exec[p].nodes /\ exec'[p].status = outcome
    BY <1>1 DEF ExecInv
  <1>3. \A n \in Nodes(p) : Course(exec'[p].nodes[n]) /\ Onward(exec[p].nodes[n], exec'[p].nodes[n])
    BY <1>1, <1>2, OnwardSame DEF CourseInv
  <1>4. QED
    BY <1>1, <1>2, <1>3, ExecStep

LEMMA AdviceAnsweredCourse ==
  ASSUME IInv, RecordInv, NEW p \in Processes, AdviceAnswered(p)
  PROVE  RecordInv' /\ Records' = Records
  <1>1. /\ ~ exec[p].finished /\ SameRows
        /\ ExecInv(p) /\ p \in DOMAIN exec /\ EndInv(p)
    BY DEF AdviceAnswered, Changes, SameRows, IInv, ProcessInv, RecordInv, CourseInv
  <1>2. PICK outcome \in {exec[p].status, "Failed"} : exec' = [exec EXCEPT ![p].status = outcome]
    BY DEF AdviceAnswered
  <1>3. exec' = [exec EXCEPT ![p].finished = exec[p].finished, ![p].status = outcome]
    BY <1>1, <1>2 DEF ExecInv
  <1>4. exec'[p].finished = exec[p].finished /\ exec'[p].status = outcome
    BY <1>1, <1>2 DEF ExecInv
  <1>5. EndInv(p)'
    BY <1>1, <1>2, <1>4 DEF EndInv
  <1>6. QED
    BY <1>1, <1>2, <1>3, <1>5, OutcomeCourse

LEMMA FinishRunCourse ==
  ASSUME IInv, RecordInv, NEW p \in Processes, FinishRun(p)
  PROVE  RecordInv' /\ Records' = Records
  <1>1. /\ \A n \in Nodes(p) : Current(p, n).status \notin {"Ready", "Running"}
        /\ SameRows /\ ExecInv(p) /\ p \in DOMAIN exec
    BY DEF FinishRun, Changes, SameRows, IInv, ProcessInv
  <1>2. PICK outcome \in IF exec[p].status = "Failed" THEN {"Failed"} ELSE {"Stopped", "Failed"} :
          exec' = [exec EXCEPT ![p].finished = TRUE, ![p].status = outcome]
    BY DEF FinishRun
  <1>3. exec'[p].finished = TRUE /\ exec'[p].nodes = exec[p].nodes /\ exec'[p].status = outcome
    BY <1>1, <1>2 DEF ExecInv
  <1>4. EndInv(p)'
    BY <1>1, <1>2, <1>3 DEF EndInv, Current
  <1>5. QED
    BY <1>1, <1>2, <1>4, OutcomeCourse

\* Entries that get their ids.
LEMMA NamedCourse ==
  ASSUME NEW p \in Processes, ExecInv(p), CourseInv(p), NamedAll(p)
  PROVE  /\ \A n \in Nodes(p) : /\ Course(exec'[p].nodes[n])
                                /\ Onward(exec[p].nodes[n], exec'[p].nodes[n])
         /\ EndInv(p)'
  <1>1. ASSUME NEW n \in Nodes(p)
        PROVE  LET h == exec[p].nodes[n]  g == exec'[p].nodes[n] IN
               /\ Course(g) /\ Onward(h, g)
               /\ g[Len(g)].status = h[Len(h)].status
    <2> DEFINE h == exec[p].nodes[n]
               g == exec'[p].nodes[n]
    <2>1. HistoryInv(p, n, h) /\ Course(h) /\ g = Named(p, n, h)
      BY DEF ExecInv, RoundsInv, CourseInv, NamedAll
    <2>2. Len(h) \in 1..Len(h)
      BY <2>1 DEF HistoryInv
    <2> HIDE DEF h, g
    <2>3. Course(g) /\ Onward(h, g) /\ g[Len(g)].status = h[Len(h)].status
      BY <2>1, <2>2, OnwardNamed
    <2>4. QED
      BY <2>3 DEF h, g
  <1>2. EndInv(p)'
    BY <1>1 DEF CourseInv, EndInv, Current, NamedAll
  <1>3. QED
    BY <1>1, <1>2

LEMMA RecordFailsCourse ==
  ASSUME IInv, RecordInv, NEW p \in Processes, RecordFails(p)
  PROVE  RecordInv' /\ Records' = Records
  <1>1. SameRows /\ ExecInv(p) /\ CourseInv(p) /\ DOMAIN exec = Processes
    BY DEF RecordFails, SameRows, IInv, ProcessInv, RecordInv
  <1>2. CASE exec' = exec
    BY <1>1, <1>2, SameCourse
  <1>3. CASE NamedAll(p)
    BY <1>1, <1>3, NamedCourse, ExecStep DEF NamedAll
  <1>4. exec' = exec \/ NamedAll(p)
    BY RecordFailsNames
  <1>5. QED
    BY <1>2, <1>3, <1>4

LEMMA RecordCourse ==
  ASSUME IInv, RecordInv, NEW p \in Processes, Record(p)
  PROVE  RecordInv'
  <1>1. /\ Alone(p) /\ NamedAll(p) /\ EntryRows(p)' = EntryRows(p)
        /\ NodeRunsOf(p)' = EntryRows(p)
        /\ db'.runs = {r \in db.runs : r.id # p}
                        \cup {[id |-> p, status |-> exec[p].status, finished |-> exec[p].finished]}
    BY RecordedRun
  <1>2. ExecInv(p) /\ CourseInv(p)
    BY DEF IInv, ProcessInv, RecordInv
  <1>3. /\ ExecInv(p)'
        /\ \A n \in Nodes(p) : \A i \in 1..Len(exec'[p].nodes[n]) : exec'[p].nodes[n][i].id # NoID
    BY <1>1, <1>2, NamedAllKeeps
  <1>4. EndInv(p)' /\ \A n \in Nodes(p) : Course(exec'[p].nodes[n])
    BY <1>1, <1>2, NamedCourse
  <1>5. BehindInv(p)'
    <2>1. SUFFICES ASSUME NEW h \in NodeRunsOf(p)'
                   PROVE  /\ h.node \in Nodes(p)
                          /\ \E i \in 1..Len(exec'[p].nodes[h.node]) :
                               StandsFor(h, exec'[p].nodes[h.node][i])
      BY DEF BehindInv
    <2>2. PICK n \in Nodes(p) :
            \E i \in 1..Len(exec'[p].nodes[n]) : h = Row(p, n, exec'[p].nodes[n][i])
      BY <1>1 DEF EntryRows, RowsOf
    <2>3. PICK i \in 1..Len(exec'[p].nodes[n]) : h = Row(p, n, exec'[p].nodes[n][i])
      BY <2>2
    <2> DEFINE e == exec'[p].nodes[n][i]
    <2>4. e.id # NoID /\ e.status \in DOMAIN Promise!Stage
      BY <1>3, <1>4 DEF Course
    <2>5. h.node = n /\ h.id = e.id /\ h.round = e.round /\ h.status = e.status
      BY <2>3, <2>4 DEF Row
    <2>6. StandsFor(h, e)
      BY <2>4, <2>5 DEF StandsFor, Later
    <2>7. QED
      BY <2>5, <2>6
  <1>6. ListedInv(p)'
    <2>1. \A r \in db'.runs : r.id = p => r.status = exec'[p].status
      BY <1>1 DEF NamedAll
    <2>2. ASSUME NEW n \in Nodes(p)
          PROVE  \E h \in NodeRunsOf(p)' : h.node = n
      <3>1. Len(exec[p].nodes[n]) \in 1..Len(exec[p].nodes[n])
        BY <1>2 DEF ExecInv, RoundsInv, HistoryInv
      <3>2. Row(p, n, Current(p, n)) \in EntryRows(p)
        BY <3>1, EntryRowsOf DEF Current
      <3>3. QED
        BY <1>1, <3>2 DEF Row
    <2>3. QED
      BY <2>1, <2>2 DEF ListedInv
  <1>7. CourseInv(p)'
    BY <1>4, <1>5, <1>6 DEF CourseInv
  <1>8. ASSUME NEW q \in Processes, q # p
        PROVE  CourseInv(q)'
    <2>1. /\ CourseInv(q) /\ exec'[q] = exec[q] /\ NodeRunsOf(q)' = NodeRunsOf(q)
          /\ \A r \in db'.runs : r.id = q => r \in db.runs
      BY <1>1, <1>8 DEF RecordInv, Alone
    <2>2. BehindInv(q)' /\ EndInv(q)' /\ ListedInv(q)'
      BY <2>1 DEF CourseInv, BehindInv, EndInv, ListedInv, Current
    <2>3. QED
      BY <2>1, <2>2 DEF CourseInv
  <1>9. QED
    BY <1>7, <1>8 DEF RecordInv
-----------------------------------------------------------------------------
(* The history implements RunRecord.                                       *)

LEMMA FoundRow ==
  ASSUME NEW p, NEW r \in db.runs, r.id = p
  PROVE  \E row \in db.runs :
           /\ row.id = p
           /\ Found(p) = [status |-> row.status, finished |-> row.finished, rounds |-> NodeRunsOf(p)]
  <1> DEFINE rows == {x \in db.runs : x.id = p}
  <1>1. (CHOOSE x \in rows : TRUE) \in rows
    OBVIOUS
  <1>2. rows # {}
    OBVIOUS
  <1>3. Found(p) = [status |-> (CHOOSE x \in rows : TRUE).status,
                    finished |-> (CHOOSE x \in rows : TRUE).finished, rounds |-> NodeRunsOf(p)]
    BY <1>2 DEF Found
  <1> HIDE DEF rows
  <1>4. QED
    BY <1>1, <1>3 DEF rows

LEMMA NothingFound ==
  ASSUME NEW p, \A r \in db.runs : r.id # p
  PROVE  Found(p) = Promise!Absent
  BY DEF Found, Promise!Absent

LEMMA OwnID ==
  ASSUME NEW p, NEW n, NEW h, HistoryInv(p, n, h), NEW i \in 1..Len(h), h[i].id # NoID
  PROVE  \E k \in Nat : h[i].id = <<p, n, k>> /\ (k = i \/ (k = 0 /\ i = 1))
  <1>1. Len(h) \in Nat /\ i \in Nat
    BY DEF HistoryInv
  <1>2. CASE h[i].id = <<p, n, i>>
    BY <1>1, <1>2
  <1>3. CASE h[i].id # <<p, n, i>>
    <2>1. i = 1 /\ h[i].id = <<p, n, 0>>
      BY <1>1, <1>3 DEF HistoryInv
    <2>2. QED
      BY <2>1
  <1>4. QED
    BY <1>2, <1>3

\* The rounds of an execution, as rows.
LEMMA RoundsNumbered ==
  ASSUME NEW p, NEW nodes, NEW rows,
         \A n \in Nodes(p) : HistoryInv(p, n, nodes[n]) /\ Course(nodes[n]),
         \A n \in Nodes(p) : \A i \in 1..Len(nodes[n]) : nodes[n][i].id # NoID,
         \A row : row \in rows <=>
           \E n \in Nodes(p) : \E i \in 1..Len(nodes[n]) : row = Row(p, n, nodes[n][i])
  PROVE  Promise!WellNumbered(rows)
  <1>1. SUFFICES ASSUME NEW h \in rows
                 PROVE  /\ h.round > 1 => \E g \in rows : g.node = h.node /\ g.round = h.round - 1
                        /\ \A g \in rows :
                             /\ g.id = h.id \/ (g.node = h.node /\ g.round = h.round) => g = h
                             /\ g.node = h.node /\ g.round < h.round => g.status \in Promise!Ended
    BY DEF Promise!WellNumbered
  <1>2. PICK n \in Nodes(p) :
          \E i \in 1..Len(nodes[n]) : h = Row(p, n, nodes[n][i])
    OBVIOUS
  <1>3. PICK i \in 1..Len(nodes[n]) : h = Row(p, n, nodes[n][i])
    BY <1>2
  <1> DEFINE a == nodes[n]
  <1>4. HistoryInv(p, n, a) /\ Len(a) \in Nat /\ a[i].id # NoID
    BY DEF HistoryInv
  <1>5. h.node = n /\ h.id = a[i].id /\ h.round = a[i].round /\ h.status = a[i].status
    BY <1>3, <1>4 DEF Row
  <1>6. h.round > 1 => \E g \in rows : g.node = h.node /\ g.round = h.round - 1
    <2>1. SUFFICES ASSUME h.round > 1
                   PROVE  \E g \in rows : g.node = h.node /\ g.round = h.round - 1
      OBVIOUS
    <2>2. a[i].round = i /\ i > 1
      BY <1>4, <1>5, <2>1 DEF HistoryInv
    <2>3. i - 1 \in 1..Len(a) /\ a[i - 1].round = i - 1
      BY <1>4, <2>2 DEF HistoryInv
    <2>4. Row(p, n, a[i - 1]) \in rows
      BY <2>3
    <2>5. QED
      BY <1>5, <2>2, <2>3, <2>4 DEF Row
  <1>7. \A q \in Nodes(p) : \A j \in 1..Len(nodes[q]) :
          \E k \in Nat : nodes[q][j].id = <<p, q, k>> /\ (k = j \/ (k = 0 /\ j = 1))
    <2>1. SUFFICES ASSUME NEW q \in Nodes(p), NEW j \in 1..Len(nodes[q])
                   PROVE  \E k \in Nat : nodes[q][j].id = <<p, q, k>> /\ (k = j \/ (k = 0 /\ j = 1))
      OBVIOUS
    <2>2. HistoryInv(p, q, nodes[q]) /\ nodes[q][j].id # NoID
      OBVIOUS
    <2> DEFINE own == nodes[q]
    <2> HIDE DEF own
    <2>3. \E k \in Nat : own[j].id = <<p, q, k>> /\ (k = j \/ (k = 0 /\ j = 1))
      <3>1. HistoryInv(p, q, own) /\ j \in 1..Len(own) /\ own[j].id # NoID
        BY <2>2 DEF own
      <3>2. QED
        BY <3>1, OwnID
    <2>4. QED
      BY <2>3 DEF own
  <1>8. ASSUME NEW g \in rows
        PROVE  /\ g.id = h.id \/ (g.node = h.node /\ g.round = h.round) => g = h
               /\ g.node = h.node /\ g.round < h.round => g.status \in Promise!Ended
    <2>1. PICK m \in Nodes(p) :
            \E j \in 1..Len(nodes[m]) : g = Row(p, m, nodes[m][j])
      OBVIOUS
    <2>2. PICK j \in 1..Len(nodes[m]) : g = Row(p, m, nodes[m][j])
      BY <2>1
    <2> DEFINE b == nodes[m]
    <2>3. HistoryInv(p, m, b) /\ Len(b) \in Nat /\ b[j].id # NoID
      BY DEF HistoryInv
    <2>4. g.node = m /\ g.id = b[j].id /\ g.round = b[j].round /\ g.status = b[j].status
      BY <2>2, <2>3 DEF Row
    <2>5. ASSUME g.node = h.node, g.round = h.round
          PROVE  g = h
      <3>1. m = n /\ a[j].round = a[i].round
        BY <1>5, <2>4, <2>5
      <3>2. i = j
        BY SMTT(30), <1>4, <3>1 DEF HistoryInv
      <3>3. QED
        BY <1>3, <2>2, <3>1, <3>2
    <2>6. ASSUME g.id = h.id
          PROVE  g = h
      <3>1. PICK k \in Nat : a[i].id = <<p, n, k>> /\ (k = i \/ (k = 0 /\ i = 1))
        BY Zenon, <1>7
      <3>2. PICK l \in Nat : b[j].id = <<p, m, l>> /\ (l = j \/ (l = 0 /\ j = 1))
        BY Zenon, <1>7
      <3>3. m = n /\ k = l
        <4>1. <<p, n, k>> = <<p, m, l>>
          BY <1>5, <2>4, <2>6, <3>1, <3>2
        <4>2. QED
          BY <4>1
      <3>4. i = j
        BY <3>1, <3>2, <3>3
      <3>5. QED
        BY <1>3, <2>2, <3>3, <3>4
    <2>7. ASSUME g.node = h.node, g.round < h.round
          PROVE  g.status \in Promise!Ended
      <3>1. m = n /\ a[j].round < a[i].round
        BY <1>5, <2>4, <2>7
      <3>2. j < i
        BY <1>4, <3>1 DEF HistoryInv
      <3>3. j < Len(a)
        BY <1>4, <3>2
      <3>4. a[j].status \in Promise!Ended
        BY <3>1, <3>3 DEF Course
      <3>5. QED
        BY <2>4, <3>1, <3>4
    <2>8. QED
      BY <2>5, <2>6, <2>7
  <1>9. QED
    BY <1>6, <1>8

LEMMA RecordWrites ==
  ASSUME IInv, RecordInv, RecordInv', NEW p \in Processes, Record(p)
  PROVE  Promise!Write(p)
  <1>1. /\ Alone(p) /\ NamedAll(p) /\ EntryRows(p)' = EntryRows(p)
        /\ NodeRunsOf(p)' = EntryRows(p)
        /\ db'.runs = {r \in db.runs : r.id # p}
                        \cup {[id |-> p, status |-> exec[p].status, finished |-> exec[p].finished]}
    BY RecordedRun
  <1>2. /\ ExecInv(p) /\ RunRowsInv(p) /\ CourseInv(p) /\ CourseInv(p)' /\ job[p].record = "due"
    BY DEF IInv, ProcessInv, RecordInv, Record
  <1>3. /\ ExecInv(p)'
        /\ \A n \in Nodes(p) : \A i \in 1..Len(exec'[p].nodes[n]) : exec'[p].nodes[n][i].id # NoID
    BY <1>1, <1>2, NamedAllKeeps
  <1>4. Found(p)' = [status |-> exec[p].status, finished |-> exec[p].finished, rounds |-> EntryRows(p)]
    <2> DEFINE run == [id |-> p, status |-> exec[p].status, finished |-> exec[p].finished]
    <2>1. {r \in db'.runs : r.id = p} = {run}
      BY <1>1
    <2>2. (CHOOSE r \in {run} : TRUE) = run
      OBVIOUS
    <2>3. Found(p)' = [status |-> run.status, finished |-> run.finished, rounds |-> NodeRunsOf(p)']
      BY <2>1, <2>2 DEF Found
    <2>4. QED
      BY <1>1, <2>3
  <1>5. ASSUME NEW q \in Processes, q # p
        PROVE  Found(q)' = Found(q)
    <2>1. NodeRunsOf(q)' = NodeRunsOf(q)
      BY <1>1, <1>5 DEF Alone
    <2>2. {r \in db'.runs : r.id = q} = {r \in db.runs : r.id = q}
      BY <1>1, <1>5
    <2>3. QED
      BY <2>1, <2>2 DEF Found
  <1>6. /\ Records = [q \in Processes |-> Found(q)] /\ Records' = [q \in Processes |-> Found(q)']
        /\ Records[p] = Found(p) /\ Records'[p] = Found(p)'
    BY DEF Records
  <1>7. Records' = [Records EXCEPT ![p] = Records'[p]]
    BY <1>5, <1>6
  <1>8. /\ ~ Found(p).finished
        /\ Found(p).status = "Failed" => exec[p].status = "Failed"
        /\ Found(p) = Promise!Absent \/ (Found(p).rounds = NodeRunsOf(p)
                                         /\ \A n \in Nodes(p) : \E h \in NodeRunsOf(p) : h.node = n)
        /\ Found(p).rounds \subseteq NodeRunsOf(p)
    <2>1. CASE \A r \in db.runs : r.id # p
      BY <2>1, NothingFound DEF Promise!Absent
    <2>2. CASE \E r \in db.runs : r.id = p
      <3>1. PICK r \in db.runs :
              /\ r.id = p
              /\ Found(p) = [status |-> r.status, finished |-> r.finished, rounds |-> NodeRunsOf(p)]
        BY <2>2, FoundRow
      <3>2. ~ r.finished
        BY <1>2, <3>1 DEF RunRowsInv, Final
      <3>3. /\ r.status = "Failed" => exec[p].status = "Failed"
            /\ \A n \in Nodes(p) : \E h \in NodeRunsOf(p) : h.node = n
        BY <1>2, <3>1 DEF CourseInv, ListedInv
      <3>4. QED
        BY <3>1, <3>2, <3>3
    <2>3. QED
      BY <2>1, <2>2
  <1>9. Promise!NothingTakenBack(Found(p), Found(p)')
    <2>1. ASSUME NEW h \in Found(p).rounds
          PROVE  \E g \in EntryRows(p) : Promise!GoesOn(h, g)
      <3>1. h \in NodeRunsOf(p) /\ h.node \in Nodes(p)
        BY <1>2, <1>8, <2>1 DEF CourseInv, BehindInv
      <3>2. PICK i \in 1..Len(exec[p].nodes[h.node]) : StandsFor(h, exec[p].nodes[h.node][i])
        BY <1>2, <3>1 DEF CourseInv, BehindInv
      <3>3. Row(p, h.node, exec[p].nodes[h.node][i]) \in EntryRows(p)
        BY <3>1, EntryRowsOf
      <3>4. Promise!GoesOn(h, Row(p, h.node, exec[p].nodes[h.node][i]))
        BY <3>2 DEF StandsFor, Later, Row, Promise!GoesOn
      <3>5. QED
        BY <3>3, <3>4
    <2>2. Found(p) # Promise!Absent => Promise!Listed(Found(p)') = Promise!Listed(Found(p))
      <3>1. SUFFICES ASSUME Found(p) # Promise!Absent
                     PROVE  Promise!Listed(Found(p)') = Promise!Listed(Found(p))
        OBVIOUS
      <3>6. Found(p)'.rounds = EntryRows(p) /\ Found(p).rounds = NodeRunsOf(p)
        BY <1>4, <1>8, <3>1
      <3>7. /\ Promise!Listed(Found(p)') = {h.node : h \in EntryRows(p)}
            /\ Promise!Listed(Found(p)) = {h.node : h \in NodeRunsOf(p)}
        BY <3>6 DEF Promise!Listed
      <3>2. {h.node : h \in NodeRunsOf(p)} = Nodes(p)
        BY <1>2, <1>8, <3>1 DEF CourseInv, BehindInv
      <3>3. \A h \in NodeRunsOf(p)' : h.node \in Nodes(p)
        BY <1>2 DEF CourseInv, BehindInv
      <3>4. \A n \in Nodes(p) : \E h \in NodeRunsOf(p)' : h.node = n
        <4>1. \E r \in db'.runs : r.id = p
          <5> DEFINE run == [id |-> p, status |-> exec[p].status, finished |-> exec[p].finished]
          <5>1. run \in db'.runs /\ run.id = p
            BY <1>1
          <5>2. QED
            BY <5>1
        <4>2. QED
          BY <1>2, <4>1 DEF CourseInv, ListedInv
      <3>5. {h.node : h \in EntryRows(p)} = Nodes(p)
        BY <1>1, <3>3, <3>4
      <3>8. QED
        BY <3>2, <3>5, <3>7
    <2>3. QED
      BY <1>4, <1>8, <2>1, <2>2 DEF Promise!NothingTakenBack
  <1>10. Promise!WellNumbered(Found(p)'.rounds)
    <2>1. \A n \in Nodes(p) : HistoryInv(p, n, exec'[p].nodes[n]) /\ Course(exec'[p].nodes[n])
      BY <1>2, <1>3 DEF CourseInv, ExecInv, RoundsInv
    <2>2. \A row : row \in EntryRows(p)' <=>
            \E n \in Nodes(p) : \E i \in 1..Len(exec'[p].nodes[n]) : row = Row(p, n, exec'[p].nodes[n][i])
      BY DEF EntryRows, RowsOf
    <2>3. Promise!WellNumbered(EntryRows(p)')
      <3> DEFINE nodes == exec'[p].nodes
                 rows == EntryRows(p)'
      <3>1. /\ \A n \in Nodes(p) : HistoryInv(p, n, nodes[n]) /\ Course(nodes[n])
            /\ \A n \in Nodes(p) : \A i \in 1..Len(nodes[n]) : nodes[n][i].id # NoID
            /\ \A row : row \in rows <=>
                 \E n \in Nodes(p) : \E i \in 1..Len(nodes[n]) : row = Row(p, n, nodes[n][i])
        BY <1>3, <2>1, <2>2
      <3> HIDE DEF nodes, rows
      <3>2. Promise!WellNumbered(rows)
        BY <3>1, RoundsNumbered
      <3>3. QED
        BY <3>2 DEF rows
    <2>4. QED
      BY <1>1, <1>4, <2>3
  <1>11. Promise!Settled(Found(p)')
    <2>1. ASSUME exec[p].finished, NEW h \in EntryRows(p)
          PROVE  h.status \in Promise!Ended \cup {"Pending", "WaitingHuman"}
      <3>1. PICK n \in Nodes(p) :
              \E i \in 1..Len(exec[p].nodes[n]) : h = Row(p, n, exec[p].nodes[n][i])
        BY EntryRowsOf
      <3>2. PICK i \in 1..Len(exec[p].nodes[n]) : h = Row(p, n, exec[p].nodes[n][i])
        BY <3>1
      <3>3. h.status = exec[p].nodes[n][i].status
        BY <3>2 DEF Row
      <3>4. Course(exec[p].nodes[n]) /\ Len(exec[p].nodes[n]) \in Nat
            /\ exec[p].nodes[n][Len(exec[p].nodes[n])].status \notin {"Ready", "Running"}
        BY <1>2, <2>1 DEF CourseInv, EndInv, Current, ExecInv, RoundsInv, HistoryInv
      <3>5. CASE i < Len(exec[p].nodes[n])
        BY <3>3, <3>4, <3>5 DEF Course
      <3>6. CASE i = Len(exec[p].nodes[n])
        BY <3>3, <3>4, <3>6 DEF Course, Promise!Stage, Promise!Ended
      <3>7. QED
        BY <3>4, <3>5, <3>6
    <2>2. QED
      BY <1>2, <1>4, <2>1 DEF CourseInv, EndInv, Promise!Settled
  <1>12. QED
    BY <1>6, <1>7, <1>8, <1>9, <1>10, <1>11 DEF Promise!Write

LEMMA CourseInit ==
  ASSUME Init
  PROVE  RecordInv /\ Promise!RecordInit
  <1>1. /\ db = EmptyTables
        /\ exec = [p \in Processes |-> [status |-> "Running", finished |-> FALSE,
                     nodes |-> [n \in Nodes(p) |-> <<Entry(NoID, 0, "Pending")>>]]]
    BY DEF Init
  <1>2. db.runs = {} /\ db.nodeRuns = {}
    BY <1>1 DEF EmptyTables
  <1>3. ASSUME NEW p \in Processes
        PROVE  CourseInv(p) /\ Found(p) = Promise!Absent
    <2>1. ASSUME NEW n \in Nodes(p)
          PROVE  Course(exec[p].nodes[n])
      <3>1. exec[p].nodes[n] = <<Entry(NoID, 0, "Pending")>>
        BY <1>1
      <3>2. Entry(NoID, 0, "Pending").round = 0 /\ Entry(NoID, 0, "Pending").status = "Pending"
        BY DEF Entry
      <3>3. QED
        BY <3>1, <3>2 DEF Course, Promise!Stage
    <2>2. BehindInv(p) /\ ListedInv(p) /\ EndInv(p)
      BY <1>1, <1>2 DEF BehindInv, ListedInv, EndInv, NodeRunsOf
    <2>3. QED
      BY <1>2, <2>1, <2>2, NothingFound DEF CourseInv
  <1>4. QED
    BY <1>3 DEF RecordInv, Promise!RecordInit, Records

LEMMA CourseNext ==
  ASSUME IInv, RecordInv, [Next]_vars
  PROVE  RecordInv' /\ [Promise!RecordNext]_Records
  <1>1. CASE SameRows /\ exec' = exec
    BY <1>1, SameCourse
  <1>2. ASSUME NEW p \in Processes, Run(p)
        PROVE  RecordInv' /\ [Promise!RecordNext]_Records
    <2>1. CASE ImportDefinitions(p) \/ ImportWorkflow(p)
      BY <1>1, <2>1, ImportsKeepRows
    <2>2. ASSUME NEW n \in Nodes(p), PinNode(p, n)
          PROVE  RecordInv' /\ [Promise!RecordNext]_Records
      BY <1>1, <2>2 DEF PinNode, SameRows
    <2>3. ASSUME NEW n \in Nodes(p), PrepareRun(p, n)
          PROVE  RecordInv' /\ [Promise!RecordNext]_Records
      BY <2>3, PrepareRunCourse
    <2>4. ASSUME NEW n \in Nodes(p), NEW status \in DOMAIN Transitions, TransitionTo(p, n, status)
          PROVE  RecordInv' /\ [Promise!RecordNext]_Records
      BY <2>4, TransitionToCourse
    <2>5. CASE FinishRun(p)
      BY <2>5, FinishRunCourse
    <2>6. CASE Record(p)
      BY <2>6, RecordCourse, RecordWrites DEF Promise!RecordNext
    <2>7. CASE RecordFails(p)
      BY <2>7, RecordFailsCourse
    <2>8. CASE AdviceAnswered(p)
      BY <2>8, AdviceAnsweredCourse
    <2>9. QED
      BY <1>2, <2>1, <2>2, <2>3, <2>4, <2>5, <2>6, <2>7, <2>8 DEF Run
  <1>3. CASE History
    BY <1>1, <1>3 DEF History, ResolveRun, ReadRunRow, ReadNodes, ReadNodeRounds, ListRuns, SameRows
  <1>4. CASE PrintAndExit
    BY <1>1, <1>4 DEF PrintAndExit, SameRows
  <1>5. CASE UNCHANGED vars
    BY <1>1, <1>5 DEF vars, SameRows
  <1>6. QED
    BY <1>2, <1>3, <1>4, <1>5 DEF Next

\* However transactions fall between the steps of the engines, and whichever of them fail: what
\* the history has shown of a Run is never taken back, its rounds go on in their order and under
\* their ids, and a Run shown as finished never changes.
THEOREM Refinement == Spec => ImplementsRunRecord
  <1>1. Init => RecordInv /\ Promise!RecordInit
    BY CourseInit
  <1>2. IInv /\ RecordInv /\ [Next]_vars => RecordInv' /\ [Promise!RecordNext]_Records
    BY CourseNext
  <1>3. QED
    BY <1>1, <1>2, Inductive, PTL DEF Spec, ImplementsRunRecord, Promise!RecordSpec
=============================================================================
