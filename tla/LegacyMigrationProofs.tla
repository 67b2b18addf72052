------------------------ MODULE LegacyMigrationProofs ------------------------
(***************************************************************************)
(* Theorems about LegacyMigration, for every history of the old store,     *)
(* any number of migrators and of faults: migrated rows have their files,  *)
(* migrated Runs have their node runs, a call that fails leaves no trace,  *)
(* and a migration can be repeated.                                        *)
(***************************************************************************)
EXTENDS LegacyMigration, SequenceTheorems, TLAPS

-----------------------------------------------------------------------------
(* What an import inserts.                                                 *)

\* The rows whose id is not there yet.
Added(have, rows) == {row \in rows : \A h \in have : h.id # row.id}

Stripped(rows) == {[row EXCEPT !.execution = None] : row \in rows}

\* Whatever becomes of the other tables, an import adds the Runs and the node runs of the
\* snapshot under their own ids and takes nothing away.
LEMMA ImportedRows ==
  ASSUME NEW have, NEW snapshot
  PROVE  LET rows == Apply(have, snapshot).rows IN
         /\ rows.runs = have.runs \cup Added(have.runs, Stripped(snapshot.runs))
         /\ rows.nodeRuns = have.nodeRuns \cup Added(have.nodeRuns, snapshot.nodeRuns)
  <1>1. /\ Apply(have, snapshot).rows.runs = EnsureRun(have.runs, Stripped(snapshot.runs)).rows
        /\ Apply(have, snapshot).rows.nodeRuns = EnsureNodeRun(have.nodeRuns, snapshot.nodeRuns).rows
    BY DEF Apply, Stripped
  <1>2. ASSUME NEW h, NEW rows
        PROVE  /\ EnsureRun(h, rows).rows = h \cup Added(h, rows)
               /\ EnsureNodeRun(h, rows).rows = h \cup Added(h, rows)
    BY DEF EnsureRun, EnsureNodeRun, Ensure, Added
  <1>3. QED
    BY <1>1, <1>2
-----------------------------------------------------------------------------
(* The inductive invariant.                                                *)

\* The files that the node runs of some tables name are in place.
HaveFiles(tables, there) ==
  \A n \in tables.nodeRuns : \A i \in DOMAIN SourceHistory :
    \A run \in SourceHistory[i].runs : run.id = n.run =>
      \A uri \in n.refs : LegacyName(uri) =>
        /\ uri \in DOMAIN there[n.run]
        /\ there[n.run][uri] = source.files[run.execution][uri]

\* A Run that the destination did not have is that of one moment of the old store, with the
\* node runs of that moment at least.
WholeAt(run, i, tables) ==
  /\ run \in Stripped(SourceHistory[i].runs)
  /\ \A n \in SourceHistory[i].nodeRuns :
       n.run = run.id => \E copy \in tables.nodeRuns : copy.id = n.id

HaveNodeRuns(tables) ==
  \A run \in tables.runs :
    run \in first.db.runs \/ \E i \in source.since..source.at : WholeAt(run, i, tables)

Fields == {"at", "snapshot", "loaded", "rows", "staged", "published", "reason", "before"}

\* Where a call holds the write lock.
Holding == {"staging", "publishing", "restoring"}

\* The shape of what a call remembers; Runs are published while it publishes, and
\* files are copied when it has the lock.
Typed(m) ==
  /\ DOMAIN job[m] = Fields
  /\ DOMAIN job[m].snapshot = DOMAIN EmptyTables
  /\ DOMAIN job[m].staged = Runs
  /\ job[m].loaded \in 0..7
  /\ job[m].published \in Seq(Runs)
  /\ job[m].at \notin Holding => job[m].staged = [r \in Runs |-> NoDir]
  /\ job[m].at \notin {"publishing", "restoring"} => job[m].published = <<>>
  /\ job[m].at \notin {"restoring", "failed"} => job[m].reason = None

\* Runs are read before node runs, each at one moment.
Loaded(m) ==
  /\ job[m].at = "loading" => job[m].loaded < 7
  /\ job[m].at \in {"loaded", "opened", "staging", "publishing"} => job[m].loaded = 7
  /\ \E i, j \in source.since..source.at :
       /\ i <= j
       /\ job[m].snapshot.runs = IF job[m].loaded >= 6 THEN SourceHistory[i].runs ELSE {}
       /\ job[m].snapshot.nodeRuns = IF job[m].loaded = 7 THEN SourceHistory[j].nodeRuns ELSE {}

\* What has been copied is the file of the execution.
Copied(m) ==
  \A r \in Runs : \A uri \in DOMAIN job[m].staged[r] :
    job[m].staged[r][uri] = source.files[Execution(m, r)][uri]

In(x, s) == \E k \in DOMAIN s : s[k] = x

Published(m, r) == In(r, job[m].published)

\* The call that holds the write lock: the tables are those it found, the directories are
\* too, apart from those it has published, which were not there.
Locks(m) ==
  job[m].at \in Holding =>
    /\ writer = m
    /\ job[m].rows = Apply(db, job[m].snapshot).rows
    /\ job[m].before = <<db, job[m].before[2]>>
    /\ job[m].before[2] = [r \in Runs |-> job[m].before[2][r]]
    /\ HaveFiles(db, job[m].before[2])
    /\ \A r \in Runs :
         \/ dirs[r] = job[m].before[2][r] /\ ~ Published(m, r)
         \/ job[m].before[2][r] = NoDir /\ (Published(m, r) \/ job[m].reason = "left behind")

\* Before the first directory is renamed every file is copied, and what stands in the
\* destination is the same.
Staged(m) ==
  job[m].at = "publishing" =>
    /\ Orphans(m) = {}
    /\ ToStage(m) = {}
    /\ \A r \in Runs : dirs[r] # NoDir => EqualFiles(job[m].staged[r], dirs[r])

JobInv(m) == Typed(m) /\ Loaded(m) /\ Copied(m) /\ Locks(m) /\ Staged(m)

SourceInv ==
  /\ DOMAIN source = {"version", "files", "db", "at", "since"}
  /\ source.since \in DOMAIN SourceHistory
  /\ source.at \in source.since..Len(SourceHistory)
  /\ source.db = SourceHistory[source.at]

IInv ==
  /\ SourceInv
  /\ first \in Destinations
  /\ DOMAIN job = Migrators
  /\ dirs = [r \in Runs |-> dirs[r]]
  /\ HaveFiles(db, dirs)
  /\ HaveNodeRuns(db)
  /\ \A m \in Migrators : JobInv(m)
-----------------------------------------------------------------------------
(* Calls that are not at work, and the calls beside the one that moves.    *)

Resting(j) ==
  \/ j = Idle
  \/ \E at \in {"done", "failed"} : \E reason, before :
       /\ j = [Idle EXCEPT !.at = at, !.reason = reason, !.before = before]
       /\ at = "done" => reason = None

LEMMA IdleFields ==
  /\ DOMAIN Idle = Fields /\ Idle.at = "idle" /\ Idle.loaded = 0 /\ Idle.published = <<>>
  /\ Idle.snapshot = EmptyTables /\ EmptyTables.runs = {} /\ EmptyTables.nodeRuns = {}
  /\ Idle.staged = [r \in Runs |-> NoDir] /\ Idle.reason = None
  /\ "runs" \in DOMAIN EmptyTables /\ "nodeRuns" \in DOMAIN EmptyTables
  /\ DOMAIN NoDir = {}
  BY DEF Idle, Fields, EmptyTables, NoDir

LEMMA RestingInv ==
  ASSUME NEW m \in Migrators, Resting(job[m]), SourceInv
  PROVE  JobInv(m)
  <1>1. /\ DOMAIN job[m] = Fields /\ job[m].at \in {"idle", "done", "failed"}
        /\ job[m].loaded = 0 /\ job[m].published = <<>> /\ job[m].snapshot = EmptyTables
        /\ job[m].staged = [r \in Runs |-> NoDir]
        /\ job[m].at # "failed" => job[m].reason = None
    BY IdleFields DEF Resting, Fields
  <1>2. Typed(m)
    BY <1>1 DEF Typed, Holding
  <1>3. source.since \in source.since..source.at
    BY SourceAssumption DEF SourceInv
  <1>4. Loaded(m)
    BY <1>1, <1>3, IdleFields DEF Loaded, SourceInv
  <1>5. Copied(m)
    BY <1>1, IdleFields DEF Copied
  <1>6. QED
    BY <1>1, <1>2, <1>4, <1>5 DEF JobInv, Locks, Staged, Holding

LEMMA RestingNext ==
  ASSUME NEW m \in Migrators
  PROVE  Resting(job'[m]) /\ SourceInv' => JobInv(m)'
  <1>1. Resting(job[m]) /\ SourceInv => JobInv(m)
    BY RestingInv
  <1>2. (Resting(job[m]) /\ SourceInv => JobInv(m))'
    BY <1>1, PTL
  <1>3. QED
    BY <1>2 DEF Resting

\* A step that touches neither the old store nor what another call holds.
Apart(m) ==
  /\ job' = [job EXCEPT ![m] = job'[m]]
  /\ UNCHANGED <<source, first>>
  /\ writer \notin {None, m} => writer' = writer
  /\ writer # m => UNCHANGED <<db, dirs>>

\* What a step leaves alone keeps its invariant.
LEMMA UntouchedInv ==
  ASSUME IInv, NEW m \in Migrators, NEW q \in Migrators, q # m, Apart(m)
  PROVE  JobInv(q)'
  <1>1. job'[q] = job[q] /\ source' = source /\ first' = first /\ JobInv(q)
    BY DEF Apart, IInv
  <1>2. Typed(q)' /\ Loaded(q)' /\ Copied(q)'
    <2>1. Typed(q)'
      BY <1>1 DEF JobInv, Typed
    <2>2. Loaded(q)'
      BY <1>1 DEF JobInv, Loaded
    <2>3. Copied(q)'
      BY <1>1 DEF JobInv, Copied, Execution
    <2>4. QED
      BY <2>1, <2>2, <2>3
  <1>3. Locks(q)' /\ Staged(q)'
    <2>1. CASE job[q].at \in Holding
      <3>1. writer = q /\ q # None
        BY <1>1, <2>1, MigrationAssumption DEF JobInv, Locks
      <3>2. writer' = q /\ db' = db /\ dirs' = dirs
        BY <3>1 DEF Apart
      <3>3. Locks(q)'
        <4>1. HaveFiles(db, job[q].before[2])' <=> HaveFiles(db, job[q].before[2])
          BY <1>1, <3>2 DEF HaveFiles
        <4>2. \A r : Published(q, r)' <=> Published(q, r)
          BY <1>1 DEF Published
        <4>3. Apply(db, job[q].snapshot)' = Apply(db, job[q].snapshot)
          BY <1>1, <3>2
        <4>4. QED
          BY <1>1, <2>1, <3>2, <4>1, <4>2, <4>3 DEF JobInv, Locks
      <3>4. Staged(q)'
        BY <1>1, <3>2 DEF JobInv, Staged, Orphans, ToStage, ArtifactRefs
      <3>5. QED
        BY <3>3, <3>4
    <2>2. CASE job[q].at \notin Holding
      BY <1>1, <2>2 DEF Locks, Staged, Holding
    <2>3. QED
      BY <2>1, <2>2
  <1>4. QED
    BY <1>2, <1>3 DEF JobInv

\* The step of one call preserves everything, when it does for that call and for the rows.
LEMMA StepInv ==
  ASSUME IInv, NEW m \in Migrators, Apart(m), JobInv(m)',
         (dirs = [r \in Runs |-> dirs[r]])', HaveFiles(db, dirs)', HaveNodeRuns(db)'
  PROVE  IInv'
  <1>1. SourceInv' /\ (first \in Destinations)' /\ (DOMAIN job = Migrators)'
    BY DEF IInv, Apart, SourceInv
  <1>2. \A q \in Migrators : JobInv(q)'
    BY UntouchedInv
  <1>3. QED
    BY <1>1, <1>2 DEF IInv

\* The same for a step that writes no row and renames no directory.
LEMMA QuietStepInv ==
  ASSUME IInv, NEW m \in Migrators, Apart(m), JobInv(m)', UNCHANGED <<db, dirs>>
  PROVE  IInv'
  <1>1. (dirs = [r \in Runs |-> dirs[r]])' /\ HaveFiles(db, dirs)' /\ HaveNodeRuns(db)'
    BY DEF IInv, Apart, HaveFiles, HaveNodeRuns, WholeAt
  <1>2. QED
    BY <1>1, StepInv

\* A call that ends, crashes or is made again.
LEMMA RestingStepInv ==
  ASSUME IInv, NEW m \in Migrators, Apart(m), Resting(job'[m]), UNCHANGED <<db, dirs>>
  PROVE  IInv'
  <1>1. SourceInv'
    BY DEF IInv, SourceInv, Apart
  <1>2. QED
    BY <1>1, RestingNext, QuietStepInv

LEMMA FailsInv ==
  ASSUME IInv, NEW m \in Migrators, NEW at, NEW reason, Fails(m, at, reason), UNCHANGED dirs
  PROVE  IInv'
  <1>1. job' = [job EXCEPT ![m] = Ended(m, "failed", reason)] /\ m \in DOMAIN job
    BY DEF Fails, Moves, IInv
  <1>2. Resting(job'[m])
    BY <1>1 DEF Resting, Ended
  <1>3. Apart(m)
    BY <1>1 DEF Fails, Apart
  <1>4. QED
    BY <1>2, <1>3, RestingStepInv DEF Fails
-----------------------------------------------------------------------------
(* Reading the old store.                                                  *)

LEMMA OpenSourceStep ==
  ASSUME IInv, NEW m \in Migrators, OpenSource(m)
  PROVE  IInv'
  <1>1. CASE source.version < 2
    BY <1>1, FailsInv DEF OpenSource
  <1>2. CASE ~ (source.version < 2)
    <2>1. /\ job' = [job EXCEPT ![m] = [Idle EXCEPT !.at = "loading"]] /\ m \in DOMAIN job
          /\ UNCHANGED <<source, db, dirs, writer, first>>
      BY <1>2 DEF OpenSource, Moves, IInv
    <2>2. /\ DOMAIN job'[m] = Fields /\ job'[m].at = "loading" /\ job'[m].loaded = 0
          /\ job'[m].published = <<>> /\ job'[m].snapshot = EmptyTables
          /\ job'[m].staged = [r \in Runs |-> NoDir] /\ job'[m].reason = None
      BY <2>1, IdleFields DEF Fields
    <2>3. Typed(m)'
      BY <2>2 DEF Typed, Holding
    <2>4. source'.since \in source'.since..source'.at
      BY <2>1, SourceAssumption DEF IInv, SourceInv
    <2>5. Loaded(m)'
      BY <2>2, <2>4, IdleFields DEF Loaded
    <2>6. Copied(m)'
      BY <2>2, IdleFields DEF Copied
    <2>7. JobInv(m)'
      BY <2>2, <2>3, <2>5, <2>6 DEF JobInv, Locks, Staged, Holding
    <2>8. Apart(m)
      BY <2>1 DEF Apart
    <2>9. QED
      BY <2>1, <2>7, <2>8, QuietStepInv
  <1>3. QED
    BY <1>1, <1>2

LEMMA LoadTableStep ==
  ASSUME IInv, NEW m \in Migrators, LoadTable(m)
  PROVE  IInv'
  <1> DEFINE table == LoadOrder[job[m].loaded + 1]
  <1> DEFINE next == [job[m] EXCEPT !.snapshot[table] = source.db[table], !.loaded = @ + 1,
                        !.at = IF job[m].loaded = 6 THEN "loaded" ELSE "loading"]
  <1>1. CASE Fails(m, "loading", "unreadable")
    BY <1>1, FailsInv DEF LoadTable
  <1>2. CASE Moves(m, "loading", next) /\ UNCHANGED <<source, db, writer, first>>
    <2>1. /\ job[m].at = "loading" /\ job' = [job EXCEPT ![m] = next] /\ m \in DOMAIN job
          /\ UNCHANGED <<source, db, dirs, writer, first>>
      BY <1>2 DEF LoadTable, Moves, IInv
    <2>2. /\ Typed(m) /\ Loaded(m) /\ SourceInv
          /\ job[m].reason = None /\ job[m].published = <<>>
          /\ job[m].staged = [r \in Runs |-> NoDir]
      BY <2>1 DEF IInv, JobInv, Typed, Holding
    <2>12. job[m].loaded \in 0..6
      BY <2>1, <2>2 DEF Typed, Loaded
    <2>3. job'[m] = next
      BY <2>1
    <2>4. /\ DOMAIN next = Fields /\ next.loaded = job[m].loaded + 1
          /\ next.at = IF job[m].loaded = 6 THEN "loaded" ELSE "loading"
          /\ next.published = job[m].published /\ next.reason = None
          /\ next.staged = job[m].staged
          /\ next.snapshot = [job[m].snapshot EXCEPT ![table] = source.db[table]]
      BY <2>2 DEF Typed, Fields
    <2> HIDE DEF next, table
    <2>5. Typed(m)'
      BY <2>2, <2>12, <2>3, <2>4 DEF Typed, Holding
    <2>6. Loaded(m)'
      <3>1. PICK i \in source.since..source.at, j \in source.since..source.at :
              /\ i <= j
              /\ job[m].snapshot.runs = IF job[m].loaded >= 6 THEN SourceHistory[i].runs ELSE {}
              /\ job[m].snapshot.nodeRuns = IF job[m].loaded = 7 THEN SourceHistory[j].nodeRuns ELSE {}
        BY <2>2 DEF Loaded
      <3>2. /\ source.at \in source.since..source.at /\ i <= source.at /\ i \in Int
            /\ source.db = SourceHistory[source.at]
        BY <2>2, SourceAssumption DEF SourceInv
      <3>3. CASE job[m].loaded < 5
        <4>1. table \in {"types", "defs", "executors", "workflows", "instances"}
          BY <2>12, <3>3 DEF table, LoadOrder, Tables
        <4>2. /\ next.snapshot.runs = job[m].snapshot.runs
              /\ next.snapshot.nodeRuns = job[m].snapshot.nodeRuns
          BY <2>2, <2>4, <4>1, IdleFields DEF Typed
        <4>3. job'[m].loaded \in 1..5 /\ job'[m].at = "loading"
          BY <2>3, <2>4, <2>12, <3>3
        <4>4. job'[m].snapshot.runs = {} /\ job'[m].snapshot.nodeRuns = {}
          BY <2>3, <2>12, <3>1, <3>3, <4>2
        <4>5. ~ (job'[m].loaded >= 6) /\ job'[m].loaded # 7 /\ job'[m].loaded < 7
          BY <4>3
        <4>6. QED
          BY <2>1, <3>1, <4>3, <4>4, <4>5 DEF Loaded
      <3>4. CASE job[m].loaded = 5
        <4>1. table = "runs"
          BY <3>4 DEF table, LoadOrder, Tables
        <4>2. /\ next.snapshot.runs = SourceHistory[source.at].runs
              /\ next.snapshot.nodeRuns = {}
          BY <2>2, <2>4, <3>1, <3>2, <3>4, <4>1, IdleFields DEF Typed
        <4>3. job'[m].loaded = 6 /\ job'[m].at = "loading"
          BY <2>3, <2>4, <3>4
        <4>4. \E i1, j1 \in source'.since..source'.at :
                /\ i1 <= j1
                /\ job'[m].snapshot.runs = SourceHistory[i1].runs
                /\ job'[m].snapshot.nodeRuns = {}
          BY <2>1, <2>3, <3>2, <4>2
        <4>5. QED
          BY <4>3, <4>4 DEF Loaded
      <3>5. CASE job[m].loaded = 6
        <4>1. table = "nodeRuns"
          BY <3>5 DEF table, LoadOrder, Tables
        <4>2. /\ next.snapshot.runs = SourceHistory[i].runs
              /\ next.snapshot.nodeRuns = SourceHistory[source.at].nodeRuns
          BY <2>2, <2>4, <3>1, <3>2, <3>5, <4>1, IdleFields DEF Typed
        <4>3. job'[m].loaded = 7 /\ job'[m].at = "loaded"
          BY <2>3, <2>4, <3>5
        <4>4. QED
          BY <2>1, <2>3, <3>1, <3>2, <4>2, <4>3 DEF Loaded
      <3>6. QED
        BY <2>12, <3>3, <3>4, <3>5
    <2>7. Copied(m)'
      BY <2>2, <2>3, <2>4, IdleFields DEF Copied
    <2>8. JobInv(m)'
      BY <2>3, <2>4, <2>5, <2>6, <2>7 DEF JobInv, Locks, Staged, Holding
    <2>9. Apart(m)
      BY <2>1, <2>3 DEF Apart
    <2>10. QED
      BY <2>1, <2>8, <2>9, QuietStepInv
  <1>3. QED
    BY <1>1, <1>2 DEF LoadTable

-----------------------------------------------------------------------------
(* The transaction.                                                        *)

LEMMA OpenTargetStep ==
  ASSUME IInv, NEW m \in Migrators, OpenTarget(m)
  PROVE  IInv'
  <1>1. /\ job[m].at = "loaded" /\ job' = [job EXCEPT ![m] = [job[m] EXCEPT !.at = "opened"]]
        /\ m \in DOMAIN job /\ JobInv(m) /\ UNCHANGED <<source, db, dirs, writer, first>>
    BY DEF OpenTarget, Moves, IInv
  <1>2. job'[m] = [job[m] EXCEPT !.at = "opened"] /\ Typed(m)
    BY <1>1 DEF JobInv
  <1>3. /\ DOMAIN job'[m] = Fields /\ job'[m].at = "opened" /\ job'[m].loaded = job[m].loaded
        /\ job'[m].snapshot = job[m].snapshot /\ job'[m].staged = job[m].staged
        /\ job'[m].published = job[m].published /\ job'[m].reason = job[m].reason
    BY <1>2 DEF Typed, Fields
  <1>4. Typed(m)'
    BY <1>1, <1>2, <1>3 DEF Typed, Holding
  <1>5. Loaded(m)'
    BY <1>1, <1>3 DEF JobInv, Loaded
  <1>6. Copied(m)'
    BY <1>1, <1>3 DEF JobInv, Copied, Execution
  <1>7. JobInv(m)'
    BY <1>3, <1>4, <1>5, <1>6 DEF JobInv, Locks, Staged, Holding
  <1>8. Apart(m)
    BY <1>1, <1>2 DEF Apart
  <1>9. QED
    BY <1>1, <1>7, <1>8, QuietStepInv

LEMMA BeginStep ==
  ASSUME IInv, NEW m \in Migrators, Begin(m)
  PROVE  IInv'
  <1> DEFINE next == [job[m] EXCEPT !.at = "staging", !.rows = Apply(db, job[m].snapshot).rows,
                        !.before = <<db, dirs>>]
  <1>1. CASE Fails(m, "opened", "conflict")
    BY <1>1, FailsInv DEF Begin
  <1>2. CASE Moves(m, "opened", next) /\ writer' = m /\ UNCHANGED <<source, version, db, first>>
    <2>1. /\ job[m].at = "opened" /\ job' = [job EXCEPT ![m] = next] /\ m \in DOMAIN job
          /\ writer = None /\ writer' = m /\ UNCHANGED <<source, db, dirs, first>>
          /\ JobInv(m) /\ dirs = [r \in Runs |-> dirs[r]] /\ HaveFiles(db, dirs)
      BY <1>2 DEF Begin, Moves, IInv
    <2>2. job'[m] = next /\ Typed(m)
      BY <2>1 DEF JobInv
    <2>3. /\ DOMAIN job'[m] = Fields /\ job'[m].at = "staging" /\ job'[m].loaded = job[m].loaded
          /\ job'[m].snapshot = job[m].snapshot /\ job'[m].staged = job[m].staged
          /\ job'[m].published = job[m].published /\ job'[m].reason = job[m].reason
          /\ job'[m].rows = Apply(db, job[m].snapshot).rows /\ job'[m].before = <<db, dirs>>
      BY <2>2 DEF Typed, Fields
    <2> HIDE DEF next
    <2>4. Typed(m)'
      BY <2>1, <2>2, <2>3 DEF Typed, Holding
    <2>5. Loaded(m)'
      BY <2>1, <2>3 DEF JobInv, Loaded
    <2>6. Copied(m)'
      BY <2>1, <2>3 DEF JobInv, Copied, Execution
    <2>7. Locks(m)'
      <3>1. job'[m].published = <<>>
        BY <2>1, <2>2, <2>3 DEF Typed
      <3>2. \A r \in Runs : ~ Published(m, r)'
        BY <3>1 DEF Published, In
      <3>3. job'[m].before[2] = dirs'
        BY <2>1, <2>3
      <3>4. HaveFiles(db, job[m].before[2])'
        BY <2>1, <3>3 DEF HaveFiles
      <3>5. job'[m].rows = Apply(db', job'[m].snapshot).rows
        BY <2>1, <2>3
      <3>6. QED
        BY <2>1, <2>3, <3>2, <3>3, <3>4, <3>5 DEF Locks
    <2>8. JobInv(m)'
      BY <2>3, <2>4, <2>5, <2>6, <2>7 DEF JobInv, Staged
    <2>9. Apart(m)
      BY <2>1, <2>2 DEF Apart
    <2>10. QED
      BY <2>1, <2>8, <2>9, QuietStepInv
  <1>3. QED
    BY <1>1, <1>2 DEF Begin

-----------------------------------------------------------------------------
(* The files.                                                              *)

LEMMA StageFileStep ==
  ASSUME IInv, NEW m \in Migrators, StageFile(m)
  PROVE  IInv'
  <1>1. PICK item \in ToStage(m) :
          LET r == item[1]  uri == item[2]  from == source.files[Execution(m, r)]
          IN  IF uri \in DOMAIN from
                THEN /\ Moves(m, "staging", [job[m] EXCEPT !.staged[r] = With(@, uri, from[uri])])
                     /\ UNCHANGED <<source, version, db, writer, first>>
                ELSE Fails(m, "staging", "missing file")
    BY DEF StageFile
  <1> DEFINE r == item[1]
             uri == item[2]
             from == source.files[Execution(m, r)]
             next == [job[m] EXCEPT !.staged[r] = With(job[m].staged[r], uri, from[uri])]
  <1>2. CASE uri \notin DOMAIN from
    BY <1>1, <1>2, FailsInv DEF StageFile
  <1>3. CASE uri \in DOMAIN from
    <2>1. /\ job[m].at = "staging" /\ job' = [job EXCEPT ![m] = next] /\ m \in DOMAIN job
          /\ UNCHANGED <<source, db, dirs, writer, first>> /\ JobInv(m)
      BY <1>1, <1>3 DEF StageFile, Moves, IInv
    <2>11. PICK run \in Runs : \E u \in ArtifactRefs(m, run) : item = <<run, u>>
      BY DEF ToStage
    <2>2. job'[m] = next /\ Typed(m) /\ r \in Runs
      BY <2>1, <2>11 DEF JobInv
    <2>3. /\ DOMAIN job'[m] = Fields /\ job'[m].at = "staging" /\ job'[m].loaded = job[m].loaded
          /\ job'[m].snapshot = job[m].snapshot /\ job'[m].published = job[m].published
          /\ job'[m].reason = job[m].reason /\ job'[m].rows = job[m].rows
          /\ job'[m].before = job[m].before
          /\ job'[m].staged = [job[m].staged EXCEPT ![r] = With(job[m].staged[r], uri, from[uri])]
      BY <2>1, <2>2 DEF Typed, Fields
    <2> HIDE DEF next
    <2>4. Typed(m)'
      BY <2>1, <2>2, <2>3 DEF Typed, Holding
    <2>5. Loaded(m)'
      BY <2>1, <2>3 DEF JobInv, Loaded
    <2>6. Copied(m)'
      <3>1. SUFFICES ASSUME NEW q \in Runs, NEW u \in DOMAIN job'[m].staged[q]
                     PROVE  job'[m].staged[q][u] = source.files[Execution(m, q)][u]
        BY SMTT(30), <2>1, <2>3 DEF Copied, Execution
      <3>2. CASE q = r /\ u = uri
        BY <2>2, <2>3, <3>2 DEF Typed, With
      <3>3. CASE q = r /\ u # uri
        <4>1. job'[m].staged[q] = With(job[m].staged[r], uri, from[uri])
          BY <2>2, <2>3, <3>3 DEF Typed
        <4>2. u \in DOMAIN job[m].staged[r] /\ job'[m].staged[q][u] = job[m].staged[r][u]
          BY <3>1, <3>3, <4>1 DEF With
        <4>3. QED
          BY <2>1, <2>2, <3>3, <4>2 DEF JobInv, Copied
      <3>4. CASE q # r
        BY <2>1, <2>2, <2>3, <3>4 DEF Typed, JobInv, Copied
      <3>5. QED
        BY <3>2, <3>3, <3>4
    <2>7. Locks(m)'
      <3>1. \A q : Published(m, q)' <=> Published(m, q)
        BY <2>3 DEF Published
      <3>2. HaveFiles(db, job[m].before[2])' <=> HaveFiles(db, job[m].before[2])
        BY <2>1, <2>3 DEF HaveFiles
      <3>3. Apply(db, job[m].snapshot)' = Apply(db, job[m].snapshot)
        BY <2>1, <2>3
      <3>4. QED
        BY <2>1, <2>3, <3>1, <3>2, <3>3 DEF JobInv, Locks
    <2>8. JobInv(m)'
      BY <2>3, <2>4, <2>5, <2>6, <2>7 DEF JobInv, Staged
    <2>9. Apart(m)
      BY <2>1, <2>2 DEF Apart
    <2>10. QED
      BY <2>1, <2>8, <2>9, QuietStepInv
  <1>4. QED
    BY <1>2, <1>3

\* A call that moves on with what it has.
MovesOn(m, at, reason) ==
  /\ job' = [job EXCEPT ![m] = [job[m] EXCEPT !.at = at, !.reason = reason]]
  /\ job[m].at \in {"staging", "publishing"}
  /\ UNCHANGED <<source, db, dirs, writer, first>>

LEMMA MovesOnInv ==
  ASSUME IInv, NEW m \in Migrators, NEW at \in {"publishing", "restoring"}, NEW reason,
         MovesOn(m, at, reason), at # "restoring" => reason = None,
         at = "publishing" =>
           /\ Orphans(m) = {}
           /\ ToStage(m) = {}
           /\ \A r \in Runs : dirs[r] # NoDir => EqualFiles(job[m].staged[r], dirs[r])
  PROVE  IInv'
  <1>1. m \in DOMAIN job /\ JobInv(m) /\ Typed(m)
    BY DEF IInv, JobInv
  <1>2. /\ job'[m] = [job[m] EXCEPT !.at = at, !.reason = reason]
        /\ source' = source /\ db' = db /\ dirs' = dirs /\ writer' = writer /\ first' = first
        /\ job[m].reason = None /\ job[m].at \in {"staging", "publishing"}
    BY <1>1 DEF Typed, MovesOn
  <1>3. /\ DOMAIN job'[m] = Fields /\ job'[m].at = at /\ job'[m].loaded = job[m].loaded
        /\ job'[m].snapshot = job[m].snapshot /\ job'[m].published = job[m].published
        /\ job'[m].reason = reason /\ job'[m].rows = job[m].rows
        /\ job'[m].before = job[m].before /\ job'[m].staged = job[m].staged
    BY <1>1, <1>2 DEF Typed, Fields
  <1>4. Typed(m)'
    BY <1>1, <1>2, <1>3 DEF Typed, Holding
  <1>5. Loaded(m)'
    BY <1>1, <1>2, <1>3 DEF JobInv, Loaded, Holding
  <1>6. Copied(m)'
    BY <1>1, <1>2, <1>3 DEF JobInv, Copied, Execution
  <1>7. Locks(m)'
    <2>1. \A q : Published(m, q)' <=> Published(m, q)
      BY <1>3 DEF Published, In
    <2>2. HaveFiles(db, job[m].before[2])' <=> HaveFiles(db, job[m].before[2])
      BY <1>2, <1>3 DEF HaveFiles
    <2>3. Apply(db, job[m].snapshot)' = Apply(db, job[m].snapshot)
      BY <1>2, <1>3
    <2>4. QED
      BY <1>1, <1>2, <1>3, <2>1, <2>2, <2>3 DEF JobInv, Locks, Holding, None
  <1>8. Staged(m)'
    BY <1>2, <1>3 DEF Staged, Orphans, ToStage, ArtifactRefs
  <1>9. Apart(m)
    BY <1>2 DEF Apart, MovesOn
  <1>10. QED
    BY <1>2, <1>4, <1>5, <1>6, <1>7, <1>8, <1>9, QuietStepInv DEF JobInv

LEMMA CheckPublishedStep ==
  ASSUME IInv, NEW m \in Migrators, CheckPublished(m)
  PROVE  IInv'
  <1>1. CASE Fails(m, "staging", "occupied")
    BY <1>1, FailsInv DEF CheckPublished
  <1>2. CASE ~ Fails(m, "staging", "occupied")
    <2>1. /\ job[m].at = "staging" /\ Orphans(m) = {} /\ ToStage(m) = {}
          /\ \A r \in Runs : dirs[r] # NoDir => EqualFiles(job[m].staged[r], dirs[r])
          /\ job' = [job EXCEPT ![m] = [job[m] EXCEPT !.at = "publishing"]]
          /\ UNCHANGED <<source, db, dirs, writer, first>>
      BY <1>2 DEF CheckPublished, Moves
    <2>2. DOMAIN job[m] = Fields /\ job[m].reason = None
      BY <2>1 DEF IInv, JobInv, Typed
    <2>3. [job[m] EXCEPT !.at = "publishing"] = [job[m] EXCEPT !.at = "publishing", !.reason = None]
      BY <2>2 DEF Fields
    <2>4. MovesOn(m, "publishing", None)
      BY <2>1, <2>3 DEF MovesOn
    <2>5. QED
      BY <2>1, <2>4, MovesOnInv
  <1>3. QED
    BY <1>1, <1>2

LEMMA IsRefusedStep ==
  ASSUME IInv, NEW m \in Migrators, IsRefused(m)
  PROVE  IInv'
  <1>1. /\ job[m].at = "publishing" /\ UNCHANGED <<source, db, dirs, writer, first>>
        /\ job' = [job EXCEPT ![m] = [job[m] EXCEPT !.at = "restoring", !.reason = "fault"]]
    BY DEF IsRefused, Restores, Moves
  <1>2. MovesOn(m, "restoring", "fault")
    BY <1>1 DEF MovesOn
  <1>3. QED
    BY <1>2, MovesOnInv

LEMMA InAppend ==
  ASSUME NEW S, NEW s \in Seq(S), NEW x \in S, NEW q
  PROVE  In(q, Append(s, x)) <=> (q = x \/ In(q, s))
  <1>1. /\ DOMAIN Append(s, x) = 1..(Len(s) + 1) /\ DOMAIN s = 1..Len(s) /\ Len(s) \in Nat
        /\ Append(s, x)[Len(s) + 1] = x /\ \A k \in 1..Len(s) : Append(s, x)[k] = s[k]
    OBVIOUS
  <1>2. 1..(Len(s) + 1) = 1..Len(s) \cup {Len(s) + 1}
    BY <1>1
  <1>3. QED
    BY <1>1, <1>2 DEF In

LEMMA InFront ==
  ASSUME NEW S, NEW s \in Seq(S), Len(s) > 0, NEW q
  PROVE  LET front == SubSeq(s, 1, Len(s) - 1) IN
         /\ front \in Seq(S)
         /\ In(q, s) <=> (q = s[Len(s)] \/ In(q, front))
  <1> DEFINE front == SubSeq(s, 1, Len(s) - 1)
  <1>1. /\ front \in Seq(S) /\ Len(front) = Len(s) - 1 /\ Len(s) \in Nat \ {0}
        /\ DOMAIN front = 1..(Len(s) - 1) /\ DOMAIN s = 1..Len(s)
        /\ \A k \in 1..(Len(s) - 1) : front[k] = s[k]
    <2>1. Len(s) \in Nat \ {0} /\ DOMAIN s = 1..Len(s) /\ \A k \in 1..Len(s) : s[k] \in S
      OBVIOUS
    <2>2. front = [k \in 1..(Len(s) - 1) |-> s[k]]
      BY <2>1
    <2>3. front \in Seq(S) /\ Len(front) = Len(s) - 1
      BY <2>1, <2>2
    <2>4. QED
      BY <2>1, <2>2, <2>3
  <1>2. 1..Len(s) = 1..(Len(s) - 1) \cup {Len(s)}
    BY <1>1
  <1> HIDE DEF front
  <1>3. In(q, s) <=> (q = s[Len(s)] \/ In(q, front))
    BY <1>1, <1>2 DEF In
  <1>4. QED
    BY <1>1, <1>3 DEF front

LEMMA PublishRunStep ==
  ASSUME IInv, NEW m \in Migrators, PublishRun(m)
  PROVE  IInv'
  <1>1. PICK r \in ToPublish(m) :
          /\ Moves(m, "publishing", [job[m] EXCEPT !.published = Append(@, r)])
          /\ dirs' = [dirs EXCEPT ![r] = job[m].staged[r]]
    BY DEF PublishRun, ToPublish
  <1>2. /\ r \in Runs /\ dirs[r] = NoDir /\ m \in DOMAIN job /\ JobInv(m) /\ Typed(m)
        /\ job[m].at = "publishing"
        /\ source' = source /\ db' = db /\ writer' = writer /\ first' = first
        /\ dirs = [q \in Runs |-> dirs[q]] /\ HaveFiles(db, dirs) /\ HaveNodeRuns(db)
    BY <1>1 DEF PublishRun, ToPublish, IInv, JobInv
  <1>3. /\ job' = [job EXCEPT ![m] = job'[m]]
        /\ job'[m] = [job[m] EXCEPT !.published = Append(job[m].published, r)]
    BY <1>1, <1>2 DEF Moves
  <1>4. /\ DOMAIN job'[m] = Fields /\ job'[m].at = "publishing" /\ job'[m].loaded = job[m].loaded
        /\ job'[m].snapshot = job[m].snapshot /\ job'[m].published = Append(job[m].published, r)
        /\ job'[m].reason = job[m].reason /\ job'[m].rows = job[m].rows
        /\ job'[m].before = job[m].before /\ job'[m].staged = job[m].staged
    BY <1>2, <1>3 DEF Typed, Fields
  <1>5. dirs'[r] = job[m].staged[r] /\ \A q \in Runs \ {r} : dirs'[q] = dirs[q]
    BY <1>1, <1>2
  <1>6. Typed(m)'
    BY <1>2, <1>4 DEF Typed, Holding
  <1>7. Loaded(m)'
    BY <1>2, <1>4 DEF JobInv, Loaded
  <1>8. Copied(m)'
    BY <1>2, <1>4 DEF JobInv, Copied, Execution
  <1>9. Published(m, r)' /\ \A q \in Runs \ {r} : Published(m, q)' <=> Published(m, q)
    <2>1. ASSUME NEW q PROVE Published(m, q)' <=> (q = r \/ Published(m, q))
      <3>1. job[m].published \in Seq(Runs)
        BY <1>2 DEF Typed
      <3>2. In(q, Append(job[m].published, r)) <=> (q = r \/ In(q, job[m].published))
        BY <1>2, <3>1, InAppend
      <3>3. QED
        BY <1>4, <3>2 DEF Published
    <2>2. QED
      BY <2>1
  <1>10. Locks(m)'
    <2>1. HaveFiles(db, job[m].before[2])' <=> HaveFiles(db, job[m].before[2])
      BY <1>2, <1>4 DEF HaveFiles
    <2>2. Apply(db, job[m].snapshot)' = Apply(db, job[m].snapshot)
      BY <1>2, <1>4
    <2>3. Locks(m) /\ job[m].at \in Holding /\ job'[m].at \in Holding
      BY <1>2, <1>4 DEF JobInv, Holding
    <2>4. job[m].before[2][r] = NoDir
      BY <1>2, <2>3 DEF Locks
    <2>5. \A q \in Runs :
            \/ dirs'[q] = job'[m].before[2][q] /\ ~ Published(m, q)'
            \/ job'[m].before[2][q] = NoDir /\ (Published(m, q)' \/ job'[m].reason = "left behind")
      BY <1>4, <1>5, <1>9, <2>3, <2>4 DEF Locks
    <2>6. QED
      BY <1>2, <1>4, <2>1, <2>2, <2>3, <2>5 DEF Locks
  <1>11. Staged(m)'
    <2>1. Orphans(m)' = Orphans(m) /\ ToStage(m)' = ToStage(m)
      BY <1>4 DEF Orphans, ToStage, ArtifactRefs
    <2>2. \A q \in Runs : dirs'[q] # NoDir => EqualFiles(job'[m].staged[q], dirs'[q])
      BY <1>2, <1>4, <1>5 DEF JobInv, Staged, EqualFiles
    <2>3. QED
      BY <1>2, <2>1, <2>2 DEF JobInv, Staged
  <1>12. Apart(m)
    <2>1. writer = m
      BY <1>2 DEF JobInv, Locks, Holding
    <2>2. QED
      BY <1>2, <1>3, <2>1 DEF Apart
  <1>13. HaveFiles(db, dirs)'
    <2>1. SUFFICES ASSUME NEW n \in db.nodeRuns, NEW i \in DOMAIN SourceHistory,
                          NEW run \in SourceHistory[i].runs, run.id = n.run,
                          NEW uri \in n.refs, LegacyName(uri)
                   PROVE  /\ uri \in DOMAIN dirs'[n.run]
                          /\ dirs'[n.run][uri] = source.files[run.execution][uri]
      BY <1>2 DEF HaveFiles
    <2>2. /\ uri \in DOMAIN dirs[n.run]
          /\ dirs[n.run][uri] = source.files[run.execution][uri]
      BY <1>2, <2>1 DEF HaveFiles
    <2>3. n.run \in Runs /\ n.run # r
      BY <1>2, <2>1, <2>2, SourceAssumption, IdleFields
    <2>4. QED
      BY <1>5, <2>2, <2>3
  <1>14. HaveNodeRuns(db)' /\ (dirs = [q \in Runs |-> dirs[q]])'
    BY <1>1, <1>2 DEF HaveNodeRuns, WholeAt
  <1>15. QED
    BY <1>6, <1>7, <1>8, <1>10, <1>11, <1>12, <1>13, <1>14, StepInv DEF JobInv

\* Only directories that were not there at first are taken away.
LEMMA RestoreStep ==
  ASSUME IInv, NEW m \in Migrators, Restore(m)
  PROVE  IInv'
  <1> DEFINE done == Len(job[m].published)
             rest == SubSeq(job[m].published, 1, done - 1)
             r == job[m].published[done]
  <1>1. /\ m \in DOMAIN job /\ JobInv(m) /\ Typed(m) /\ job[m].at = "restoring" /\ done > 0
        /\ source' = source /\ db' = db /\ writer' = writer /\ first' = first
        /\ dirs = [q \in Runs |-> dirs[q]] /\ HaveFiles(db, dirs) /\ HaveNodeRuns(db)
    BY DEF Restore, IInv, JobInv
  <1>2. /\ job' = [job EXCEPT ![m] = job'[m]]
        /\ \/ /\ job'[m] = [job[m] EXCEPT !.published = rest]
              /\ dirs' = [dirs EXCEPT ![r] = NoDir]
           \/ /\ job'[m] = [job[m] EXCEPT !.published = rest, !.reason = "left behind"]
              /\ dirs' = dirs
    BY <1>1 DEF Restore
  <1>3. /\ DOMAIN job'[m] = Fields /\ job'[m].at = "restoring" /\ job'[m].loaded = job[m].loaded
        /\ job'[m].snapshot = job[m].snapshot /\ job'[m].published = rest
        /\ job'[m].rows = job[m].rows
        /\ job'[m].before = job[m].before /\ job'[m].staged = job[m].staged
    BY <1>1, <1>2 DEF Typed, Fields
  <1>18. \/ job'[m].reason = job[m].reason /\ dirs' = [dirs EXCEPT ![r] = NoDir]
         \/ job'[m].reason = "left behind" /\ dirs' = dirs
    BY <1>1, <1>2 DEF Typed, Fields
  <1>4. job[m].published \in Seq(Runs) /\ r \in Runs /\ rest \in Seq(Runs)
    BY <1>1, InFront DEF Typed
  <1>5. Published(m, r) /\ \A q : q # r => (Published(m, q)' <=> Published(m, q))
    <2>1. ASSUME NEW q PROVE Published(m, q) <=> (q = r \/ Published(m, q)')
      <3>1. In(q, job[m].published) <=> (q = r \/ In(q, rest))
        BY <1>1, <1>4, InFront
      <3>2. QED
        BY <1>3, <3>1 DEF Published
    <2>2. QED
      BY <2>1
  <1> HIDE DEF done, rest, r
  <1>6. Typed(m)'
    BY <1>1, <1>3, <1>4 DEF Typed, Holding
  <1>7. Loaded(m)'
    BY <1>1, <1>3 DEF JobInv, Loaded
  <1>8. Copied(m)'
    BY <1>1, <1>3 DEF JobInv, Copied, Execution
  <1>9. Locks(m) /\ job[m].at \in Holding /\ job'[m].at \in Holding
    BY <1>1, <1>3 DEF JobInv, Holding
  <1>10. job[m].before[2][r] = NoDir /\ HaveFiles(db, job[m].before[2])
    BY <1>4, <1>5, <1>9 DEF Locks
  <1>11. (dirs'[r] = NoDir \/ job'[m].reason = "left behind") /\ \A q \in Runs \ {r} : dirs'[q] = dirs[q]
    BY <1>1, <1>18, <1>4
  <1>12. Locks(m)'
    <2>1. HaveFiles(db, job[m].before[2])' <=> HaveFiles(db, job[m].before[2])
      BY <1>1, <1>3 DEF HaveFiles
    <2>2. Apply(db, job[m].snapshot)' = Apply(db, job[m].snapshot)
      BY <1>1, <1>3
    <2>3. ASSUME NEW q \in Runs
          PROVE  \/ dirs'[q] = job'[m].before[2][q] /\ ~ Published(m, q)'
                 \/ /\ job'[m].before[2][q] = NoDir
                    /\ Published(m, q)' \/ job'[m].reason = "left behind"
      <3>1. CASE q = r
        BY <1>3, <1>10, <1>11, <3>1
      <3>2. CASE q # r
        <4>1. /\ dirs'[q] = dirs[q] /\ (Published(m, q)' <=> Published(m, q))
              /\ job[m].reason = "left behind" => job'[m].reason = "left behind"
          BY <1>5, <1>11, <1>18, <3>2
        <4>2. \/ dirs[q] = job[m].before[2][q] /\ ~ Published(m, q)
              \/ /\ job[m].before[2][q] = NoDir
                 /\ Published(m, q) \/ job[m].reason = "left behind"
          BY <1>9 DEF Locks
        <4>3. QED
          BY <1>3, <4>1, <4>2
      <3>3. QED
        BY <3>1, <3>2
    <2>4. QED
      BY <1>1, <1>3, <1>9, <2>1, <2>2, <2>3 DEF Locks
  <1>13. Staged(m)'
    BY <1>3 DEF Staged
  <1>14. Apart(m)
    BY <1>1, <1>2, <1>9 DEF Apart, Locks
  <1>15. HaveFiles(db, dirs)'
    <2>1. SUFFICES ASSUME NEW n \in db.nodeRuns, NEW i \in DOMAIN SourceHistory,
                          NEW run \in SourceHistory[i].runs, run.id = n.run,
                          NEW uri \in n.refs, LegacyName(uri)
                   PROVE  /\ uri \in DOMAIN dirs'[n.run]
                          /\ dirs'[n.run][uri] = source.files[run.execution][uri]
      BY <1>1 DEF HaveFiles
    <2>2. /\ uri \in DOMAIN dirs[n.run]
          /\ dirs[n.run][uri] = source.files[run.execution][uri]
          /\ uri \in DOMAIN job[m].before[2][n.run]
      BY <1>1, <1>10, <2>1 DEF HaveFiles
    <2>3. n.run \in Runs /\ n.run # r
      BY <1>10, <2>1, <2>2, SourceAssumption, IdleFields
    <2>4. QED
      BY <1>11, <2>2, <2>3
  <1>16. HaveNodeRuns(db)' /\ (dirs = [q \in Runs |-> dirs[q]])'
    <2>1. HaveNodeRuns(db)'
      BY <1>1 DEF HaveNodeRuns, WholeAt
    <2>2. (dirs = [q \in Runs |-> dirs[q]])'
      BY <1>1, <1>18
    <2>3. QED
      BY <2>1, <2>2
  <1>17. QED
    BY <1>6, <1>7, <1>8, <1>12, <1>13, <1>14, <1>15, <1>16, StepInv DEF JobInv

\* What a committed import inserts: every node run has a Run in the snapshot, every file it
\* names is staged, and what is staged stands where the call has checked or published it.
LEMMA CommitFiles ==
  ASSUME IInv, NEW m \in Migrators, Commit(m)
  PROVE  HaveFiles(Apply(db, job[m].snapshot).rows, dirs)
  <1>1. /\ JobInv(m) /\ job[m].at = "publishing" /\ HaveFiles(db, dirs) /\ SourceInv
        /\ Orphans(m) = {} /\ ToStage(m) = {} /\ ToPublish(m) = {}
        /\ \A r \in Runs : dirs[r] # NoDir => EqualFiles(job[m].staged[r], dirs[r])
    BY DEF Commit, IInv, JobInv, Staged
  <1>2. PICK k \in DOMAIN SourceHistory : job[m].snapshot.runs = SourceHistory[k].runs
    <2>1. job[m].loaded = 7
      BY <1>1 DEF JobInv, Loaded
    <2>2. PICK k \in source.since..source.at : job[m].snapshot.runs = SourceHistory[k].runs
      BY <1>1, <2>1 DEF JobInv, Loaded
    <2>3. k \in DOMAIN SourceHistory
      BY <1>1, SourceAssumption DEF SourceInv
    <2>4. QED
      BY <2>2, <2>3
  <1>3. SUFFICES ASSUME NEW n \in job[m].snapshot.nodeRuns, NEW i \in DOMAIN SourceHistory,
                        NEW run \in SourceHistory[i].runs, run.id = n.run,
                        NEW uri \in n.refs, LegacyName(uri)
                 PROVE  /\ uri \in DOMAIN dirs[n.run]
                        /\ dirs[n.run][uri] = source.files[run.execution][uri]
    <2>1. Apply(db, job[m].snapshot).rows.nodeRuns
            = db.nodeRuns \cup Added(db.nodeRuns, job[m].snapshot.nodeRuns)
      BY ImportedRows
    <2>2. QED
      BY <1>1, <2>1 DEF HaveFiles, Added
  <1>4. n.run \in Runs
    BY <1>3, SourceAssumption
  <1>5. Execution(m, n.run) = run.execution
    <2>1. \E s \in job[m].snapshot.runs : s.id = n.run
      BY <1>1 DEF Orphans
    <2>2. PICK s \in job[m].snapshot.runs :
            s.id = n.run /\ Execution(m, n.run) = s.execution
      BY <2>1 DEF Execution
    <2>3. QED
      BY <1>2, <1>3, <2>2, SourceAssumption
  <1>6. uri \in DOMAIN job[m].staged[n.run]
    <2>1. uri \in ArtifactRefs(m, n.run)
      BY <1>3 DEF ArtifactRefs
    <2>2. SUFFICES ASSUME uri \in ArtifactRefs(m, n.run) \ DOMAIN job[m].staged[n.run]
                   PROVE  FALSE
      BY <2>1
    <2>3. <<n.run, uri>> \in {<<n.run, u>> : u \in ArtifactRefs(m, n.run) \ DOMAIN job[m].staged[n.run]}
      BY <2>2
    <2>4. <<n.run, uri>> \in ToStage(m)
      BY <1>4, <2>3 DEF ToStage
    <2>5. QED
      BY <1>1, <2>4
  <1>7. job[m].staged[n.run][uri] = source.files[run.execution][uri]
    BY <1>1, <1>4, <1>5, <1>6 DEF JobInv, Copied
  <1>8. dirs[n.run] # NoDir
    BY <1>1, <1>4, <1>6, IdleFields DEF ToPublish
  <1>9. QED
    BY <1>1, <1>4, <1>6, <1>7, <1>8 DEF EqualFiles

LEMMA CommitNodeRuns ==
  ASSUME IInv, NEW m \in Migrators, Commit(m)
  PROVE  HaveNodeRuns(Apply(db, job[m].snapshot).rows)
  <1> DEFINE rows == Apply(db, job[m].snapshot).rows
  <1>1. /\ JobInv(m) /\ job[m].at = "publishing" /\ HaveNodeRuns(db) /\ SourceInv
        /\ rows.runs = db.runs \cup Added(db.runs, Stripped(job[m].snapshot.runs))
        /\ rows.nodeRuns = db.nodeRuns \cup Added(db.nodeRuns, job[m].snapshot.nodeRuns)
    BY ImportedRows DEF Commit, IInv
  <1> HIDE DEF rows
  <1>2. PICK i \in source.since..source.at, j \in source.since..source.at :
          /\ i <= j
          /\ job[m].snapshot.runs = SourceHistory[i].runs
          /\ job[m].snapshot.nodeRuns = SourceHistory[j].nodeRuns
    <2>1. job[m].loaded = 7
      BY <1>1 DEF JobInv, Loaded
    <2>2. QED
      BY <1>1, <2>1 DEF JobInv, Loaded
  <1>3. i \in DOMAIN SourceHistory /\ j \in DOMAIN SourceHistory
    BY <1>1, SourceAssumption DEF SourceInv
  <1>4. ASSUME NEW run \in db.runs
        PROVE  run \in first.db.runs \/ \E k \in source.since..source.at : WholeAt(run, k, rows)
    BY <1>1 DEF HaveNodeRuns, WholeAt
  <1>5. ASSUME NEW run \in Stripped(job[m].snapshot.runs)
        PROVE  WholeAt(run, i, rows)
    <2>1. ASSUME NEW n \in SourceHistory[i].nodeRuns
          PROVE  \E copy \in rows.nodeRuns : copy.id = n.id
      <3>1. PICK k \in SourceHistory[j].nodeRuns : k.id = n.id
        BY <1>2, <1>3, SourceAssumption
      <3>2. k \in Added(db.nodeRuns, job[m].snapshot.nodeRuns) \/ \E h \in db.nodeRuns : h.id = k.id
        BY <1>2, <3>1 DEF Added
      <3>3. QED
        BY <1>1, <3>1, <3>2
    <2>2. QED
      BY <1>2, <1>5, <2>1 DEF WholeAt
  <1>6. \A run \in rows.runs :
          run \in first.db.runs \/ \E k \in source.since..source.at : WholeAt(run, k, rows)
    <2>1. \A run \in rows.runs : run \in db.runs \/ run \in Stripped(job[m].snapshot.runs)
      BY <1>1 DEF Added
    <2>2. QED
      BY <1>4, <1>5, <2>1
  <1>7. QED
    BY <1>6 DEF HaveNodeRuns, rows

LEMMA CommitStep ==
  ASSUME IInv, NEW m \in Migrators, Commit(m)
  PROVE  IInv'
  <1>1. /\ m \in DOMAIN job /\ job[m].at = "publishing" /\ JobInv(m)
        /\ job' = [job EXCEPT ![m] = Ended(m, "done", None)]
        /\ db' = job[m].rows /\ source' = source /\ dirs' = dirs /\ first' = first
    BY DEF Commit, Moves, IInv
  <1>2. writer = m /\ db' = Apply(db, job[m].snapshot).rows
    BY <1>1 DEF JobInv, Locks, Holding
  <1>3. Resting(job'[m])
    BY <1>1 DEF Resting, Ended
  <1>4. Apart(m)
    BY <1>1, <1>2 DEF Apart
  <1>5. SourceInv'
    BY <1>1 DEF IInv, SourceInv
  <1>6. JobInv(m)'
    BY <1>3, <1>5, RestingNext
  <1>7. HaveFiles(db, dirs)' /\ (dirs = [q \in Runs |-> dirs[q]])'
    <2>1. HaveFiles(db', dirs)
      BY <1>2, CommitFiles
    <2>2. QED
      BY <1>1, <2>1 DEF HaveFiles, IInv
  <1>8. HaveNodeRuns(db)'
    <2>1. HaveNodeRuns(db')
      BY <1>2, CommitNodeRuns
    <2>2. QED
      BY <1>1, <2>1 DEF HaveNodeRuns, WholeAt
  <1>9. QED
    BY <1>4, <1>6, <1>7, <1>8, StepInv
-----------------------------------------------------------------------------
(* Steps of the old store, and the rest.                                   *)

LEMMA EndStep ==
  ASSUME IInv, NEW m \in Migrators, GiveUpWaiting(m) \/ StageFails(m) \/ Restored(m)
  PROVE  IInv'
  <1>1. CASE GiveUpWaiting(m)
    <2>1. PICK at \in {"loaded", "opened"} : Fails(m, at, "busy")
      BY <1>1 DEF GiveUpWaiting
    <2>2. UNCHANGED dirs
      BY <1>1 DEF GiveUpWaiting
    <2>3. QED
      BY <2>1, <2>2, FailsInv
  <1>2. CASE StageFails(m)
    BY <1>2, FailsInv DEF StageFails
  <1>3. CASE Restored(m)
    BY <1>3, FailsInv DEF Restored
  <1>4. QED
    BY <1>1, <1>2, <1>3

LEMMA AgainStep ==
  ASSUME IInv, NEW m \in Migrators, Crash(m) \/ CallAgain(m)
  PROVE  IInv'
  <1>1. /\ m \in DOMAIN job /\ job' = [job EXCEPT ![m] = Idle]
        /\ UNCHANGED <<source, db, dirs, first>>
        /\ writer' = writer \/ writer' = IF writer = m THEN None ELSE writer
    BY DEF Crash, CallAgain, IInv
  <1>2. Resting(job'[m])
    BY <1>1 DEF Resting
  <1>3. Apart(m)
    BY <1>1 DEF Apart
  <1>4. QED
    BY <1>1, <1>2, <1>3, RestingStepInv

\* What was read and copied stays true of the longer history.
LEMMA SourceMovesStep ==
  ASSUME IInv, SourceMoves
  PROVE  IInv'
  <1>1. /\ SourceInv /\ source.at < Len(SourceHistory)
        /\ source' = [source EXCEPT !.at = @ + 1, !.db = SourceHistory[source.at + 1]]
        /\ db' = db /\ dirs' = dirs /\ writer' = writer /\ job' = job /\ first' = first
    BY DEF SourceMoves, IInv
  <1>2. /\ source'.at = source.at + 1 /\ source'.db = SourceHistory[source.at + 1]
        /\ source'.since = source.since /\ source'.files = source.files
        /\ DOMAIN source' = DOMAIN source
        /\ source.since \in Nat /\ source.at \in Nat
    BY <1>1, SourceAssumption DEF SourceInv
  <1>3. SourceInv'
    BY <1>1, <1>2, SourceAssumption DEF SourceInv
  <1>4. \A i \in source.since..source.at : i \in source'.since..source'.at
    BY <1>2
  <1>5. ASSUME NEW m \in Migrators
        PROVE  JobInv(m)'
    <2>1. JobInv(m)
      BY DEF IInv
    <2>2. Typed(m)'
      BY <1>1, <2>1 DEF JobInv, Typed
    <2>3. Loaded(m)'
      BY <1>1, <1>4, <2>1 DEF JobInv, Loaded
    <2>4. Copied(m)'
      BY <1>1, <1>2, <2>1 DEF JobInv, Copied, Execution
    <2>5. Locks(m)'
      <3>1. HaveFiles(db, job[m].before[2])' <=> HaveFiles(db, job[m].before[2])
        BY <1>1, <1>2 DEF HaveFiles
      <3>2. \A r : Published(m, r)' <=> Published(m, r)
        BY <1>1 DEF Published
      <3>3. Apply(db, job[m].snapshot)' = Apply(db, job[m].snapshot)
        BY <1>1
      <3>4. QED
        BY <1>1, <2>1, <3>1, <3>2, <3>3 DEF JobInv, Locks
    <2>6. Staged(m)'
      BY <1>1, <2>1 DEF JobInv, Staged, Orphans, ToStage, ArtifactRefs
    <2>7. QED
      BY <2>2, <2>3, <2>4, <2>5, <2>6 DEF JobInv
  <1>6. HaveFiles(db, dirs)'
    BY <1>1, <1>2 DEF IInv, HaveFiles
  <1>7. HaveNodeRuns(db)'
    BY <1>1, <1>4 DEF IInv, HaveNodeRuns, WholeAt
  <1>8. QED
    BY <1>1, <1>3, <1>5, <1>6, <1>7 DEF IInv

LEMMA Stutter ==
  ASSUME IInv, UNCHANGED vars
  PROVE  IInv'
  <1>1. /\ source' = source /\ db' = db /\ dirs' = dirs /\ writer' = writer
        /\ job' = job /\ first' = first
    BY DEF vars
  <1>2. ASSUME NEW m \in Migrators
        PROVE  JobInv(m)'
    <2>1. JobInv(m)
      BY DEF IInv
    <2>2. Typed(m)'
      BY <1>1, <2>1 DEF JobInv, Typed
    <2>3. Loaded(m)'
      BY <1>1, <2>1 DEF JobInv, Loaded
    <2>4. Copied(m)'
      BY <1>1, <2>1 DEF JobInv, Copied, Execution
    <2>5. Locks(m)'
      <3>1. HaveFiles(db, job[m].before[2])' <=> HaveFiles(db, job[m].before[2])
        BY <1>1 DEF HaveFiles
      <3>2. \A r : Published(m, r)' <=> Published(m, r)
        BY <1>1 DEF Published
      <3>3. Apply(db, job[m].snapshot)' = Apply(db, job[m].snapshot)
        BY <1>1
      <3>4. QED
        BY <1>1, <2>1, <3>1, <3>2, <3>3 DEF JobInv, Locks
    <2>6. Staged(m)'
      BY <1>1, <2>1 DEF JobInv, Staged, Orphans, ToStage, ArtifactRefs
    <2>7. QED
      BY <2>2, <2>3, <2>4, <2>5, <2>6 DEF JobInv
  <1>3. QED
    BY <1>1, <1>2 DEF IInv, SourceInv, HaveFiles, HaveNodeRuns, WholeAt
-----------------------------------------------------------------------------
(* The theorems.                                                           *)

LEMMA InitInv ==
  ASSUME Init
  PROVE  IInv
  <1>1. SourceInv
    <2>1. PICK v \in SourceVersions, files \in FileSets, i \in DOMAIN SourceHistory :
            source = [version |-> v, files |-> files, db |-> SourceHistory[i], at |-> i, since |-> i]
      BY DEF Init
    <2>2. QED
      BY <2>1, SourceAssumption DEF SourceInv
  <1>2. /\ first \in Destinations /\ db = first.db /\ dirs = first.dirs
        /\ job = [m \in Migrators |-> Idle]
    BY DEF Init
  <1>3. \A m \in Migrators : JobInv(m)
    BY <1>1, <1>2, RestingInv DEF Resting
  <1>4. dirs = [r \in Runs |-> dirs[r]]
    BY <1>2, DestinationAssumption
  <1>5. HaveFiles(db, dirs)
    BY ZenonT(30), <1>2, DestinationAssumption DEF HaveFiles
  <1>6. HaveNodeRuns(db)
    BY <1>2 DEF HaveNodeRuns
  <1>7. QED
    BY <1>1, <1>2, <1>3, <1>4, <1>5, <1>6 DEF IInv

LEMMA NextInv ==
  ASSUME IInv, [Next]_vars
  PROVE  IInv'
  <1>1. ASSUME NEW m \in Migrators, Step(m)
        PROVE  IInv'
    BY <1>1, OpenSourceStep, LoadTableStep, OpenTargetStep, BeginStep, StageFileStep,
       CheckPublishedStep, PublishRunStep, CommitStep, RestoreStep, EndStep DEF Step
  <1>2. ASSUME NEW m \in Migrators, IsRefused(m) \/ Crash(m) \/ CallAgain(m)
        PROVE  IInv'
    BY <1>2, IsRefusedStep, AgainStep
  <1>3. CASE SourceMoves
    BY <1>3, SourceMovesStep
  <1>4. CASE UNCHANGED vars
    BY <1>4, Stutter
  <1>5. QED
    BY <1>1, <1>2, <1>3, <1>4 DEF Next

THEOREM Inductive == Spec => []IInv
  <1>1. Init => IInv
    BY InitInv
  <1>2. IInv /\ [Next]_vars => IInv'
    BY NextInv
  <1>3. QED
    BY <1>1, <1>2, PTL DEF Spec

\* Rows are published after their files and files by a rename, so whatever crashed, failed
\* or was repeated, the files that a migrated node run names are there and whole.
THEOREM FilesBeforeRows == Spec => []MigratedRowsHaveTheirFiles
  <1>1. IInv => MigratedRowsHaveTheirFiles
    <2>1. SUFFICES ASSUME IInv
                   PROVE  MigratedRowsHaveTheirFiles
      OBVIOUS
    <2>2. HaveFiles(db, dirs) /\ \A i \in source.since..source.at : i \in DOMAIN SourceHistory
      BY <2>1, SourceAssumption DEF IInv, SourceInv
    <2>3. QED
      BY <2>2 DEF MigratedRowsHaveTheirFiles, HaveFiles
  <1>2. QED
    BY <1>1, Inductive, PTL

\* Runs are read before their node runs and nothing in between is dropped, so a migrated Run
\* has the node runs it had when its row was read, however often the old store is written to.
THEOREM RunsAreWhole == Spec => []MigratedRunsAreWhole
  <1>1. IInv => MigratedRunsAreWhole
    <2>1. SUFFICES ASSUME IInv, NEW run \in db.runs, NEW i \in source.since..source.at,
                          NEW r \in SourceHistory[i].runs, r.id = run.id
                   PROVE  \E k \in source.since..source.at :
                            /\ run \in {[s EXCEPT !.execution = None] : s \in SourceHistory[k].runs}
                            /\ \A n \in SourceHistory[k].nodeRuns :
                                 n.run = run.id => \E copy \in db.nodeRuns : copy.id = n.id
      BY DEF MigratedRunsAreWhole
    <2>2. i \in DOMAIN SourceHistory
      BY <2>1, SourceAssumption DEF IInv, SourceInv
    <2>3. run \notin first.db.runs
      BY <2>1, <2>2, DestinationAssumption DEF IInv
    <2>4. PICK k \in source.since..source.at : WholeAt(run, k, db)
      BY <2>1, <2>3 DEF IInv, HaveNodeRuns
    <2>5. QED
      BY <2>4 DEF WholeAt, Stripped
  <1>2. QED
    BY <1>1, Inductive, PTL

\* A step moves the call of one migrator.
LEMMA OneMoves ==
  ASSUME DOMAIN job = Migrators, NEW q \in Migrators,
         Step(q) \/ IsRefused(q) \/ Crash(q) \/ CallAgain(q)
  PROVE  \A m \in Migrators \ {q} : job'[m] = job[m]
  <1>1. CASE OpenSource(q) \/ LoadTable(q) \/ OpenTarget(q) \/ Begin(q)
    BY <1>1 DEF OpenSource, LoadTable, OpenTarget, Begin, Fails, Moves
  <1>2. CASE GiveUpWaiting(q) \/ StageFails(q) \/ Restored(q)
    BY <1>2 DEF GiveUpWaiting, StageFails, Restored, Fails, Moves
  <1>3. CASE StageFile(q) \/ CheckPublished(q) \/ PublishRun(q)
    BY <1>3 DEF StageFile, CheckPublished, PublishRun, Fails, Moves
  <1>4. CASE Commit(q) \/ IsRefused(q) \/ Crash(q) \/ CallAgain(q)
    BY <1>4 DEF Commit, IsRefused, Crash, CallAgain, Fails, Moves
  <1>5. CASE Restore(q)
    BY <1>5 DEF Restore
  <1>6. QED
    BY <1>1, <1>2, <1>3, <1>4, <1>5 DEF Step

\* Only these steps end a call that holds the write lock in failure.
LEMMA FailingStep ==
  ASSUME IInv, [Next]_vars, NEW m \in Migrators, job[m].at \in Holding, job'[m].at = "failed"
  PROVE  \E at \in Holding : \E reason :
           /\ Fails(m, at, reason) /\ UNCHANGED dirs
           /\ \/ at = "staging"
              \/ at = "restoring" /\ reason = job[m].reason /\ job[m].published = <<>>
  <1>1. DOMAIN job = Migrators /\ DOMAIN job[m] = Fields /\ job[m].at # "failed"
    BY DEF IInv, JobInv, Typed, Holding
  <1>2. Step(m) \/ IsRefused(m) \/ Crash(m) \/ CallAgain(m)
    <2>1. \E q \in Migrators : Step(q) \/ IsRefused(q) \/ Crash(q) \/ CallAgain(q)
      BY <1>1 DEF Next, SourceMoves, vars
    <2>2. QED
      BY <1>1, <2>1, OneMoves
  <1>3. ~ OpenSource(m) /\ ~ LoadTable(m) /\ ~ OpenTarget(m) /\ ~ Begin(m) /\ ~ GiveUpWaiting(m)
    BY DEF OpenSource, LoadTable, OpenTarget, Begin, GiveUpWaiting, Fails, Moves, Holding
  <1>4. ~ Commit(m)
    BY ZenonT(30), <1>1, IdleFields DEF Commit, Moves, Ended, Fields
  <1>5. ~ PublishRun(m)
    <2>1. ASSUME NEW x PROVE [job[m] EXCEPT !.published = x].at # "failed"
      BY <1>1 DEF Fields
    <2>2. \A x : [[job[m] EXCEPT !.at = "restoring"] EXCEPT !.reason = x].at # "failed"
      BY <1>1 DEF Fields
    <2>3. QED
      BY <1>1, <2>1, <2>2 DEF PublishRun, Moves, ToPublish
  <1>6. ~ Restore(m)
    BY <1>1 DEF Restore, Fields
  <1>7. ~ IsRefused(m)
    BY <1>1 DEF IsRefused, Restores, Moves, Fields
  <1>8. ~ Crash(m) /\ ~ CallAgain(m)
    BY <1>1, IdleFields DEF Crash, CallAgain
  <1>9. CASE StageFails(m)
    BY <1>9 DEF StageFails, Holding
  <1>10. CASE StageFile(m)
    <2>1. PICK item \in ToStage(m) :
            \/ Fails(m, "staging", "missing file")
            \/ Moves(m, "staging",
                 [job[m] EXCEPT !.staged[item[1]] =
                   With(@, item[2], source.files[Execution(m, item[1])][item[2]])])
      BY <1>10 DEF StageFile
    <2>2. Fails(m, "staging", "missing file")
      BY <1>1, <2>1 DEF Moves, Fields
    <2>3. QED
      BY <1>10, <2>2 DEF StageFile, Holding
  <1>11. CASE CheckPublished(m)
    <2>1. Fails(m, "staging", "occupied")
      BY <1>1, <1>11 DEF CheckPublished, Moves, Fields
    <2>2. QED
      BY <1>11, <2>1 DEF CheckPublished, Holding
  <1>12. CASE Restored(m)
    BY <1>12 DEF Restored, Holding
  <1>13. QED
    BY <1>2, <1>3, <1>4, <1>5, <1>6, <1>7, <1>8, <1>9, <1>10, <1>11, <1>12 DEF Step

\* A call that fails with the write lock, and has renamed back what it published, leaves the
\* rows and the directories as they were when it took the lock.
THEOREM FailureLeavesNoTrace == Spec => FailedMigrationLeavesNoTrace
  <1> DEFINE Traceless ==
        \A m \in Migrators :
          /\ job[m].at \in {"staging", "publishing", "restoring"}
          /\ job'[m].at = "failed"
          /\ job'[m].reason # "left behind"
          => <<db', dirs'>> = job[m].before
  <1>1. IInv /\ [Next]_vars => Traceless
    <2>1. SUFFICES ASSUME IInv, [Next]_vars, NEW m \in Migrators,
                          job[m].at \in Holding, job'[m].at = "failed",
                          job'[m].reason # "left behind"
                   PROVE  <<db', dirs'>> = job[m].before
      BY DEF Holding
    <2>2. /\ JobInv(m) /\ Typed(m) /\ Locks(m) /\ writer = m /\ m \in DOMAIN job
          /\ dirs = [r \in Runs |-> dirs[r]]
      BY <2>1 DEF IInv, JobInv, Locks
    <2>3. /\ db' = db /\ dirs' = dirs
          /\ job[m].published = <<>>
          /\ job[m].at = "restoring" => job'[m].reason = job[m].reason
      <3>0. PICK at \in Holding : \E reason :
              /\ Fails(m, at, reason) /\ UNCHANGED dirs
              /\ \/ at = "staging"
                 \/ at = "restoring" /\ reason = job[m].reason /\ job[m].published = <<>>
        BY <2>1, FailingStep
      <3>1. PICK reason :
              /\ Fails(m, at, reason) /\ UNCHANGED dirs
              /\ \/ at = "staging"
                 \/ at = "restoring" /\ reason = job[m].reason /\ job[m].published = <<>>
        BY <3>0
      <3>2. job[m].at = at /\ db' = db /\ job'[m].reason = reason
        BY <2>2, <3>1, IdleFields DEF Fails, Moves, Ended, Fields
      <3>3. QED
        BY <2>2, <3>1, <3>2 DEF Typed, Holding
    <2>4. \A r \in Runs : ~ Published(m, r)
      BY <2>3 DEF Published, In
    <2>5. job[m].reason # "left behind"
      <3>1. CASE job[m].at = "restoring"
        BY <2>1, <2>3, <3>1
      <3>2. CASE job[m].at # "restoring"
        BY <2>1, <2>2, <3>2 DEF Typed, Holding, None
      <3>3. QED
        BY <3>1, <3>2
    <2>6. dirs = job[m].before[2]
      BY <2>1, <2>2, <2>4, <2>5 DEF Locks
    <2>7. QED
      BY <2>1, <2>2, <2>3, <2>6 DEF Locks
  <1>2. QED
    BY <1>1, Inductive, PTL DEF Spec, FailedMigrationLeavesNoTrace
-----------------------------------------------------------------------------
(* An import that is repeated.                                             *)

\* What a row is called in the destination, whose rows of the same key are its twins.
Called(i, twins) == IF twins = {} THEN i ELSE (CHOOSE h \in twins : TRUE).id

\* A row that was inserted keeps its name.
LEMMA SameName ==
  ASSUME NEW row, NEW old, NEW new, new = IF old = {} THEN {row} ELSE old
  PROVE  Called(row.id, new) = Called(row.id, old)
  <1>1. (CHOOSE h \in {row} : TRUE) = row
    OBVIOUS
  <1>2. CASE old = {}
    BY <1>1, <1>2 DEF Called
  <1>3. CASE old # {}
    BY <1>3
  <1>4. QED
    BY <1>2, <1>3

\* The second time every row of a table is found by its key, and nothing else is.
LEMMA TypesAgain ==
  ASSUME NEW have, NEW rows, EnsureNodeType(have, rows).ok,
         \A a, b \in EnsureNodeType(have, rows).rows : a.name = b.name => a = b
  PROVE  LET once == EnsureNodeType(have, rows)
             twice == EnsureNodeType(once.rows, rows)
         IN  twice.ok /\ twice.rows = once.rows
  <1> DEFINE Old(row) == {h \in have : h.name = row.name}
             after == have \cup {row \in rows : Old(row) = {}}
             New(row) == {h \in after : h.name = row.name}
  <1>1. EnsureNodeType(have, rows).rows = after
    BY DEF EnsureNodeType, Ensure
  <1>2. /\ \A row \in rows : \A h \in Old(row) : Meaning(h.body) = Meaning(row.body)
        /\ \A a, b \in after : a.name = b.name => a = b
    BY <1>1 DEF EnsureNodeType, Ensure
  <1>3. \A row \in rows : New(row) = IF Old(row) = {} THEN {row} ELSE Old(row)
    BY <1>2
  <1>4. EnsureNodeType(after, rows).ok
    BY <1>2, <1>3 DEF EnsureNodeType, Ensure
  <1>5. EnsureNodeType(after, rows).rows = after
    BY <1>3 DEF EnsureNodeType, Ensure
  <1>6. QED
    BY <1>1, <1>4, <1>5

LEMMA DefinitionsAgain ==
  ASSUME NEW have, NEW rows, EnsureNodeDefinition(have, rows).ok,
         \A a, b \in EnsureNodeDefinition(have, rows).rows : a.name = b.name => a = b
  PROVE  LET once == EnsureNodeDefinition(have, rows)
             twice == EnsureNodeDefinition(once.rows, rows)
         IN  twice.ok /\ twice.rows = once.rows /\ twice.ids = once.ids
  <1> DEFINE Old(row) == {h \in have : h.name = row.name}
             after == have \cup {row \in rows : Old(row) = {}}
             New(row) == {h \in after : h.name = row.name}
  <1>1. EnsureNodeDefinition(have, rows).rows = after
    BY DEF EnsureNodeDefinition, Ensure
  <1>2. /\ \A row \in rows : \A h \in Old(row) : <<h.type, Meaning(h.body)>> = <<row.type, Meaning(row.body)>>
        /\ \A a, b \in after : a.name = b.name => a = b
    BY <1>1 DEF EnsureNodeDefinition, Ensure
  <1>3. \A row \in rows : New(row) = IF Old(row) = {} THEN {row} ELSE Old(row)
    BY <1>2
  <1>4. EnsureNodeDefinition(after, rows).ok
    BY <1>2, <1>3 DEF EnsureNodeDefinition, Ensure
  <1>5. EnsureNodeDefinition(after, rows).rows = after
    BY <1>3 DEF EnsureNodeDefinition, Ensure
  <1>6. EnsureNodeDefinition(after, rows).ids = EnsureNodeDefinition(have, rows).ids
    <2> DEFINE The(i) == CHOOSE r \in rows : r.id = i
    <2>1. /\ EnsureNodeDefinition(after, rows).ids = [i \in {row.id : row \in rows} |-> Called(i, New(The(i)))]
          /\ EnsureNodeDefinition(have, rows).ids = [i \in {row.id : row \in rows} |-> Called(i, Old(The(i)))]
      BY DEF EnsureNodeDefinition, Ensure, Called
    <2>2. \A i \in {row.id : row \in rows} : The(i) \in rows /\ The(i).id = i
      OBVIOUS
    <2> HIDE DEF Old, New, The, after
    <2>3. \A row \in rows : Called(row.id, New(row)) = Called(row.id, Old(row))
      BY <1>3, SameName
    <2>4. \A i \in {row.id : row \in rows} : Called(i, New(The(i))) = Called(i, Old(The(i)))
      BY <2>2, <2>3
    <2>5. QED
      BY <2>1, <2>4
  <1>7. QED
    BY <1>1, <1>4, <1>5, <1>6

LEMMA ExecutorsAgain ==
  ASSUME NEW have, NEW rows, EnsureNodeExecutor(have, rows).ok,
         \A a, b \in EnsureNodeExecutor(have, rows).rows : <<a.def, a.version>> = <<b.def, b.version>> => a = b
  PROVE  LET once == EnsureNodeExecutor(have, rows)
             twice == EnsureNodeExecutor(once.rows, rows)
         IN  twice.ok /\ twice.rows = once.rows /\ twice.ids = once.ids
  <1> DEFINE Old(row) == {h \in have : <<h.def, h.version>> = <<row.def, row.version>>}
             after == have \cup {row \in rows : Old(row) = {}}
             New(row) == {h \in after : <<h.def, h.version>> = <<row.def, row.version>>}
  <1>1. EnsureNodeExecutor(have, rows).rows = after
    BY DEF EnsureNodeExecutor, Ensure
  <1>2. /\ \A row \in rows : \A h \in Old(row) : h.body = row.body
        /\ \A a, b \in after : <<a.def, a.version>> = <<b.def, b.version>> => a = b
    BY <1>1 DEF EnsureNodeExecutor, Ensure
  <1>3. \A row \in rows : New(row) = IF Old(row) = {} THEN {row} ELSE Old(row)
    BY <1>2
  <1>4. EnsureNodeExecutor(after, rows).ok
    BY <1>2, <1>3 DEF EnsureNodeExecutor, Ensure
  <1>5. EnsureNodeExecutor(after, rows).rows = after
    BY <1>3 DEF EnsureNodeExecutor, Ensure
  <1>6. EnsureNodeExecutor(after, rows).ids = EnsureNodeExecutor(have, rows).ids
    <2> DEFINE The(i) == CHOOSE r \in rows : r.id = i
    <2>1. /\ EnsureNodeExecutor(after, rows).ids = [i \in {row.id : row \in rows} |-> Called(i, New(The(i)))]
          /\ EnsureNodeExecutor(have, rows).ids = [i \in {row.id : row \in rows} |-> Called(i, Old(The(i)))]
      BY DEF EnsureNodeExecutor, Ensure, Called
    <2>2. \A i \in {row.id : row \in rows} : The(i) \in rows /\ The(i).id = i
      OBVIOUS
    <2> HIDE DEF Old, New, The, after
    <2>3. \A row \in rows : Called(row.id, New(row)) = Called(row.id, Old(row))
      BY <1>3, SameName
    <2>4. \A i \in {row.id : row \in rows} : Called(i, New(The(i))) = Called(i, Old(The(i)))
      BY <2>2, <2>3
    <2>5. QED
      BY <2>1, <2>4
  <1>7. QED
    BY <1>1, <1>4, <1>5, <1>6

LEMMA WorkflowsAgain ==
  ASSUME NEW have, NEW rows, EnsureWorkflow(have, rows).ok,
         \A a, b \in EnsureWorkflow(have, rows).rows : <<a.name, a.version>> = <<b.name, b.version>> => a = b
  PROVE  LET once == EnsureWorkflow(have, rows)
             twice == EnsureWorkflow(once.rows, rows)
         IN  twice.ok /\ twice.rows = once.rows /\ twice.ids = once.ids
  <1> DEFINE Old(row) == {h \in have : <<h.name, h.version>> = <<row.name, row.version>>}
             after == have \cup {row \in rows : Old(row) = {}}
             New(row) == {h \in after : <<h.name, h.version>> = <<row.name, row.version>>}
  <1>1. EnsureWorkflow(have, rows).rows = after
    BY DEF EnsureWorkflow, Ensure
  <1>2. /\ \A row \in rows : \A h \in Old(row) : Meaning(h.body) = Meaning(row.body)
        /\ \A a, b \in after : <<a.name, a.version>> = <<b.name, b.version>> => a = b
    BY <1>1 DEF EnsureWorkflow, Ensure
  <1>3. \A row \in rows : New(row) = IF Old(row) = {} THEN {row} ELSE Old(row)
    BY <1>2
  <1>4. EnsureWorkflow(after, rows).ok
    BY <1>2, <1>3 DEF EnsureWorkflow, Ensure
  <1>5. EnsureWorkflow(after, rows).rows = after
    BY <1>3 DEF EnsureWorkflow, Ensure
  <1>6. EnsureWorkflow(after, rows).ids = EnsureWorkflow(have, rows).ids
    <2> DEFINE The(i) == CHOOSE r \in rows : r.id = i
    <2>1. /\ EnsureWorkflow(after, rows).ids = [i \in {row.id : row \in rows} |-> Called(i, New(The(i)))]
          /\ EnsureWorkflow(have, rows).ids = [i \in {row.id : row \in rows} |-> Called(i, Old(The(i)))]
      BY DEF EnsureWorkflow, Ensure, Called
    <2>2. \A i \in {row.id : row \in rows} : The(i) \in rows /\ The(i).id = i
      OBVIOUS
    <2> HIDE DEF Old, New, The, after
    <2>3. \A row \in rows : Called(row.id, New(row)) = Called(row.id, Old(row))
      BY <1>3, SameName
    <2>4. \A i \in {row.id : row \in rows} : Called(i, New(The(i))) = Called(i, Old(The(i)))
      BY <2>2, <2>3
    <2>5. QED
      BY <2>1, <2>4
  <1>7. QED
    BY <1>1, <1>4, <1>5, <1>6

LEMMA InstancesAgain ==
  ASSUME NEW have, NEW rows, EnsureNodeInstance(have, rows).ok,
         \A a, b \in EnsureNodeInstance(have, rows).rows : <<a.workflow, a.node>> = <<b.workflow, b.node>> => a = b
  PROVE  LET once == EnsureNodeInstance(have, rows)
             twice == EnsureNodeInstance(once.rows, rows)
         IN  twice.ok /\ twice.rows = once.rows
  <1> DEFINE Old(row) == {h \in have : <<h.workflow, h.node>> = <<row.workflow, row.node>>}
             after == have \cup {row \in rows : Old(row) = {}}
             New(row) == {h \in after : <<h.workflow, h.node>> = <<row.workflow, row.node>>}
  <1>1. EnsureNodeInstance(have, rows).rows = after
    BY DEF EnsureNodeInstance, Ensure
  <1>2. /\ \A row \in rows : \A h \in Old(row) : <<h.def, h.executor, Meaning(h.body)>> = <<row.def, row.executor, Meaning(row.body)>>
        /\ \A a, b \in after : <<a.workflow, a.node>> = <<b.workflow, b.node>> => a = b
    BY <1>1 DEF EnsureNodeInstance, Ensure
  <1>3. \A row \in rows : New(row) = IF Old(row) = {} THEN {row} ELSE Old(row)
    BY <1>2
  <1>4. EnsureNodeInstance(after, rows).ok
    BY <1>2, <1>3 DEF EnsureNodeInstance, Ensure
  <1>5. EnsureNodeInstance(after, rows).rows = after
    BY <1>3 DEF EnsureNodeInstance, Ensure
  <1>6. QED
    BY <1>1, <1>4, <1>5

LEMMA RunsAgain ==
  ASSUME NEW have, NEW rows, EnsureRun(have, rows).ok,
         \A a, b \in EnsureRun(have, rows).rows : a.id = b.id => a = b
  PROVE  LET once == EnsureRun(have, rows)
             twice == EnsureRun(once.rows, rows)
         IN  twice.ok /\ twice.rows = once.rows
  <1> DEFINE Old(row) == {h \in have : h.id = row.id}
             after == have \cup {row \in rows : Old(row) = {}}
             New(row) == {h \in after : h.id = row.id}
  <1>1. EnsureRun(have, rows).rows = after
    BY DEF EnsureRun, Ensure
  <1>2. /\ \A row \in rows : \A h \in Old(row) : h = row
        /\ \A a, b \in after : a.id = b.id => a = b
    BY <1>1 DEF EnsureRun, Ensure
  <1>3. \A row \in rows : New(row) = IF Old(row) = {} THEN {row} ELSE Old(row)
    BY <1>2
  <1>4. EnsureRun(after, rows).ok
    BY <1>2, <1>3 DEF EnsureRun, Ensure
  <1>5. EnsureRun(after, rows).rows = after
    BY <1>3 DEF EnsureRun, Ensure
  <1>6. QED
    BY <1>1, <1>4, <1>5

LEMMA NodeRunsAgain ==
  ASSUME NEW have, NEW rows, EnsureNodeRun(have, rows).ok,
         \A a, b \in EnsureNodeRun(have, rows).rows : a.id = b.id => a = b
  PROVE  LET once == EnsureNodeRun(have, rows)
             twice == EnsureNodeRun(once.rows, rows)
         IN  twice.ok /\ twice.rows = once.rows
  <1> DEFINE Old(row) == {h \in have : h.id = row.id}
             after == have \cup {row \in rows : Old(row) = {}}
             New(row) == {h \in after : h.id = row.id}
  <1>1. EnsureNodeRun(have, rows).rows = after
    BY DEF EnsureNodeRun, Ensure
  <1>2. /\ \A row \in rows : \A h \in Old(row) : <<h.run, h.node, h.round, h.status, h.refs>> = <<row.run, row.node, row.round, row.status, row.refs>>
        /\ \A a, b \in after : a.id = b.id => a = b
    BY <1>1 DEF EnsureNodeRun, Ensure
  <1>3. \A row \in rows : New(row) = IF Old(row) = {} THEN {row} ELSE Old(row)
    BY <1>2
  <1>4. EnsureNodeRun(after, rows).ok
    BY <1>2, <1>3 DEF EnsureNodeRun, Ensure
  <1>5. EnsureNodeRun(after, rows).rows = after
    BY <1>3 DEF EnsureNodeRun, Ensure
  <1>6. QED
    BY <1>1, <1>4, <1>5

\* An import that succeeded is repeated without a conflict and changes nothing.
LEMMA ImportedTwice ==
  ASSUME NEW have, NEW snapshot, Apply(have, snapshot).ok
  PROVE  LET once == Apply(have, snapshot).rows IN
         Apply(once, snapshot).ok /\ Apply(once, snapshot).rows = once
  <1> DEFINE ExecutorRows(defs) ==
               {[row EXCEPT !.def = Renamed(@, defs)] : row \in snapshot.executors}
             InstanceRows(workflows, defs, executors) ==
               {[row EXCEPT !.workflow = Renamed(@, workflows), !.def = Renamed(@, defs),
                            !.executor = Renamed(@, executors)] : row \in snapshot.instances}
             Types(h) == EnsureNodeType(h.types, snapshot.types)
             Defs(h) == EnsureNodeDefinition(h.defs, snapshot.defs)
             Executors(h) == EnsureNodeExecutor(h.executors, ExecutorRows(Defs(h).ids))
             Workflows(h) == EnsureWorkflow(h.workflows, snapshot.workflows)
             Instances(h) ==
               EnsureNodeInstance(h.instances,
                 InstanceRows(Workflows(h).ids, Defs(h).ids, Executors(h).ids))
             RunRows(h) == EnsureRun(h.runs, {[row EXCEPT !.execution = None] : row \in snapshot.runs})
             NodeRunRows(h) == EnsureNodeRun(h.nodeRuns, snapshot.nodeRuns)
             Result(h) ==
               [types |-> Types(h).rows, defs |-> Defs(h).rows, executors |-> Executors(h).rows,
                workflows |-> Workflows(h).rows, instances |-> Instances(h).rows,
                runs |-> RunRows(h).rows, nodeRuns |-> NodeRunRows(h).rows]
             Accepted(h) ==
               /\ \A part \in {Types(h), Defs(h), Executors(h), Workflows(h), Instances(h),
                               RunRows(h), NodeRunRows(h)} : part.ok
               /\ \A d \in snapshot.defs : \E t \in snapshot.types : t.name = d.type
               /\ ConstraintsHold(Result(h))
             once == Result(have)
  <1>1. ASSUME NEW h PROVE Apply(h, snapshot) = [ok |-> Accepted(h), rows |-> Result(h)]
    BY Zenon DEF Apply
  <1>2. Accepted(have) /\ Apply(have, snapshot).rows = once
    <2> HIDE DEF Accepted, Result
    <2>1. QED
      BY <1>1
  <1>3. /\ once.types = Types(have).rows /\ once.defs = Defs(have).rows
        /\ once.executors = Executors(have).rows /\ once.workflows = Workflows(have).rows
        /\ once.instances = Instances(have).rows /\ once.runs = RunRows(have).rows
        /\ once.nodeRuns = NodeRunRows(have).rows
    OBVIOUS
  <1>4. /\ Types(have).ok /\ Defs(have).ok /\ Executors(have).ok /\ Workflows(have).ok
        /\ Instances(have).ok /\ RunRows(have).ok /\ NodeRunRows(have).ok
    BY <1>2, Zenon
  <1>5. /\ \A a, b \in once.types : a.name = b.name => a = b
        /\ \A a, b \in once.defs : a.name = b.name => a = b
        /\ \A a, b \in once.executors : <<a.def, a.version>> = <<b.def, b.version>> => a = b
        /\ \A a, b \in once.workflows : <<a.name, a.version>> = <<b.name, b.version>> => a = b
        /\ \A a, b \in once.instances : <<a.workflow, a.node>> = <<b.workflow, b.node>> => a = b
        /\ \A a, b \in once.runs : a.id = b.id => a = b
        /\ \A a, b \in once.nodeRuns : a.id = b.id => a = b
    <2>1. ConstraintsHold(once)
      BY <1>2, Zenon
    <2> HIDE DEF once
    <2>2. QED
      BY <2>1 DEF ConstraintsHold, DefinitionTablesHold, RunTablesHold, Unique
  <1> HIDE DEF once, Result, Accepted
  <1>6. Types(once).ok /\ Types(once).rows = once.types
    <2> HIDE DEF Defs, Executors, Workflows, Instances, RunRows, NodeRunRows
    <2>1. QED
      BY <1>3, <1>4, <1>5, TypesAgain
  <1>7. Defs(once).ok /\ Defs(once).rows = once.defs /\ Defs(once).ids = Defs(have).ids
    <2> HIDE DEF Executors, Workflows, Instances, Types, RunRows, NodeRunRows
    <2>1. QED
      BY <1>3, <1>4, <1>5, DefinitionsAgain
  <1>8. /\ Executors(once).ok /\ Executors(once).rows = once.executors
        /\ Executors(once).ids = Executors(have).ids
    <2> DEFINE rows == ExecutorRows(Defs(have).ids)
    <2>1. /\ Executors(have) = EnsureNodeExecutor(have.executors, rows)
          /\ Executors(once) = EnsureNodeExecutor(once.executors, rows)
      BY <1>7
    <2> HIDE DEF rows, Defs, Executors, Workflows, Instances, Types, RunRows, NodeRunRows
    <2>2. QED
      BY <1>3, <1>4, <1>5, <2>1, ExecutorsAgain
  <1>9. /\ Workflows(once).ok /\ Workflows(once).rows = once.workflows
        /\ Workflows(once).ids = Workflows(have).ids
    <2> HIDE DEF Defs, Executors, Instances, Types, RunRows, NodeRunRows
    <2>1. QED
      BY <1>3, <1>4, <1>5, WorkflowsAgain
  <1>10. Instances(once).ok /\ Instances(once).rows = once.instances
    <2> DEFINE rows == InstanceRows(Workflows(have).ids, Defs(have).ids, Executors(have).ids)
    <2>1. /\ Instances(have) = EnsureNodeInstance(have.instances, rows)
          /\ Instances(once) = EnsureNodeInstance(once.instances, rows)
      <3> HIDE DEF Defs, Executors, Workflows, InstanceRows
      <3>1. QED
        BY <1>7, <1>8, <1>9
    <2> HIDE DEF rows, Defs, Executors, Workflows, Instances, Types, RunRows, NodeRunRows
    <2>2. QED
      BY <1>3, <1>4, <1>5, <2>1, InstancesAgain
  <1>11. RunRows(once).ok /\ RunRows(once).rows = once.runs
    <2> DEFINE rows == {[row EXCEPT !.execution = None] : row \in snapshot.runs}
    <2>1. /\ RunRows(have) = EnsureRun(have.runs, rows)
          /\ RunRows(once) = EnsureRun(once.runs, rows)
      OBVIOUS
    <2> HIDE DEF rows, Types, Defs, Executors, Workflows, Instances, RunRows, NodeRunRows
    <2>2. QED
      BY <1>3, <1>4, <1>5, <2>1, RunsAgain
  <1>12. NodeRunRows(once).ok /\ NodeRunRows(once).rows = once.nodeRuns
    <2> HIDE DEF Types, Defs, Executors, Workflows, Instances, RunRows
    <2>1. QED
      BY <1>3, <1>4, <1>5, NodeRunsAgain
  <1> HIDE DEF Types, Defs, Executors, Workflows, Instances, RunRows, NodeRunRows
  <1>13. Result(once) = once
    <2>1. once = [types |-> once.types, defs |-> once.defs, executors |-> once.executors,
                  workflows |-> once.workflows, instances |-> once.instances,
                  runs |-> once.runs, nodeRuns |-> once.nodeRuns]
      BY DEF once, Result
    <2>2. QED
      BY <1>6, <1>7, <1>8, <1>9, <1>10, <1>11, <1>12, <2>1 DEF Result
  <1>14. Accepted(once)
    <2>1. \A d \in snapshot.defs : \E t \in snapshot.types : t.name = d.type
      BY <1>2 DEF Accepted
    <2>2. ConstraintsHold(Result(once))
      BY <1>2, <1>13 DEF Accepted, once
    <2>3. QED
      BY <1>6, <1>7, <1>8, <1>9, <1>10, <1>11, <1>12, <2>1, <2>2 DEF Accepted
  <1>15. QED
    BY <1>1, <1>2, <1>13, <1>14
-----------------------------------------------------------------------------
(* A migration that is repeated, while nothing is written to the old store *)
(* and it agreed with the destination.                                     *)

OldTables == SourceHistory[source.since]

Still == StoresAgree /\ source.at = source.since

\* The files of a Run that are migrated, and the execution they belong to.
NamedFiles(r) ==
  {uri \in UNION {n.refs : n \in {n \in OldTables.nodeRuns : n.run = r}} : LegacyName(uri)}

ExecutionOf(r) == (CHOOSE run \in OldTables.runs : run.id = r).execution

\* What is in a directory is what any call would put there.
HoldsFiles(r, files) ==
  \A uri \in NamedFiles(r) :
    uri \in DOMAIN files /\ files[uri] = source.files[ExecutionOf(r)][uri]

\* A call has read the tables as they are and copies no other files; it met no conflict.
Recognizes(m) ==
  /\ job[m].reason \notin {"conflict", "occupied"}
  /\ \A t \in 1..7 : t <= job[m].loaded => job[m].snapshot[Tables[t]] = OldTables[Tables[t]]
  /\ \A r \in Runs : DOMAIN job[m].staged[r] \subseteq NamedFiles(r)

\* The destination is as it was at first or has been migrated into, and every directory
\* of a Run of the old store is whole.
AgainInv ==
  Still =>
    /\ db \in {first.db, Apply(first.db, OldTables).rows}
    /\ \A r \in Runs : dirs[r] # NoDir => HoldsFiles(r, dirs[r])
    /\ \A m \in Migrators : Recognizes(m)

\* A step of a migrator.
LEMMA RepeatStep ==
  ASSUME AgainInv, NEW m \in Migrators, DOMAIN job = Migrators,
         job' = [job EXCEPT ![m] = job'[m]], UNCHANGED <<source, first>>,
         Still => /\ db' \in {first.db, Apply(first.db, OldTables).rows}
                  /\ \A r \in Runs : dirs'[r] # NoDir => HoldsFiles(r, dirs'[r])
                  /\ Recognizes(m)'
  PROVE  AgainInv'
  <1>1. source' = source /\ first' = first
    OBVIOUS
  <1>2. OldTables' = OldTables /\ (Still <=> Still')
    BY <1>1 DEF OldTables, Still, StoresAgree
  <1>3. \A r : NamedFiles(r)' = NamedFiles(r) /\ ExecutionOf(r)' = ExecutionOf(r)
    BY <1>2 DEF NamedFiles, ExecutionOf
  <1>4. CASE Still
    <2>1. (db \in {first.db, Apply(first.db, OldTables).rows})'
      BY <1>1, <1>2, <1>4
    <2>2. (\A r \in Runs : dirs[r] # NoDir => HoldsFiles(r, dirs[r]))'
      BY <1>1, <1>3, <1>4 DEF HoldsFiles
    <2>3. ASSUME NEW q \in Migrators \ {m}
          PROVE  Recognizes(q)'
      <3>1. job'[q] = job[q] /\ Recognizes(q)
        BY <1>4 DEF AgainInv
      <3>2. QED
        BY <1>2, <1>3, <3>1 DEF Recognizes
    <2>4. QED
      BY <1>4, <2>1, <2>2, <2>3 DEF AgainInv
  <1>5. CASE ~ Still
    BY <1>2, <1>5 DEF AgainInv
  <1>6. QED
    BY <1>4, <1>5

\* A call that ends, crashes or is made again.
LEMMA RepeatRest ==
  ASSUME IInv, AgainInv, NEW m \in Migrators, NEW j, job' = [job EXCEPT ![m] = j],
         j.staged = [r \in Runs |-> NoDir], j.loaded = 0,
         Still => j.reason \notin {"conflict", "occupied"},
         UNCHANGED <<source, first, dirs>>,
         Still => db' \in {db, Apply(first.db, OldTables).rows}
  PROVE  AgainInv'
  <1>1. m \in DOMAIN job /\ DOMAIN job = Migrators /\ job'[m] = j
    BY DEF IInv
  <1>2. Still => Recognizes(m)'
    BY <1>1, IdleFields DEF Recognizes
  <1>3. QED
    BY <1>1, <1>2, RepeatStep DEF AgainInv

LEMMA RepeatFails ==
  ASSUME IInv, AgainInv, NEW m \in Migrators, NEW at, NEW reason, Fails(m, at, reason),
         UNCHANGED dirs, Still => reason \notin {"conflict", "occupied"}
  PROVE  AgainInv'
  <1> DEFINE j == Ended(m, "failed", reason)
  <1>1. job' = [job EXCEPT ![m] = j] /\ UNCHANGED <<source, first, dirs, db>>
    BY DEF Fails, Moves
  <1>2. j.staged = [r \in Runs |-> NoDir] /\ j.loaded = 0 /\ j.reason = reason
    BY IdleFields DEF Ended, Fields
  <1> HIDE DEF j
  <1>3. QED
    BY <1>1, <1>2, RepeatRest

\* A call that moves on with the tables and the copies it has.
LEMMA RepeatMoves ==
  ASSUME IInv, AgainInv, NEW m \in Migrators, NEW j, job' = [job EXCEPT ![m] = j],
         j.staged = job[m].staged, j.loaded = job[m].loaded, j.snapshot = job[m].snapshot,
         j.reason \in {job[m].reason, "fault", "left behind"},
         UNCHANGED <<source, first, db>>,
         Still => \A r \in Runs : dirs'[r] # NoDir => HoldsFiles(r, dirs'[r])
  PROVE  AgainInv'
  <1>1. m \in DOMAIN job /\ DOMAIN job = Migrators /\ job'[m] = j
    BY DEF IInv
  <1>2. Still => Recognizes(m)'
    <2>1. SUFFICES ASSUME Still
                   PROVE  Recognizes(m)'
      OBVIOUS
    <2>2. Recognizes(m) /\ source' = source
      BY <2>1 DEF AgainInv
    <2>3. OldTables' = OldTables /\ \A r : NamedFiles(r)' = NamedFiles(r)
      BY <2>2 DEF OldTables, NamedFiles
    <2>4. QED
      BY <1>1, <2>2, <2>3 DEF Recognizes
  <1>3. QED
    BY <1>1, <1>2, RepeatStep DEF AgainInv

\* What is imported depends on the rows of a snapshot only.
LEMMA SameRows ==
  ASSUME NEW have, NEW a, NEW b, \A t \in 1..7 : a[Tables[t]] = b[Tables[t]]
  PROVE  Apply(have, a) = Apply(have, b)
  <1>1. /\ a.types = b.types /\ a.defs = b.defs /\ a.executors = b.executors
        /\ a.workflows = b.workflows /\ a.instances = b.instances
        /\ a.runs = b.runs /\ a.nodeRuns = b.nodeRuns
    <2>1. /\ Tables[1] = "types" /\ Tables[2] = "defs" /\ Tables[3] = "executors"
          /\ Tables[4] = "workflows" /\ Tables[5] = "instances" /\ Tables[6] = "runs"
          /\ Tables[7] = "nodeRuns"
      BY DEF Tables
    <2>2. QED
      BY <2>1
  <1>2. QED
    BY <1>1 DEF Apply

\* A call that has read every table would import the tables as they are, and their files.
LEMMA ReadAsTheyAre ==
  ASSUME IInv, AgainInv, Still, NEW m \in Migrators,
         job[m].at \in {"loaded", "opened", "staging", "publishing"}
  PROVE  /\ \A have : Apply(have, job[m].snapshot) = Apply(have, OldTables)
         /\ \A r \in Runs : ArtifactRefs(m, r) = NamedFiles(r) /\ Execution(m, r) = ExecutionOf(r)
  <1>1. job[m].loaded = 7 /\ Recognizes(m)
    BY DEF IInv, JobInv, Loaded, AgainInv
  <1>2. \A t \in 1..7 : job[m].snapshot[Tables[t]] = OldTables[Tables[t]]
    BY <1>1 DEF Recognizes
  <1>3. job[m].snapshot.runs = OldTables.runs /\ job[m].snapshot.nodeRuns = OldTables.nodeRuns
    <2>1. Tables[6] = "runs" /\ Tables[7] = "nodeRuns"
      BY DEF Tables
    <2>2. QED
      BY <1>2, <2>1
  <1>4. QED
    BY <1>2, <1>3, SameRows DEF ArtifactRefs, NamedFiles, Execution, ExecutionOf

LEMMA RepeatLoad ==
  ASSUME IInv, AgainInv, NEW m \in Migrators, LoadTable(m)
  PROVE  AgainInv'
  <1> DEFINE table == LoadOrder[job[m].loaded + 1]
             next == [job[m] EXCEPT !.snapshot[table] = source.db[table], !.loaded = @ + 1,
                        !.at = IF job[m].loaded = 6 THEN "loaded" ELSE "loading"]
  <1>1. CASE Fails(m, "loading", "unreadable")
    BY <1>1, RepeatFails DEF LoadTable
  <1>2. CASE ~ Fails(m, "loading", "unreadable")
    <2>1. /\ job' = [job EXCEPT ![m] = next] /\ UNCHANGED <<source, first, db, dirs>>
          /\ m \in DOMAIN job /\ DOMAIN job = Migrators /\ SourceInv
          /\ Typed(m) /\ job[m].loaded \in 0..6
      BY <1>2 DEF LoadTable, Moves, IInv, JobInv, Typed, Loaded
    <2>2. /\ next.snapshot = [job[m].snapshot EXCEPT ![table] = source.db[table]]
          /\ next.loaded = job[m].loaded + 1 /\ next.reason = job[m].reason
          /\ next.staged = job[m].staged
      BY <2>1 DEF Typed, Fields
    <2> HIDE DEF next
    <2>3. ASSUME Still
          PROVE  Recognizes(m)'
      <3>1. Recognizes(m) /\ source.db = OldTables /\ source' = source /\ job'[m] = next
        BY <2>1, <2>3 DEF AgainInv, SourceInv, Still, OldTables
      <3>2. OldTables' = OldTables /\ \A r : NamedFiles(r)' = NamedFiles(r)
        BY <3>1 DEF OldTables, NamedFiles
      <3>3. ASSUME NEW t \in 1..7, t <= job[m].loaded + 1
            PROVE  next.snapshot[Tables[t]] = OldTables[Tables[t]]
        <4>1. Tables[t] \in DOMAIN job[m].snapshot
          BY <2>1 DEF Typed, EmptyTables, Tables
        <4>2. CASE t = job[m].loaded + 1
          BY <2>2, <3>1, <4>1, <4>2 DEF LoadOrder
        <4>3. CASE t <= job[m].loaded
          BY <2>2, <3>1, <4>1, <4>3 DEF LoadOrder, Recognizes
        <4>4. QED
          BY <2>1, <3>3, <4>2, <4>3
      <3>4. QED
        BY <2>2, <3>1, <3>2, <3>3 DEF Recognizes
    <2>4. QED
      BY <2>1, <2>3, RepeatStep DEF AgainInv
  <1>3. QED
    BY <1>1, <1>2

\* Nothing in the destination is in conflict with the tables.
LEMMA RepeatBegin ==
  ASSUME IInv, AgainInv, NEW m \in Migrators, Begin(m)
  PROVE  AgainInv'
  <1> DEFINE import == Apply(db, job[m].snapshot)
             next == [job[m] EXCEPT !.at = "staging", !.rows = import.rows, !.before = <<db, dirs>>]
  <1>1. CASE ~ import.ok
    <2>1. Fails(m, "opened", "conflict") /\ UNCHANGED dirs
      BY <1>1 DEF Begin
    <2>2. ASSUME Still
          PROVE  import.ok
      <3>1. import = Apply(db, OldTables)
        BY <2>2, ReadAsTheyAre DEF Begin
      <3>2. Apply(first.db, OldTables).ok
        BY <2>2 DEF Still, StoresAgree, OldTables
      <3>3. db \in {first.db, Apply(first.db, OldTables).rows}
        BY <2>2 DEF AgainInv
      <3>4. QED
        BY <3>1, <3>2, <3>3, ImportedTwice
    <2>3. QED
      BY <1>1, <2>1, <2>2, RepeatFails
  <1>2. CASE import.ok
    <2>1. /\ job' = [job EXCEPT ![m] = next] /\ UNCHANGED <<source, first, db, dirs>>
      BY <1>2 DEF Begin, Moves
    <2>2. /\ next.staged = job[m].staged /\ next.loaded = job[m].loaded
          /\ next.snapshot = job[m].snapshot /\ next.reason = job[m].reason
      BY DEF IInv, JobInv, Typed, Fields
    <2> HIDE DEF next
    <2>3. QED
      BY <2>1, <2>2, RepeatMoves DEF AgainInv
  <1>3. QED
    BY <1>1, <1>2

LEMMA RepeatStage ==
  ASSUME IInv, AgainInv, NEW m \in Migrators, StageFile(m)
  PROVE  AgainInv'
  <1>1. PICK item \in ToStage(m) :
          LET r == item[1]  uri == item[2]  from == source.files[Execution(m, r)]
          IN  IF uri \in DOMAIN from
                THEN /\ Moves(m, "staging", [job[m] EXCEPT !.staged[r] = With(@, uri, from[uri])])
                     /\ UNCHANGED <<source, version, db, writer, first>>
                ELSE Fails(m, "staging", "missing file")
    BY DEF StageFile
  <1> DEFINE r == item[1]
             uri == item[2]
             from == source.files[Execution(m, r)]
             next == [job[m] EXCEPT !.staged[r] = With(job[m].staged[r], uri, from[uri])]
  <1>2. CASE uri \notin DOMAIN from
    BY <1>1, <1>2, RepeatFails DEF StageFile
  <1>3. CASE uri \in DOMAIN from
    <2>1. /\ job[m].at = "staging" /\ job' = [job EXCEPT ![m] = next] /\ m \in DOMAIN job
          /\ source' = source /\ first' = first /\ db' = db /\ dirs' = dirs
          /\ Typed(m) /\ DOMAIN job = Migrators
      BY <1>1, <1>3 DEF StageFile, Moves, IInv, JobInv
    <2>2. r \in Runs /\ uri \in ArtifactRefs(m, r)
      <3>1. PICK run \in Runs : \E u \in ArtifactRefs(m, run) : item = <<run, u>>
        BY DEF ToStage
      <3>2. QED
        BY <3>1
    <2>3. /\ next.loaded = job[m].loaded /\ next.snapshot = job[m].snapshot
          /\ next.reason = job[m].reason
          /\ next.staged = [job[m].staged EXCEPT ![r] = With(job[m].staged[r], uri, from[uri])]
      BY <2>1 DEF Typed, Fields
    <2>4. job'[m] = next
      BY <2>1
    <2> HIDE DEF next, from
    <2>5. ASSUME Still
          PROVE  Recognizes(m)'
      <3>1. Recognizes(m) /\ uri \in NamedFiles(r)
        BY <2>1, <2>2, <2>5, ReadAsTheyAre DEF AgainInv
      <3>2. OldTables' = OldTables /\ \A q : NamedFiles(q)' = NamedFiles(q)
        BY <2>1 DEF OldTables, NamedFiles
      <3>3. \A q \in Runs : DOMAIN next.staged[q] \subseteq NamedFiles(q)
        <4>1. next.staged[r] = With(job[m].staged[r], uri, from[uri])
          BY <2>1, <2>2, <2>3 DEF Typed
        <4>2. DOMAIN next.staged[r] = DOMAIN job[m].staged[r] \cup {uri}
          BY <4>1 DEF With
        <4>3. \A q \in Runs \ {r} : next.staged[q] = job[m].staged[q]
          BY <2>1, <2>3 DEF Typed
        <4>4. QED
          BY <2>2, <3>1, <4>2, <4>3 DEF Recognizes
      <3>4. QED
        BY <2>3, <2>4, <3>1, <3>2, <3>3 DEF Recognizes
    <2>6. QED
      BY <2>1, <2>4, <2>5, RepeatStep DEF AgainInv
  <1>4. QED
    BY <1>2, <1>3

\* A directory of the same Run has the files that were copied.
LEMMA RepeatCheck ==
  ASSUME IInv, AgainInv, NEW m \in Migrators, CheckPublished(m)
  PROVE  AgainInv'
  <1> DEFINE next == [job[m] EXCEPT !.at = "publishing"]
             Fit == \A r \in Runs : dirs[r] # NoDir => EqualFiles(job[m].staged[r], dirs[r])
  <1>1. CASE ~ Fit
    <2>1. Fails(m, "staging", "occupied") /\ UNCHANGED dirs /\ job[m].at = "staging"
      BY <1>1 DEF CheckPublished
    <2>2. ASSUME Still, NEW r \in Runs, dirs[r] # NoDir
          PROVE  EqualFiles(job[m].staged[r], dirs[r])
      <3>1. HoldsFiles(r, dirs[r]) /\ Recognizes(m) /\ Copied(m)
        BY <2>2 DEF AgainInv, IInv, JobInv
      <3>2. Execution(m, r) = ExecutionOf(r)
        BY <2>1, <2>2, ReadAsTheyAre
      <3>3. QED
        BY <3>1, <3>2 DEF HoldsFiles, Recognizes, Copied, EqualFiles
    <2>3. QED
      BY <1>1, <2>1, <2>2, RepeatFails
  <1>2. CASE Fit
    <2>1. job' = [job EXCEPT ![m] = next] /\ UNCHANGED <<source, first, db, dirs>>
      BY <1>2 DEF CheckPublished, Moves
    <2>2. /\ next.staged = job[m].staged /\ next.loaded = job[m].loaded
          /\ next.snapshot = job[m].snapshot /\ next.reason = job[m].reason
      BY DEF IInv, JobInv, Typed, Fields
    <2> HIDE DEF next
    <2>3. QED
      BY <2>1, <2>2, RepeatMoves DEF AgainInv
  <1>3. QED
    BY <1>1, <1>2

\* A directory that is renamed into place is whole.
LEMMA RepeatPublish ==
  ASSUME IInv, AgainInv, NEW m \in Migrators, PublishRun(m)
  PROVE  AgainInv'
  <1>1. PICK r \in ToPublish(m) :
          /\ Moves(m, "publishing", [job[m] EXCEPT !.published = Append(@, r)])
          /\ dirs' = [dirs EXCEPT ![r] = job[m].staged[r]]
    BY DEF PublishRun, ToPublish
  <1> DEFINE next == [job[m] EXCEPT !.published = Append(job[m].published, r)]
  <1>2. /\ job[m].at = "publishing" /\ job' = [job EXCEPT ![m] = next]
        /\ UNCHANGED <<source, first, db>> /\ r \in Runs
        /\ Copied(m) /\ ToStage(m) = {} /\ DOMAIN dirs = Runs
    BY <1>1 DEF PublishRun, Moves, ToPublish, IInv, JobInv, Staged
  <1>3. /\ next.staged = job[m].staged /\ next.loaded = job[m].loaded
        /\ next.snapshot = job[m].snapshot /\ next.reason = job[m].reason
    BY DEF IInv, JobInv, Typed, Fields
  <1> HIDE DEF next
  <1>4. ASSUME Still
        PROVE  HoldsFiles(r, job[m].staged[r])
    <2>1. ArtifactRefs(m, r) = NamedFiles(r) /\ Execution(m, r) = ExecutionOf(r)
      BY <1>2, <1>4, ReadAsTheyAre
    <2>2. ArtifactRefs(m, r) \subseteq DOMAIN job[m].staged[r]
      <3>1. SUFFICES ASSUME NEW uri \in ArtifactRefs(m, r) \ DOMAIN job[m].staged[r]
                     PROVE  FALSE
        OBVIOUS
      <3>2. <<r, uri>> \in ToStage(m)
        BY <1>2, <3>1 DEF ToStage
      <3>3. QED
        BY <1>2, <3>2
    <2>3. QED
      BY <1>2, <2>1, <2>2 DEF Copied, HoldsFiles
  <1>5. Still => \A q \in Runs : dirs'[q] # NoDir => HoldsFiles(q, dirs'[q])
    BY <1>1, <1>2, <1>4 DEF AgainInv
  <1>6. QED
    BY <1>2, <1>3, <1>5, RepeatMoves

LEMMA RepeatRestore ==
  ASSUME IInv, AgainInv, NEW m \in Migrators, Restore(m)
  PROVE  AgainInv'
  <1> DEFINE done == Len(job[m].published)
             rest == [job[m] EXCEPT !.published = SubSeq(@, 1, done - 1)]
             r == job[m].published[done]
             left == [rest EXCEPT !.reason = "left behind"]
  <1>1. /\ UNCHANGED <<source, first, db>> /\ dirs = [q \in Runs |-> dirs[q]]
        /\ \/ dirs' = [dirs EXCEPT ![r] = NoDir] /\ job' = [job EXCEPT ![m] = rest]
           \/ dirs' = dirs /\ job' = [job EXCEPT ![m] = left]
    BY DEF Restore, IInv
  <1>2. /\ rest.staged = job[m].staged /\ rest.loaded = job[m].loaded
        /\ rest.snapshot = job[m].snapshot /\ rest.reason = job[m].reason
        /\ left.staged = job[m].staged /\ left.loaded = job[m].loaded
        /\ left.snapshot = job[m].snapshot /\ left.reason = "left behind"
    BY DEF IInv, JobInv, Typed, Fields
  <1> HIDE DEF rest, left, r
  <1>3. Still => \A q \in Runs : dirs'[q] # NoDir => HoldsFiles(q, dirs'[q])
    BY <1>1 DEF AgainInv
  <1>4. QED
    BY <1>1, <1>2, <1>3, RepeatMoves

\* A commit of the tables as they are.
LEMMA RepeatCommit ==
  ASSUME IInv, AgainInv, NEW m \in Migrators, Commit(m)
  PROVE  AgainInv'
  <1> DEFINE j == Ended(m, "done", None)
  <1>1. /\ job[m].at = "publishing" /\ job' = [job EXCEPT ![m] = j] /\ db' = job[m].rows
        /\ UNCHANGED <<source, first, dirs>>
        /\ job[m].rows = Apply(db, job[m].snapshot).rows
    BY DEF Commit, Moves, IInv, JobInv, Locks, Holding
  <1>2. j.staged = [r \in Runs |-> NoDir] /\ j.loaded = 0 /\ j.reason = None
    BY IdleFields DEF Ended, Fields
  <1> HIDE DEF j
  <1>3. ASSUME Still
        PROVE  db' = Apply(first.db, OldTables).rows
    <2>1. db' = Apply(db, OldTables).rows
      BY <1>1, <1>3, ReadAsTheyAre
    <2>2. Apply(first.db, OldTables).ok
      BY <1>3 DEF Still, StoresAgree, OldTables
    <2>3. db \in {first.db, Apply(first.db, OldTables).rows}
      BY <1>3 DEF AgainInv
    <2>4. QED
      BY <2>1, <2>2, <2>3, ImportedTwice
  <1>4. QED
    BY <1>1, <1>2, <1>3, RepeatRest DEF None

LEMMA RepeatOpen ==
  ASSUME IInv, AgainInv, NEW m \in Migrators, OpenSource(m) \/ OpenTarget(m)
  PROVE  AgainInv'
  <1>1. CASE OpenSource(m)
    <2> DEFINE j == [Idle EXCEPT !.at = "loading"]
    <2>1. CASE Fails(m, "idle", "no run history")
      BY <1>1, <2>1, RepeatFails DEF OpenSource
    <2>2. CASE ~ Fails(m, "idle", "no run history")
      <3>1. job' = [job EXCEPT ![m] = j] /\ UNCHANGED <<source, first, dirs, db>>
        BY <1>1, <2>2 DEF OpenSource, Moves
      <3>2. j.staged = [r \in Runs |-> NoDir] /\ j.loaded = 0 /\ j.reason = None
        BY IdleFields DEF Fields
      <3> HIDE DEF j
      <3>3. QED
        BY <3>1, <3>2, RepeatRest DEF None
    <2>3. QED
      BY <2>1, <2>2
  <1>2. CASE OpenTarget(m)
    <2> DEFINE j == [job[m] EXCEPT !.at = "opened"]
    <2>1. job' = [job EXCEPT ![m] = j] /\ UNCHANGED <<source, first, dirs, db>>
      BY <1>2 DEF OpenTarget, Moves
    <2>2. /\ j.staged = job[m].staged /\ j.loaded = job[m].loaded
          /\ j.snapshot = job[m].snapshot /\ j.reason = job[m].reason
      BY DEF IInv, JobInv, Typed, Fields
    <2> HIDE DEF j
    <2>3. QED
      BY <2>1, <2>2, RepeatMoves DEF AgainInv
  <1>3. QED
    BY <1>1, <1>2

LEMMA RepeatEnd ==
  ASSUME IInv, AgainInv, NEW m \in Migrators,
         GiveUpWaiting(m) \/ StageFails(m) \/ Restored(m) \/ IsRefused(m)
  PROVE  AgainInv'
  <1>1. CASE GiveUpWaiting(m)
    <2>1. PICK at \in {"loaded", "opened"} : Fails(m, at, "busy")
      BY <1>1 DEF GiveUpWaiting
    <2>2. QED
      BY <1>1, <2>1, RepeatFails DEF GiveUpWaiting
  <1>2. CASE StageFails(m)
    BY <1>2, RepeatFails DEF StageFails
  <1>3. CASE Restored(m)
    BY <1>3, RepeatFails DEF Restored, AgainInv, Recognizes
  <1>4. CASE IsRefused(m)
    <2> DEFINE j == [job[m] EXCEPT !.at = "restoring", !.reason = "fault"]
    <2>1. job' = [job EXCEPT ![m] = j] /\ UNCHANGED <<source, first, dirs, db>>
      BY <1>4 DEF IsRefused, Restores, Moves
    <2>2. /\ j.staged = job[m].staged /\ j.loaded = job[m].loaded
          /\ j.snapshot = job[m].snapshot /\ j.reason = "fault"
      BY DEF IInv, JobInv, Typed, Fields
    <2> HIDE DEF j
    <2>3. QED
      BY <2>1, <2>2, RepeatMoves DEF AgainInv
  <1>5. QED
    BY <1>1, <1>2, <1>3, <1>4

LEMMA RepeatAgain ==
  ASSUME IInv, AgainInv, NEW m \in Migrators, Crash(m) \/ CallAgain(m)
  PROVE  AgainInv'
  <1>1. job' = [job EXCEPT ![m] = Idle] /\ UNCHANGED <<source, first, dirs, db>>
    BY DEF Crash, CallAgain
  <1>2. QED
    BY <1>1, IdleFields, RepeatRest DEF None

\* Once the old store has moved, the premise is gone for good.
LEMMA RepeatElsewhere ==
  ASSUME IInv, AgainInv, SourceMoves \/ UNCHANGED vars
  PROVE  AgainInv'
  <1>1. CASE SourceMoves
    <2>1. source'.since = source.since /\ source'.at = source.at + 1
      BY <1>1 DEF SourceMoves, IInv, SourceInv
    <2>2. source.at \in Int /\ source.since \in Int /\ source.since <= source.at
      BY SourceAssumption DEF IInv, SourceInv
    <2>3. ~ Still'
      BY <2>1, <2>2 DEF Still
    <2>4. QED
      BY <2>3 DEF AgainInv
  <1>2. CASE UNCHANGED vars
    <2>1. /\ source' = source /\ db' = db /\ dirs' = dirs /\ job' = job /\ first' = first
      BY <1>2 DEF vars
    <2>2. OldTables' = OldTables /\ (Still <=> Still')
      BY <2>1 DEF OldTables, Still, StoresAgree
    <2>3. \A r : NamedFiles(r)' = NamedFiles(r) /\ ExecutionOf(r)' = ExecutionOf(r)
      BY <2>2 DEF NamedFiles, ExecutionOf
    <2>4. QED
      BY <2>1, <2>2, <2>3 DEF AgainInv, Recognizes, HoldsFiles
  <1>3. QED
    BY <1>1, <1>2

LEMMA RepeatInit ==
  ASSUME Init
  PROVE  AgainInv
  <1>1. /\ db = first.db /\ dirs = first.dirs /\ job = [m \in Migrators |-> Idle]
    BY DEF Init
  <1>2. \A m \in Migrators : Recognizes(m)
    BY <1>1, IdleFields DEF Recognizes, None
  <1>3. ASSUME Still, NEW r \in Runs, dirs[r] # NoDir
        PROVE  HoldsFiles(r, dirs[r])
    <2>1. \A n \in OldTables.nodeRuns : n.run # r
      BY <1>1, <1>3 DEF Still, StoresAgree, OldTables
    <2>2. NamedFiles(r) = {}
      BY <2>1 DEF NamedFiles
    <2>3. QED
      BY <2>2 DEF HoldsFiles
  <1>4. QED
    BY <1>1, <1>2, <1>3 DEF AgainInv

\* While nothing is written to the old store, no call finds a conflict with what another
\* has left, finished, refused or crashed: rows that were imported are recognized by their
\* keys, directories that were left by their files.
THEOREM MigrationRepeats == Spec => []MigrationIsRepeatable
  <1>1. Init => AgainInv
    BY RepeatInit
  <1>2. IInv /\ AgainInv /\ [Next]_vars => AgainInv'
    <2>1. SUFFICES ASSUME IInv, AgainInv, [Next]_vars
                   PROVE  AgainInv'
      OBVIOUS
    <2>2. ASSUME NEW m \in Migrators, Step(m)
          PROVE  AgainInv'
      BY <2>1, <2>2, RepeatOpen, RepeatLoad, RepeatBegin, RepeatEnd, RepeatStage, RepeatCheck,
         RepeatPublish, RepeatCommit, RepeatRestore DEF Step
    <2>3. ASSUME NEW m \in Migrators, IsRefused(m) \/ Crash(m) \/ CallAgain(m)
          PROVE  AgainInv'
      BY <2>1, <2>3, RepeatEnd, RepeatAgain
    <2>4. QED
      BY <2>1, <2>2, <2>3, RepeatElsewhere DEF Next
  <1>3. AgainInv => MigrationIsRepeatable
    BY DEF AgainInv, Still, Recognizes, MigrationIsRepeatable
  <1>4. QED
    BY <1>1, <1>2, <1>3, Inductive, PTL DEF Spec
=============================================================================
