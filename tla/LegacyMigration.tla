--------------------------- MODULE LegacyMigration ---------------------------
(***************************************************************************)
(* MigrateLegacy (internal/history/legacy_migration.go) copies the history *)
(* of an old store into the Local Data Root: rows in one transaction, the  *)
(* artifact files of the runs by way of a staging directory.  The files    *)
(* are renamed into place before the transaction commits; a failure        *)
(* renames them back.  Migrators may crash anywhere and be started again,  *)
(* and the program of the old store may still be writing to it.            *)
(***************************************************************************)
EXTENDS HistorySchema

CONSTANTS
  Migrators,      \* calls of MigrateLegacy, of one process or of several
  SourceVersions, \* user_version of the old store
  SourceHistory,  \* the tables of the old store, one after the other
  FileSets,       \* its artifact files may be one of these: by execution, by name
  Destinations,   \* what the Local Data Root may hold at first: [version, db, dirs]
  Runs,           \* ids of Workflow Runs
  MaxFaults       \* bound: crashes and refused commits and renames

Tables == <<"types", "defs", "executors", "workflows", "instances", "runs", "nodeRuns">>

NoDir == <<>>  \* no directory of a run

ASSUME MigrationAssumption == MaxFaults \in Nat /\ None \notin Migrators

\* A Run of the old store keeps its id and its execution, and its node runs stay.
ASSUME SourceAssumption ==
  /\ Len(SourceHistory) \in Nat /\ DOMAIN SourceHistory = 1..Len(SourceHistory)
  /\ \A i \in DOMAIN SourceHistory :
       /\ DOMAIN SourceHistory[i] = {Tables[t] : t \in 1..7}
       /\ \A run \in SourceHistory[i].runs : run.id \in Runs
  /\ \A i, j \in DOMAIN SourceHistory :
       /\ \A a \in SourceHistory[i].runs, b \in SourceHistory[j].runs :
            a.id = b.id => a.execution = b.execution
       /\ i <= j => \A n \in SourceHistory[i].nodeRuns :
            \E k \in SourceHistory[j].nodeRuns : k.id = n.id

\* The ids of Runs are UUIDs: a destination knows none of them before it is migrated into.
ASSUME DestinationAssumption ==
  \A d \in Destinations :
    /\ d.dirs = [r \in Runs |-> d.dirs[r]]
    /\ \A i \in DOMAIN SourceHistory : \A run \in SourceHistory[i].runs :
         (\A r \in d.db.runs : r.id # run.id) /\ (\A n \in d.db.nodeRuns : n.run # run.id)

VARIABLES
  source,  \* [version, files, db, at, since]: the old store; at: where in SourceHistory it
           \* is, since: where it was at first (for the properties)
  version, \* user_version of the destination
  db,      \* the tables of the destination
  dirs,    \* dirs[r]: the files below runs/<r>/artifacts, by name
  writer,  \* who holds the write lock of the destination, or None
  job,     \* job[m]: where the call of a migrator stands
  faults,  \* how many faults have happened
  first    \* the destination at first (for the properties)

vars == <<source, version, db, dirs, writer, job, faults, first>>

Idle ==
  [at |-> "idle", snapshot |-> EmptyTables, loaded |-> 0, rows |-> EmptyTables,
   staged |-> [r \in Runs |-> NoDir], published |-> <<>>, reason |-> None,
   before |-> <<>>]

Init ==
  /\ \E v \in SourceVersions, files \in FileSets, i \in DOMAIN SourceHistory :
       source = [version |-> v, files |-> files, db |-> SourceHistory[i], at |-> i, since |-> i]
  /\ first \in Destinations
  /\ version = first.version
  /\ db = first.db
  /\ dirs = first.dirs
  /\ writer = None
  /\ job = [m \in Migrators |-> Idle]
  /\ faults = 0
-----------------------------------------------------------------------------
(* What is compared and copied.                                            *)

\* jsonEqual: the layout of a JSON text does not count.
Meaning(body) == IF body = "a with layout" THEN "a" ELSE body

\* One table of a snapshot is brought into the destination: a row whose natural key is
\* there is reused when it says the same and conflicts otherwise; the rest is inserted under
\* its own id.  ids is how rows of the snapshot are called in the destination.
Ensure(have, rows, Key(_), Says(_)) ==
  LET Twins(row) == {h \in have : Key(h) = Key(row)}
  IN  [ok   |-> \A row \in rows : \A h \in Twins(row) : Says(h) = Says(row),
       rows |-> have \cup {row \in rows : Twins(row) = {}},
       ids  |-> [i \in {row.id : row \in rows} |->
                  LET row == CHOOSE r \in rows : r.id = i
                  IN  IF Twins(row) = {} THEN i ELSE (CHOOSE h \in Twins(row) : TRUE).id]]

EnsureNodeType(have, rows) ==
  Ensure(have, rows, LAMBDA row : row.name, LAMBDA row : Meaning(row.body))

EnsureNodeDefinition(have, rows) ==
  Ensure(have, rows, LAMBDA row : row.name, LAMBDA row : <<row.type, Meaning(row.body)>>)

EnsureNodeExecutor(have, rows) ==
  Ensure(have, rows, LAMBDA row : <<row.def, row.version>>, LAMBDA row : row.body)

EnsureWorkflow(have, rows) ==
  Ensure(have, rows, LAMBDA row : <<row.name, row.version>>, LAMBDA row : Meaning(row.body))

EnsureNodeInstance(have, rows) ==
  Ensure(have, rows, LAMBDA row : <<row.workflow, row.node>>,
         LAMBDA row : <<row.def, row.executor, Meaning(row.body)>>)

EnsureRun(have, rows) ==
  Ensure(have, rows, LAMBDA row : row.id, LAMBDA row : row)

EnsureNodeRun(have, rows) ==
  Ensure(have, rows, LAMBDA row : row.id,
         LAMBDA row : <<row.run, row.node, row.round, row.status, row.refs>>)

\* The ids of a snapshot's rows, replaced by those of the destination.
Renamed(id, ids) == IF id \in DOMAIN ids THEN ids[id] ELSE None

\* applyLegacySnapshot: the tables in the order of their references.
Apply(have, snapshot) ==
  LET types == EnsureNodeType(have.types, snapshot.types)
      defs  == EnsureNodeDefinition(have.defs, snapshot.defs)
      executors == EnsureNodeExecutor(have.executors,
        {[row EXCEPT !.def = Renamed(@, defs.ids)] : row \in snapshot.executors})
      workflows == EnsureWorkflow(have.workflows, snapshot.workflows)
      instances == EnsureNodeInstance(have.instances,
        {[row EXCEPT !.workflow = Renamed(@, workflows.ids), !.def = Renamed(@, defs.ids),
                     !.executor = Renamed(@, executors.ids)] : row \in snapshot.instances})
      runs == EnsureRun(have.runs, {[row EXCEPT !.execution = None] : row \in snapshot.runs})
      nodeRuns == EnsureNodeRun(have.nodeRuns, snapshot.nodeRuns)
      tables == [types |-> types.rows, defs |-> defs.rows, executors |-> executors.rows,
                 workflows |-> workflows.rows, instances |-> instances.rows,
                 runs |-> runs.rows, nodeRuns |-> nodeRuns.rows]
  IN  [ok   |-> /\ \A part \in {types, defs, executors, workflows, instances, runs, nodeRuns} :
                     part.ok
                /\ \A d \in snapshot.defs : \E t \in snapshot.types : t.name = d.type
                /\ ConstraintsHold(tables),
       rows |-> tables]
-----------------------------------------------------------------------------
(* The call of a migrator.                                                 *)

Moves(m, at, next) == job[m].at = at /\ job' = [job EXCEPT ![m] = next]

Ended(m, at, reason) == [Idle EXCEPT !.at = at, !.reason = reason, !.before = job[m].before]

\* The deferred calls: the staging directory is removed, the transaction rolled back.
Fails(m, at, reason) ==
  /\ Moves(m, at, Ended(m, "failed", reason))
  /\ writer' = IF writer = m THEN None ELSE writer
  /\ UNCHANGED <<source, version, db, first>>

MayFault == faults < MaxFaults /\ faults' = faults + 1

\* OpenReadOnly and UserVersion: a store without run history is refused.
OpenSource(m) ==
  /\ IF source.version < 2
       THEN Fails(m, "idle", "no run history")
       ELSE /\ Moves(m, "idle", [Idle EXCEPT !.at = "loading"])
            /\ UNCHANGED <<source, version, db, writer, first>>
  /\ UNCHANGED <<dirs, faults>>

\* Seeded fault: the node runs are read first.
LoadOrderReversed == <<"nodeRuns", "types", "defs", "executors", "workflows", "instances", "runs">>

\* The order of the queries.
LoadOrder == Tables

\* loadLegacySnapshot: one query for a table and no transaction around them.
LoadTable(m) ==
  LET table == LoadOrder[job[m].loaded + 1]
      readable == table = "runs" => "execution_id" \in SchemaOf[source.version]
  IN  /\ job[m].at = "loading"
      /\ IF readable
           THEN /\ Moves(m, "loading",
                     [job[m] EXCEPT !.snapshot[table] = source.db[table], !.loaded = @ + 1,
                        !.at = IF job[m].loaded = 6 THEN "loaded" ELSE "loading"])
                /\ UNCHANGED <<source, version, db, writer, first>>
           ELSE Fails(m, "loading", "unreadable")
      /\ UNCHANGED <<dirs, faults>>

\* Open: the destination is created or migrated.
OpenTarget(m) ==
  /\ writer = None
  /\ Moves(m, "loaded", [job[m] EXCEPT !.at = "opened"])
  /\ version' = Migrated(version)
  /\ UNCHANGED <<source, db, dirs, writer, faults, first>>

\* beginLegacyImport: the write lock, then every row; what conflicts is refused.
Begin(m) ==
  LET import == Apply(db, job[m].snapshot)
      holding == [job[m] EXCEPT !.at = "staging", !.rows = import.rows, !.before = <<db, dirs>>]
  IN  /\ writer = None
      /\ job[m].at = "opened"
      /\ IF import.ok
           THEN /\ Moves(m, "opened", holding)
                /\ writer' = m
                /\ UNCHANGED <<source, version, db, first>>
           ELSE Fails(m, "opened", "conflict")
      /\ UNCHANGED <<dirs, faults>>

\* busy_timeout: five seconds behind another writer.
GiveUpWaiting(m) ==
  /\ writer \notin {None, m}
  /\ \E at \in {"loaded", "opened"} : Fails(m, at, "busy")
  /\ UNCHANGED <<dirs, faults>>
-----------------------------------------------------------------------------
(* Files.                                                                  *)

LegacyName(uri) == uri \in {"1.json", "2.json"}

Execution(m, r) == (CHOOSE run \in job[m].snapshot.runs : run.id = r).execution

\* What the node runs of a snapshot name below the artifact directory of a run.
ArtifactRefs(m, r) ==
  {uri \in UNION {n.refs : n \in {n \in job[m].snapshot.nodeRuns : n.run = r}} : LegacyName(uri)}

ToStage(m) ==
  UNION {{<<r, uri>> : uri \in ArtifactRefs(m, r) \ DOMAIN job[m].staged[r]} : r \in Runs}

With(files, uri, content) ==
  [u \in DOMAIN files \cup {uri} |-> IF u = uri THEN content ELSE files[u]]

\* Node runs of a Run that came into the old store after its Runs were read, and into the
\* destination by another call.
Orphans(m) ==
  {n \in job[m].snapshot.nodeRuns : \A run \in job[m].snapshot.runs : run.id # n.run}

\* stageLegacyArtifacts needs the execution of every Run: an orphan is refused.
StageFails(m) ==
  /\ Orphans(m) # {}
  /\ Fails(m, "staging", "unknown run")
  /\ UNCHANGED <<dirs, faults>>

\* stageFile: a file is copied into the staging directory, or is not there.
StageFile(m) ==
  /\ job[m].at = "staging"
  /\ Orphans(m) = {}
  /\ \E item \in ToStage(m) :
       LET r == item[1]  uri == item[2]  from == source.files[Execution(m, r)]
       IN  IF uri \in DOMAIN from
             THEN /\ Moves(m, "staging", [job[m] EXCEPT !.staged[r] = With(@, uri, from[uri])])
                  /\ UNCHANGED <<source, version, db, writer, first>>
             ELSE Fails(m, "staging", "missing file")
  /\ UNCHANGED <<dirs, faults>>

\* Seeded fault: files of the same name are taken for equal.
EqualNames(staged, there) == DOMAIN staged \subseteq DOMAIN there

\* requireEqualFiles
EqualFiles(staged, there) ==
  \A uri \in DOMAIN staged : uri \in DOMAIN there /\ there[uri] = staged[uri]

\* The first loop of publishLegacyArtifacts: a run directory that exists has to hold the
\* same files.
CheckPublished(m) ==
  /\ job[m].at = "staging"
  /\ Orphans(m) = {} /\ ToStage(m) = {}
  /\ IF \A r \in Runs : dirs[r] # NoDir => EqualFiles(job[m].staged[r], dirs[r])
       THEN /\ Moves(m, "staging", [job[m] EXCEPT !.at = "publishing"])
            /\ UNCHANGED <<source, version, db, writer, first>>
       ELSE Fails(m, "staging", "occupied")
  /\ UNCHANGED <<dirs, faults>>

\* Seeded fault: a directory that exists is published again.
ToPublishAlways(m) == {r \in Runs : job[m].staged[r] # NoDir}

\* The groups that are not there yet.
ToPublish(m) == {r \in Runs : job[m].staged[r] # NoDir /\ dirs[r] = NoDir}

\* The second loop: os.Rename of one run directory; onto one that exists it fails.
PublishRun(m) ==
  /\ job[m].at = "publishing"
  /\ \E r \in ToPublish(m) :
       IF dirs[r] = NoDir
         THEN /\ Moves(m, "publishing", [job[m] EXCEPT !.published = Append(@, r)])
              /\ dirs' = [dirs EXCEPT ![r] = job[m].staged[r]]
         ELSE /\ Moves(m, "publishing",
                       [job[m] EXCEPT !.at = "restoring", !.reason = "occupied"])
              /\ UNCHANGED dirs
  /\ UNCHANGED <<source, version, db, writer, faults, first>>

\* Seeded fault: only a refused commit renames the directories back.
RestoresOnlyCommit == {"committing"}

\* Where a failure is followed by restorePublishedArtifacts.
Restores == {"publishing", "committing"}

\* A rename is refused, or the commit: the published directories go back.
IsRefused(m) ==
  /\ job[m].at = "publishing"
  /\ MayFault
  /\ LET at == IF ToPublish(m) # {} THEN "publishing" ELSE "committing" IN
     IF at \in Restores
       THEN /\ Moves(m, "publishing", [job[m] EXCEPT !.at = "restoring", !.reason = "fault"])
            /\ UNCHANGED <<source, version, db, writer, first>>
       ELSE Fails(m, "publishing", "fault")
  /\ UNCHANGED dirs

Commit(m) ==
  /\ job[m].at = "publishing"
  /\ ToPublish(m) = {}
  /\ Moves(m, "publishing", Ended(m, "done", None))
  /\ db' = job[m].rows
  /\ writer' = None
  /\ UNCHANGED <<source, version, dirs, faults, first>>

\* restorePublishedArtifacts: the last directory first; one that cannot be renamed stays.
Restore(m) ==
  LET done == Len(job[m].published)
      rest == [job[m] EXCEPT !.published = SubSeq(@, 1, done - 1)]
      r == job[m].published[done]
  IN  /\ job[m].at = "restoring"
      /\ done > 0
      /\ \/ /\ dirs' = [dirs EXCEPT ![r] = NoDir]
            /\ job' = [job EXCEPT ![m] = rest]
            /\ UNCHANGED faults
         \/ /\ MayFault
            /\ job' = [job EXCEPT ![m] = [rest EXCEPT !.reason = "left behind"]]
            /\ UNCHANGED dirs
      /\ UNCHANGED <<source, version, db, writer, first>>

Restored(m) ==
  /\ job[m].at = "restoring"
  /\ job[m].published = <<>>
  /\ Fails(m, "restoring", job[m].reason)
  /\ UNCHANGED <<dirs, faults>>
-----------------------------------------------------------------------------
\* The process ends: the transaction is gone, files stay where they are.
Crash(m) ==
  /\ job[m].at \notin {"idle", "done", "failed"}
  /\ MayFault
  /\ job' = [job EXCEPT ![m] = Idle]
  /\ writer' = IF writer = m THEN None ELSE writer
  /\ UNCHANGED <<source, version, db, dirs, first>>

\* MigrateLegacy is called again.
CallAgain(m) ==
  /\ job[m].at \in {"done", "failed"}
  /\ MayFault
  /\ job' = [job EXCEPT ![m] = Idle]
  /\ UNCHANGED <<source, version, db, dirs, writer, first>>

\* The program of the old store commits a transaction.
SourceMoves ==
  /\ source.at < Len(SourceHistory)
  /\ source' = [source EXCEPT !.at = @ + 1, !.db = SourceHistory[source.at + 1]]
  /\ UNCHANGED <<version, db, dirs, writer, job, faults, first>>

Step(m) ==
  \/ OpenSource(m) \/ LoadTable(m) \/ OpenTarget(m) \/ Begin(m) \/ GiveUpWaiting(m)
  \/ StageFails(m) \/ StageFile(m) \/ CheckPublished(m) \/ PublishRun(m) \/ Commit(m)
  \/ Restore(m) \/ Restored(m)

Next ==
  \/ \E m \in Migrators : Step(m) \/ IsRefused(m) \/ Crash(m) \/ CallAgain(m)
  \/ SourceMoves

Spec == Init /\ [][Next]_vars
-----------------------------------------------------------------------------
(* Properties.                                                             *)

\* Rows are published after their files and files by a rename: what a migrated node run
\* names is there, whole and as the old store had it, whatever crashed or failed.
MigratedRowsHaveTheirFiles ==
  \A n \in db.nodeRuns : \A i \in source.since..source.at :
    \A run \in {run \in SourceHistory[i].runs : run.id = n.run} :
      \A uri \in {uri \in n.refs : LegacyName(uri)} :
        /\ uri \in DOMAIN dirs[n.run]
        /\ dirs[n.run][uri] = source.files[run.execution][uri]

\* The seven queries see the old store at different moments.  Parents are read before
\* children, so what came in between is refused as dangling or left for the next call: a
\* migrated Run has the node runs it had when its row was read.
MigratedRunsAreWhole ==
  \A run \in db.runs :
    (\E i \in source.since..source.at : \E r \in SourceHistory[i].runs : r.id = run.id) =>
      \E i \in source.since..source.at :
        /\ run \in {[r EXCEPT !.execution = None] : r \in SourceHistory[i].runs}
        /\ \A n \in SourceHistory[i].nodeRuns :
             n.run = run.id => \E copy \in db.nodeRuns : copy.id = n.id

\* A call that fails after it took the write lock leaves rows and directories as it found
\* them, unless a directory cannot be renamed back.
FailedMigrationLeavesNoTrace ==
  [][\A m \in Migrators :
       /\ job[m].at \in {"staging", "publishing", "restoring"}
       /\ job'[m].at = "failed"
       /\ job'[m].reason # "left behind"
       => <<db', dirs'>> = job[m].before]_vars

\* The old store and the destination, as they were at first, agree.
StoresAgree ==
  /\ Apply(first.db, SourceHistory[source.since]).ok
  /\ \A n \in SourceHistory[source.since].nodeRuns : first.dirs[n.run] = NoDir

\* What a crashed, refused or finished call leaves is never taken for a conflict: as long as
\* nothing is written to the old store, a migration can be repeated until it succeeds.
MigrationIsRepeatable ==
  StoresAgree /\ source.at = source.since =>
    \A m \in Migrators : job[m].reason \notin {"conflict", "occupied"}
=============================================================================
