---------------------------- MODULE HistorySchema ----------------------------
(***************************************************************************)
(* The SQLite schema of the history store                                  *)
(* (internal/history/migrations.go): what each migration adds and drops,   *)
(* and the constraints a transaction has to meet.  A table is a set of     *)
(* rows, a row a record; columns that only carry data are one field, body. *)
(***************************************************************************)
EXTENDS Naturals, Sequences, FiniteSets

\* A row or a run names nothing.
None == "none"

\* A key lookup, and the constraints UNIQUE and REFERENCES.
Unique(rows, Key(_)) == \A a, b \in rows : Key(a) = Key(b) => a = b

EmptyTables ==
  [types |-> {}, defs |-> {}, executors |-> {}, workflows |-> {}, instances |-> {},
   runs |-> {}, nodeRuns |-> {}]

\* Versions 1 to 4: the tables of the workflow runtime; version 3 drops a column.
CoreMigrations ==
  << [adds |-> {"node_type_definition", "node_definition", "node_executor", "workflow",
                "node_instance"}, drops |-> {}],
     [adds |-> {"workflow_run_history", "execution_id", "workflow_node_run_history"},
      drops |-> {}],
     [adds |-> {}, drops |-> {"execution_id"}],
     [adds |-> {"diagnostics_json"}, drops |-> {}] >>

\* Versions 5 to 11: the tables of the product application.
ProductMigrations ==
  << [adds |-> {"product_workflow"}, drops |-> {}],
     [adds |-> {"product_workflow_draft"}, drops |-> {}],
     [adds |-> {"product_llm_provider", "product_llm_model"}, drops |-> {}],
     [adds |-> {"product_workflow_revision", "product_workflow_run",
                "product_workflow_node_run", "product_workflow_artifact"}, drops |-> {}],
     [adds |-> {"product_node_run.diagnostics_json"}, drops |-> {}],
     [adds |-> {"instructions_dialect"}, drops |-> {}],
     [adds |-> {"error_json"}, drops |-> {}] >>

Migrations == CoreMigrations \o ProductMigrations

LatestUserVersion == Len(Migrations)

\* The tables and columns of a database of a version.
SchemaOf[v \in 0..LatestUserVersion] ==
  IF v = 0 THEN {} ELSE (SchemaOf[v - 1] \cup Migrations[v].adds) \ Migrations[v].drops

\* migrate: every missing migration, in one transaction; a database written by a later
\* program is left as it is.
Migrated(version) == IF version < LatestUserVersion THEN LatestUserVersion ELSE version
-----------------------------------------------------------------------------
\* The constraints of version 1.
DefinitionTablesHold(db) ==
  /\ \A table \in {db.types, db.defs, db.executors, db.workflows, db.instances} :
       Unique(table, LAMBDA row : row.id)
  /\ Unique(db.types, LAMBDA row : row.name)
  /\ Unique(db.defs, LAMBDA row : row.name)
  /\ Unique(db.executors, LAMBDA row : <<row.def, row.version>>)
  /\ Unique(db.workflows, LAMBDA row : <<row.name, row.version>>)
  /\ Unique(db.instances, LAMBDA row : <<row.workflow, row.node>>)
  /\ \A d \in db.defs : \E t \in db.types : t.name = d.type
  /\ \A e \in db.executors : \E d \in db.defs : d.id = e.def
  /\ \A i \in db.instances :
       /\ \E w \in db.workflows : w.id = i.workflow
       /\ \E d \in db.defs : d.id = i.def
       /\ \E e \in db.executors : e.id = i.executor

\* The constraints of version 2.
RunTablesHold(db) ==
  /\ Unique(db.runs, LAMBDA row : row.id)
  /\ Unique(db.nodeRuns, LAMBDA row : row.id)
  /\ Unique(db.nodeRuns, LAMBDA row : <<row.run, row.node, row.round>>)
  /\ \A n \in db.nodeRuns : \E r \in db.runs : r.id = n.run

ConstraintsHold(db) == DefinitionTablesHold(db) /\ RunTablesHold(db)
=============================================================================
