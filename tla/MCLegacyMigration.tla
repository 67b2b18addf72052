-------------------------- MODULE MCLegacyMigration --------------------------
(***************************************************************************)
(* Small instances of LegacyMigration: an old store with one node          *)
(* definition, one workflow and two Runs, the second of which is recorded  *)
(* while the migration may be under way; destinations that are empty, that *)
(* know the definitions under ids of their own, that disagree about the    *)
(* workflow, or that hold a directory of the same Run.                     *)
(***************************************************************************)
EXTENDS LegacyMigration

CONSTANTS m1, m2

TwoMigrators == {m1, m2}
RunIds == {"r1", "r2"}
OldVersions == {1, 2, 3}

Definitions(tag, body) ==
  [EmptyTables EXCEPT
     !.types = {[id |-> tag \o "t", name |-> "llm", body |-> "a"]},
     !.defs = {[id |-> tag \o "d", name |-> "coder", type |-> "llm", body |-> "a"]},
     !.executors = {[id |-> tag \o "e", def |-> tag \o "d", version |-> "v1", body |-> "a"]},
     !.workflows = {[id |-> tag \o "w", name |-> "ship", version |-> "", body |-> body]},
     !.instances = {[id |-> tag \o "i", workflow |-> tag \o "w", node |-> "code",
                     def |-> tag \o "d", executor |-> tag \o "e", body |-> "a"]}]

Run(r, status) == [id |-> r, status |-> status, execution |-> "x" \o r]
NodeRun(id, r, round, refs) ==
  [id |-> id, run |-> r, node |-> "code", round |-> round, status |-> "succeeded", refs |-> refs]

OldStore ==
  [Definitions("old-", "a") EXCEPT
     !.runs = {Run("r1", "running")},
     !.nodeRuns = {NodeRun("n1", "r1", 1, {"1.json", "notes/a.md"})}]

OldStoreLater ==
  [OldStore EXCEPT
     !.runs = {Run("r1", "succeeded"), Run("r2", "succeeded")},
     !.nodeRuns = @ \cup {NodeRun("n2", "r1", 2, {"2.json"}), NodeRun("n3", "r2", 1, {"1.json"})}]

\* At first it has definitions and no Run yet.
OldStores == <<[OldStore EXCEPT !.runs = {}, !.nodeRuns = {}], OldStore, OldStoreLater>>

\* All the files, or all but one.
OldFileSets ==
  { [x \in {"xr1", "xr2"} |->
       IF x = "xr1" THEN [u \in {"1.json", "2.json"} |-> "of r1"] ELSE [u \in there |-> "of r2"]] :
    there \in {{}, {"1.json"}} }

Empty == [r \in RunIds |-> NoDir]
NewRoots ==
  { [version |-> 0, db |-> EmptyTables, dirs |-> Empty],
    [version |-> 11, db |-> Definitions("new-", "a with layout"), dirs |-> Empty],
    [version |-> 11, db |-> Definitions("new-", "b"), dirs |-> Empty],
    [version |-> 4, db |-> EmptyTables,
     dirs |-> [Empty EXCEPT !["r1"] = [u \in {"1.json"} |-> "of another run"]]] }
=============================================================================
