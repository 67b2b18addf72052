# A formal model of gum-workflows

TLA+ specifications of the stateful parts of gum-workflows, TLC configurations that
model-check them on small instances, and theorems that the TLA+ proof system proves for every
value of the constants. Paths are relative to the repository; `PROJECT.json` names, for each
definition, the source lines it models.

Contents: 1. the system · 2. the modules · 3. what each run checks · 4. bounds · 5. fairness ·
6. what is proved · 7. where code and documents differ · 8. what is not modelled · 9. the plan

## 1. The system

The repository holds two programs that share a data root.

**The workflow runtime** (`cmd/workflow`, `internal/execution` and what it uses) loads a YAML
workflow, validates it against node definitions, and executes it: an *engine* runs the nodes of
a graph that may have cycles, again and again, as their inputs change; humans answer prompts on
stdin; the result goes to a state directory and, imported, to a SQLite history.

**The product application** (`cmd/gum-desktop`, `internal/product`) is a desktop window over
*Product Workflows*: a draft that is saved as one types, an immutable *Revision* of it for each
Run, and a Run that hands one human turn to one LLM agent. Rows live in the same SQLite
database, conversations in an artifact directory, API keys in the macOS Keychain.

| Component | State it keeps | Operations | Talks to | What is hard about it |
|---|---|---|---|---|
| Execution engine `internal/execution/engine.go`, `state.go`, `human.go` | per node: its rounds, consumed versions, dirty flag, retry advice; the ready list; counters of goroutines and prompts; stopping / error | schedule, start a round, take a result, ask for retry advice, stop | one goroutine per round and per prompt over a results channel; the human gateway; node executors | results in any order; a node changes while it is queued or running; cancellation with prompts open; cycles that must converge |
| State persistence `persist.go` | files of one execution, for people to read | write state | the engine | nothing reads them back |
| CLI history `internal/history/record.go, import.go, query.go, store.go` | SQLite rows: definitions, the workflow, executions | import, pin, record, query | the `run` and `history` commands | programs of different age on one database; a record that fails; two queries of one view |
| Migrations `migrations.go`, `legacy_migration.go` | schema version; files published before the commit | migrate, publish, restore | opening of the store | crash between publication and commit; an old store that is still written to |
| Product run service `internal/product/start_run.go`, `internal/history/product_workflow.go` | draft row with its lock version, revisions, runs, node runs, artifact rows and files | autosave, start, progress, finish, interrupt at startup | window, agent, store, artifact directory | calls of one process interleave between transactions; a second process; crash at any step |
| Product history readers `product_history.go`, `run_history.go` | nothing | list, open one Run | store | several queries, no transaction |
| LLM Providers `llm_settings.go`, `product_llm_settings.go`, `internal/secret` | provider rows; one Keychain item per provider | create, update, delete, defaults | store and Keychain | two stores and no common transaction; compensation |
| Desktop shell `cmd/gum-desktop/frontend/dist/product-shell.js` | current draft, save timer and queue, selection sequence | edit, save, select, start | application through promises | answers that arrive after the user moved on |
| Human gateway `cmd/workflow/human_gateway.go` | one buffered stdin | prompt, approve, advise | engine | prompts of several nodes, abandoned readers |
| Script nodes `internal/node/scriptnode` | a process group, its pipes and logs, their budget | execute | engine | two writers, one budget; cancellation of a process that forks and exits; evidence that contradicts itself |
| Definitions and validation `internal/definition`, `internal/validation`, `internal/workflow` | none | read types, validate a workflow, find a cycle | `validate` and `run` | containment of nested types; a depth-first search |
| Drafts `internal/product/application.go` | none beside the draft row | project a Preview | window | edges of incomplete drafts; groups of mutually dependent nodes |
| Registry, artifacts, LLM configuration, chat client, redaction, run log, diagnostics | none, or local to a call | look up, put, stream | engine, application | boundaries of pure functions |

What makes each of the modelled components correct:

* *Engine*: no round is lost or run twice; the run returns exactly when nothing is under way;
  an approval opens its gate, a rejection is reworked; a cycle stops at its limit; a settled
  graph has consumed everything new and does nothing for no reason.
* *Product runs*: a lock version names one content; a Run executes exactly its Revision; a Run
  closes once, shows no agent at work when closed, and no artifact that was not written;
  whatever a crash leaves open is closed later.
* *LLM Providers*: rows and keys name the same Providers; an active Provider has its key; a
  refused call leaves what it found.
* *Desktop shell*: what is edited and run is what the user selected and sees; a save neither
  conflicts with the window's own saves nor overwrites a text the user has not seen.
* *CLI history and migration*: the stored workflow is that of one import, a recorded execution
  is complete, a finished Run is shown as it ended; a migrated row has its files, a failed
  migration leaves nothing and can be repeated.
* *Script nodes and gateway*: a stored verdict is of a whole run and is what its evidence
  calls for; a kill ends the run; a person is answered as meant.
* *Validation and Preview*: a binding that is accepted fits every value; a cycle that is
  reported is one; the groups of a Preview are exactly its cycles.

## 2. The modules

| Module | Models | Composed with |
|---|---|---|
| `Engine` | `Engine.Run`: the coordinator loop, rounds, prompts, cancellation | refines `RunLedger` |
| `RunLedger` | abstract: what a run promises to readers of its record | |
| `ProductRun` | drafts, revisions, runs, restarts, StartRun step by step | refines `RunArchive` |
| `RunArchive` | abstract: what the history promises about a Product Run | |
| `RunHistoryView` | GetProductRun beside the writers | extends `ProductRun` |
| `ProviderKeys` | create, update, delete of an LLM Provider over two stores | |
| `ProductShell` | the window: selecting, typing, structured edits, the save queue, Run, beside the application reduced to its Draft rows | |
| `HistorySchema` | tables, schema versions and constraints of the history database | |
| `LegacyMigration` | MigrateLegacy: snapshot, staging, publication, commit, withdrawal, rerun | extends `HistorySchema` |
| `WorkflowHistory` | `workflow run` and `workflow history` over the store: import, pin, record, query | extends `HistorySchema`, refines `RunRecord` |
| `RunRecord` | abstract: what the history promises about a workflow Run | |
| `QualityChecks` | what the adapters of the four Go checks conclude from exit code and evidence | |
| `ScriptNode` | one Execute: process group, pipes, log budget, cancellation, the stored verdict | extends `QualityChecks` |
| `HumanGateway` | requests to one terminal, their readers and their cancellation | |
| `PortTypes` | types of ports: reading, compatibility, what an executor may return | |
| `Reachability` | reference: what the edges of a graph lead to, and its cycles | |
| `CycleSearch` | `Graph.Cycle`: the depth-first search of a graph | extends `Reachability` |
| `WorkflowCheck` | loading of definitions, semantic validation, which ends with the search | extends `PortTypes`, `CycleSearch` |
| `DraftPreview` | edges and cycle groups of a Product Workflow's Preview | extends `Reachability` |
| `MCEngine` | constants of the small workflows, and `CountedSpec`: `Engine` with a count of the rounds begun since a human last answered, which the program does not keep | `Engine` |
| `MCProductRun`, `MCRunHistory`, `MCProviderKeys`, `MCProductShell`, `MCLegacyMigration`, `MCWorkflowHistory` | constants of the small instances | |
| `MCNodeExecutors`, `MCWorkflowCheck` | the same, of two components that share no state: a behavior takes the steps of one of them | `ScriptNode`, `HumanGateway`; `WorkflowCheck`, `DraftPreview` |
| `EngineProofs`, `CycleProofs`, `ProductRunProofs`, `ProviderKeysProofs`, `ProductShellProofs`, `NodeExecutorsProofs`, `LegacyMigrationProofs`, `WorkflowHistoryProofs` | theorems and their lemmas | extend the module they are about; `CycleProofs` is about `CycleSearch` and `DraftPreview`, `ProductRunProofs` is about `RunHistoryView` too, `NodeExecutorsProofs` about `ScriptNode` and `HumanGateway` |

Operators called "Seeded fault" in their comment are not part of any specification: each is a
plausible bug of the definition it precedes, kept to show that a property notices it.

### Engine

The coordinator goroutine owns every variable, so one action is one stretch of its loop up to
the next point where another goroutine or the human could matter. `pc` is where it stands:
`top` (check of the context, engine.go:170), `dispatch` (starting rounds, :187–249), `decide`
(:251–278), `idle` (`waitHuman`), `select` (the results channel or the context), `done`.

| In the code | In the model |
|---|---|
| `nodeState.History` + `Current` | `runs[n]`, a sequence of rounds |
| `queue`, `queued` | the set `queued`; nodes are started in the order of `Rank` |
| `inflight`, `pendingAdvise` | the counters of the same names; `task`, `advising` are the goroutines they count |
| `consumedControl`, `consumedInputs`, `dirty`, `machineRuns` | the same names |
| a port and its value | the node it is bound to and the version of that node's output; 0 is "not produced" |
| `adviseRetry` | the failed round whose advice is injected |
| goroutines and the results channel | a goroutine's outcome is chosen when it is received: nothing else depends on it earlier, and goroutines send in any order |
| context cancellation | an action that may happen whenever the run is live |

`TypeOK` and `Entry` describe a round as a record: status, error kind, the versions it
consumed, its output, its decision. Names, values, prompts and log lines are left out.

### ProductRun, RunArchive and RunHistoryView

One Product Workflow; rows of others never meet (every statement is keyed by the workflow).
A transaction is one step: the store opens SQLite with one connection per process and
`BEGIN IMMEDIATE`. Everything between transactions interleaves, as every desktop call is a
goroutine of its own, and a second process may open the same data root. `calls[r].at` is where
the StartRun call that drew run id `r` stands: read, resolved, begun, sourced, calling, ending,
over. `page[p]` is the draft the window of process `p` was last given; its version is the token
an autosave or a StartRun presents. `up` holds the running processes: `Exit` is an orderly exit
and a crash alike, `OpenWorkspace` interrupts leftovers in its own transaction.

A text is abstracted to its *meaning*, what `RevisionContent` keeps of it when it drops the
layout: two texts of one meaning have one Revision. A Run's status, its two node runs, its
artifact rows and the files in its directory are separate state, as they are in the code.
Cancellation of a call is one of its nondeterministic failures. Calls refused before they
change anything (a wrong token in GetDraft, diagnostics in StartRun) are left out.

`RunHistoryView` adds one reader whose three queries each see the rows of their moment.

### ProviderKeys

`providers[p]` is the row (absent, active or deleted, and its connection), `keychain[p]` the
key under its reference: the reference is a function of the provider id
(`keychain://…/<id>`), so the Keychain is a function of providers. A call holds what Go's
stack holds: the key it was given, the key it may have to put back (`previous`), and, for the
properties only, what it `found`. Every SQLite statement and every Keychain access is one step;
each may be refused. `Confirm` is the read-back that ends a create and an update;
`ConfirmIsLost` is the read-back failing after the row was written, which the code takes for a
failed write. `overlapped` and `faulty` record which Providers met two calls at once, and which
a crash, a lost read-back or a failing undo; they guard nothing.

### ProductShell

Handlers of product-shell.js are cut where they await something that needs an answer. What
needs none (a resolved promise) goes on before the next event: user events and answers wait for
`Quiet`. `draft`, `selected`, `selection`, `edit`, `refresh` are the shell's variables
(`currentDraft`, `activeWorkflowId`, `selectionSequence`, `editSequence`, `refreshRequired`);
`view`, `pending`, `timer` those of the draft editor. `saveQueue` is a chain of promises: here
the edits still waiting (`queue`), the call in flight (`saves`), and a count of how many were
queued, against which a handler that awaits the queue holds a *ticket*. A selection starts a
new chain; edits of the old one are skipped when its last call is answered, which is when a
ticket of it is settled. A call is answered in two steps, when the application reads or writes
the row and when the shell is given the answer, so that answers overtake each other.

A content is the workflow it was written for, the typed text, a count of structured edits and
whether a Run filled in the agent's model: what equality of contents can tell apart here.
`seen`, `foreign`, `token`, `ran` and `stray` record, for the properties only, which version was
behind the text when it was typed, which version another window wrote last (none once a save with the
token of another workflow's draft has gone over it), whose draft gave a save its lock version,
whether a Run was answered since the selection, and whether a save went out after the answer of
an earlier selection's Run. One Run and one
structured edit are under way at a time.

### HistorySchema, WorkflowHistory, RunRecord and LegacyMigration

A table is a set of rows, a row a record of its key, the rows it refers to, and one `body` for
the columns that only carry data. `Migrations` lists what each schema version adds and drops.
A transaction is one step unless the code does something else while it is open.

In `WorkflowHistory` each process runs one workflow file: `job[p].at` is where `runWorkflow`
stands, `job[p].rows` the rows of the nodes it has pinned so far, `job[p].record` whether the rows of a
change are still to be written, and `exec[p]` the execution that its engine changes. The Run fails
with a round, with a prompt for advice that failed (`AdviceAnswered`), or because an input has no
source left (`FinishRun`). Ids of node runs are made when a row is first written and stay in memory
although the transaction may fail. The state files that follow a record are left out. A process that dies takes
no further step. `view` is the `history` command between its queries.

`RunRecord` is what a reader may rely on from one look at a Run to the next, without knowing the
engine: one action, `Write`, that lists the Run with all its nodes from the first, takes nothing
back, lets a round go on in its course and under its id, begins a round only when the one before it
has ended, and is not taken any more once the Run is finished. `Found(p)` maps the rows to it;
all other steps, `RecordFails` among them, change nothing a reader can find.

In `LegacyMigration` the old store is a sequence of its states (`SourceHistory`), which its
program steps through while the migration reads it table by table. `job[m].at` is where a call
stands: reading, staging files, publishing them by rename, committing, renaming back.
`source.since` is the state in which it was when the behavior began (any may be), `source.at` the
one it has reached. An *orphan* is a node run that was read although its Run was not. The
write lock of SQLite (`writer`) is held from staging on. Files are named by Run and name, their
contents are those of the old store or not. Crashes and refused commits and renames are
bounded by `MaxFaults`.

### QualityChecks, ScriptNode and HumanGateway

`QualityChecks` maps an exit code and a record of *evidence* (what the files of the script say:
packages, events, diagnostics, numbers, whether a file parses) to a result or to `Broken`, as
the adapter of each check does with the JSON. Of a package, the sequence of its terminal events
counts: a success is what its last event says, a failure any of them.

`ScriptNode` follows one Execute. The script and what it forks are the environment: they write
to either pipe, spoil files, exit, or are killed. `pipe`, `logged` and `lost` count units of
output; a copier writes what it read under the lock of the budget and calls `onLimit` after
the unlock, so `copier[s]` has a state between. `shell` is dead before it is reaped, and the
goroutine of `exec.CommandContext` may fire in between; `Wait` returns when both copiers have
ended. What Execute checks then happens in the order of the code, and the verdict is stored
only at its end.

`HumanGateway` has the goroutine of each request read line by line. A request whose context is
done returns and leaves its reader where it was; the next line may go to any reader that
waits. The write of a prompt may fail before anything is read. Lines of spaces are told apart from
blank ones, as a requirement ends with a blank line and the answers are trimmed. `said[r]` is what a person typed to answer `r`, `shared` that two readers waited
at the same time: what the bufio.Reader does then is undefined, and properties except it.

### PortTypes, CycleSearch, WorkflowCheck and DraftPreview

The text of a type is a sequence of tokens; `Parse` reads it as the recursive descent of
typeexpr.go does, and `Covers` is `contains`. `ValuesOf` is the reference definition: the
values a type stands for. `WorkflowCheck` loads definitions, collects every error and warning
as semantic.go does (each as a tuple of its kind, node and field), then takes the steps of
`CycleSearch`, which walks a graph with the three colours of graph.go, one visit or return a
step. It is a module of its own, over any graph, because a theorem cannot be stated in a module that
reaches the recursive operators of `PortTypes`. `DraftPreview` draws the
edges of a Draft and walks it with the indexes and the stack of `cycleGroups`. The reference
of both is `Reachability`: a node is reached from another when every set of nodes that
holds the successors of that one, and that no edge leaves, holds it.

## 3. What each run checks

Run `tlc -config <run>.cfg <module>`.

| Run | Module | Instance | Shows |
|---|---|---|---|
| `EngineReview` | `MCEngine` | api → accept → ship, an approval whose advice docs takes too, beside that loop; two at a time | `OnlyApprovalOpensGate`; `OverrulesOnlyNodesAtWork`; `CancelEndsRun`; `ImplementsRunLedger` |
| `EngineLoop` | `MCEngine` | machine cycle code ↔ test beside lint, two at a time, omitted outputs, advise retries | `SettledMeansFresh`; `NoSpuriousRound`; `MachineStopsInTime`; `AdviceIsUsed`; `RunSettles` |
| `ProductRuns` | `MCProductRun` | two StartRun calls of one process, autosaves, deleted models, crashes | `TokenNamesContent`; `RunMatchesItsRevision`; `ArtifactsAreOnDisk` |
| `RunHistory` | `MCRunHistory` | two processes and a reader | `ClosedViewIsComplete`; `ImplementsRunArchive`; `RunsAreClosed` |
| `ProviderKeys` | `MCProviderKeys` | two calls at once on one Provider | `KeysFollowProviders`; `ActiveProvidersHaveTheirKey`; `FailedCallChangesNothing` |
| `ProductShell` | `MCProductShell` | one window, two Workflows, another window that writes | `CurrentIsSelected`; `TokensGoForward`; `OldPageNeverOverwrites`; `RunNeverOvertakesText`; `NewerTextIsKept`; `PressedRunGoesOn` |
| `LegacyMigration` | `MCLegacyMigration` | two migrations of a store that is written to (three states), into four kinds of data root | `MigratedRowsHaveTheirFiles`; `MigratedRunsAreWhole`; `MigrationIsRepeatable`; `FailedMigrationLeavesNoTrace` |
| `WorkflowHistory` | `MCWorkflowHistory` | an old and a new program with two files of one workflow, and a reader | `StoredWorkflowIsOneImport`; `RecordIsExecution`; `FinishedViewIsFinal`; `ImplementsRunRecord` |
| `NodeExecutors` | `MCNodeExecutors` | a script with any evidence of the four checks; two requests to a terminal | `StoredRunIsWhole`; `VerdictIsEarned`; `KillEndsRun`; `LonePromptsAreAnsweredAsMeant`; `CanceledRequestReturns` |
| `WorkflowCheck` | `MCWorkflowCheck` | pairs of types, spoiled fields, all graphs over an entry and three nodes; Drafts over three | `BindingsFit`; `ReportedCycleIsReal`; `GroupsAreCycles` |
| `ProviderKeyLeft`, `ShellDraftsMix` | | a documented statement each | violated: section 7 |

`OverrulesOnlyNodesAtWork` is the part of the lost rejection (item 3 of section 7) that the code does
prevent: in `EngineReview` docs may be at work, or wait for a slot, when the approval comes, and the
property fails if either case is struck from it. `MachineStopsInTime` compares the guard with
a count of its own, so that a counter that is reset for too few nodes, or too many, shows.
Type invariants, `InflightIsBounded`, `AdvisePromptsAreCounted`, `QueuedIsStartable`,
`ConvergenceIsGuarded` and `RejectionIsReworked` (under its conditions) are not listed with a passing
run: they are proved (section 6). `WorkflowSearch`, another configuration of
`MCWorkflowCheck`, passes: `WorkflowCheck` moves the variables of the search only as `CycleSearch` does.
Eight more configurations lie beside the runs,
`EngineRejectionLost`, `EngineAdviceLost`, `EngineCancelWaiting`, `EngineInputWithdrawn`,
`ShellRunScreen`, `ShellLateRun`, `MachineCycleUnwarned` and `ScriptOrphan`. TLC finds the one property of each
violated; section 7 says what that means.

Each property of a passing run has a mutant in `PROJECT.json`: a change of a modelled
definition after which TLC finds the property violated under the same configuration.
Deadlock is checked except where a behavior really ends: in `ProviderKeys`, whose author may
have used up the bounded ids; in `ProductShell`, whose user stops after `MaxActs` acts; and in
the four runs of commands and calls that return.

## 4. Bounds

* *Engine*: four nodes are the smallest graphs with an approval, its reworked node and a gated
  one, and with a cycle beside a parallel worker; a rejection that meets a node at work, and one that meets
  a full house, takes a fifth, and five answers. `ConvergenceLimit` 2 lets the guard both
  spare and trip. `MaxHumanEvents` 3 to 5 counts answers, hence how often counters are reset
  and inputs change; five are needed for the lost rejection, so the passing runs see every
  shorter mix. Without this bound, versions grow for ever.
* *Product runs*: two runs, two models and versions up to 3 (a draft that changed twice under
  the same window) with one process; one run, two processes with the reader. Of the three
  texts, two have one meaning and one cannot run.
* *ProviderKeys*: Providers do not interact, so one; two calls overlap, and a third adds
  nothing to what can stand between a call's steps and its undo (three calls with one key and
  one connection pass too). Two keys and two connections tell old from new. A Provider id is
  created once unless its creation was undone, as ids are fresh UUIDs.
* *ProductShell*: five clicks, keys or foreign writes, in any order and at any moment, with two
  workflows, one text that parses and one that does not. The longest failure met, a queued edit
  that takes the draft of another workflow, takes five; every seeded fault shows within five. Six were
  needed for `ShellLateRun`, which the proof attempt found and not the run; what the run's action
  properties say is proved for any number.
* *LegacyMigration*: three states of the old store, before the first Run, with one, and with
  that continued and a second one recorded, so that Runs and node runs come between any two
  of the seven queries; source versions before, at and after the column it needs; a data root that is
  empty, has the definitions under other ids, has them with other contents, or has a directory
  in the way. Two faults are a failing step and a failing undo.
* *WorkflowHistory*: two programs suffice for one row written by turns; two rounds of a node for
  a history besides a current round, and for a refused transaction between their ends and beginnings.
* *NodeExecutors*: a budget of three units against two units a stream makes each order of
  straddling the limit possible; per check, evidence that passes, fails, has no
  subject, contradicts itself, or does not parse. Two requests to a terminal, with
  the kinds and words that the dialogs tell apart.
* *WorkflowCheck*: a dozen types nest union and list in both orders; two elements a list tell
  a list of unions from a union of lists; three nodes beside the entry hold two cycles that
  share a node, which is where a search may go wrong.

## 5. Fairness

* *Engine*: `WF(Coordinate)`, as the coordinator is a goroutine that runs whenever it is not
  blocked in `select`; `SF(RoundReturns(n))`, as a goroutine that ended its work sends and
  the coordinator, which picks ready cases at random, receives it in the end although
  cancellation is ready again and again. Executors are taken to return. Nothing obliges the
  human to answer: `RunSettles` and `CancelEndsRun` hold without.
* *Product runs*: `RunsAreClosed` assumes that the application is closed one day and opened
  again, and that the interruption at startup does not fail for ever. Nothing is assumed of a
  StartRun call: it may hang in the agent or fail to finish.
* *ProductShell*: the browser runs what is ready and the application answers a save, which
  is one local SQLite transaction. Nothing is assumed of loads, of the user, or of a Run once
  it went out: the agent may take for ever.
* *NodeExecutors*: `ScriptFairness` says that the program, its copiers and the watcher go on and
  that a process which was killed dies; a script that nobody kills may run for ever.
  `GatewayFairness` says that readers take a line that is there and a request returns when it
  can; nobody is obliged to type.
* *ProviderKeys*, *LegacyMigration*, *WorkflowHistory* have no liveness property: nothing retries
  what a crash left.

## 6. What is proved

TLAPS proves these for every value of the constants that satisfies the named assumptions
(`NodesAssumption`, `BindingAssumption`, `LimitAssumption`; `ContentAssumption`,
`BoundAssumption`; `KeysAssumption`; `ShellAssumption`; `ScriptAssumption`,
`EvidenceAssumption`, `ChecksAssumption`, `GatewayAssumption`; `MigrationAssumption`, `SourceAssumption`, `DestinationAssumption`; `HistoryAssumption`; `DraftsAssumption`). Each
invariant follows from an inductive one. Theorems of one name in two modules are about the
component of their module.

* **EngineProofs.** *Counters and records.* `IInv` joins the counters to what they count: `TaskHasRound` (a node with
  a goroutine has an open round), `AdviceIsAboutAnOldRound` (a prompt is about a round that
  exists, and while that is the newest nothing runs on the node), `DispatchIsLive`. Without
  the second, an advise answer could reopen a node that is running and `QueuedIsStartable` is
  not inductive. Theorems: `TypeCorrect`, `InflightCorrect`, `AdviseCorrect`, `QueueCorrect`,
  and `Refinement`: every step of the scheduler is a step of `RunLedger` or a stutter, under
  the mapping `Entry` from rounds to ledger entries.
  *Through every order of results.* `GateInv` says that what is queued or has run found the gates of its
  approvals open and that a gate once open stays open: later rounds of the approval may reject,
  the newest approving one remains. A step keeps the control rounds a round took and the outcome
  of a round that succeeded (`Kept`). Theorem: `GateCorrect`. `GuardInv` says that a node
  past the limit has failed structurally, in a run that is failing, and has no goroutine: no
  result and no late advice can take it up again. Theorem: `ConvergenceCorrect`, about the program's own counters; that they count rounds
  since the last answer is `MachineStopsInTime` of `EngineLoop`.
  The third part is about versions. A step in which no round succeeds leaves every answer to a consumer as
  it was (`Same`, `SameMeansSameAnswers`); one that succeeds gives its node a version nobody has
  consumed, or none, and never takes back a control round (`SuccessAnswers`). Hence `TakenInv`:
  what a node consumed is what its current round took, as far as the sources still offer it.
  `QueueInv`: past the top of the loop every ready node is queued, until a result is received, and the
  loop is left only with an empty list or a full house. Theorem: `FreshCorrect`, that a run idles only
  when nothing is left to do.
  The fourth part is about what starts a round. What a source has offered stays offered unless a
  later round leaves it out (`Offered`, `SourcesInv`), so the reason for which a node was queued
  is still one when it starts, or has been withdrawn while it waited (`HasReason`, `Justified`).
  `ReasonInv` says so of every queued node and of every round there is. Theorems:
  `NoRoundForNothing`, and `RequiredInputsCorrect`: a round lacks a required input only if its
  source had made it and left it out of a later round. The withdrawn input was found by the
  attempt to prove `NoSpuriousRound` as it was, without that case; item 6 of section 7 is its
  documented side.
  The fifth part is about advice. `LiveInv` says that a node at rest can be started again as long as
  the run lives, and that advice is for agents that ran. Together with `FreshInv` and `ReasonInv`:
  in an idle run an agent that holds advice would be ready. Theorem: `AdviceCorrect`, for
  workflows that are `AdviceIsSafe`: an agent takes no advise input from an approval and no
  required input that may be left out. Both halves are needed. Item 4 of section 7
  is a run without the first; without the second, an agent whose required input was left out after
  it had failed waits with its advice until there is a new one (make `lint` an agent too in
  `EngineLoop` and TLC shows it).
  The last part is about rejections. Item 3 of section 7 shows one that is lost: it arrives while a
  node that takes it is at work, and is overtaken by an approval. `OverruledAtWork` says that this is
  the only way: a rejection that stands is a new version of an input whose approval has not passed,
  so a node at rest that could take it is ready, and by `QueueInv` in the list. `ReworkInv` says what holds
  when that cannot happen: a node that has not seen a rejection is at rest, and in the list before
  the approval can be asked again, because until the approval passes it is ready (`PendingIsReady`,
  from `OfferedOrTakenBack`, `LiveInv` and `ReasonInv`). Theorem: `ReworkCorrect`, for workflows
  where `ReworkIsPossible` and behaviours where every approval is `AskedAlone`. Two kinds of
  workflow run like that. `ReworkByDefault`: any of them with one round at a time, the
  engine's default (engine.go:105). `ReworkInLoops`, at any parallelism, and so for the four of the
  workflow command: a `ReviewLoop`, where the approval follows the one node that takes it and that
  node waits for at most one human input besides. There `TakeTurns` is invariant: of the node,
  its approval and the human input only one is called, queued, at work or waiting for advice. TLC
  checked `ReworkInv` and `TakeTurns` on the graph of `EngineCancelWaiting` with two and three rounds
  at a time, without its required inputs too. `backend` of `examples/fullstack` would be in such a loop
  but for its machine-made inputs, and `frontend`, which takes a review that does not follow it,
  is in none.
* **ProductRunProofs.** `IInv` adds to the properties: a call past its begin has a row and
  evidence that matches where it stands (`CallsHaveRows`, `EvidenceFollowsCalls`,
  `EndingsFit`), and no holder has a version newer than the draft's (`VersionsAreOld`), which
  is why a fresh version cannot collide. Theorems: `TypeCorrect`, `TokensCorrect`,
  `RevisionsCorrect`, `ClosedCorrect`, `ArtifactsCorrect`, and `Refinement` to `RunArchive`.
  The reader: `VInv` says that the archive's successes are whole
  (`SuccessIsWhole`) and that what has been read of a Run since its row was found closed is
  what is stored (`ClosedViewIsCurrent`). Neither looks at the code of a writer: both follow
  from `Refinement`, because a closed Run of `RunArchive` never changes (`ClosedForGood`).
  Theorems: `WritersUnaware` (a reader takes no step of theirs) and `ClosedViewCorrect`.
* **ProviderKeysProofs.** `ProviderInv(p)` says that the id of a creation is nobody else's
  until its row exists (`CreationIsAlone`), that a creation being undone has no active row
  (`UndoneCreationIsGone`), that an active Provider without a key is being deleted by a call
  that holds the key (`MissingKeyIsHeld`), and what the only call on an undisturbed Provider
  has done so far, relative to what it found (`OneAtATime`, `Progress`). A step touches one
  Provider (`UntouchedInv` covers the others), so each action is proved for that one. Theorems:
  `TypeCorrect`, `StoresAgree`, `ActiveKeysArePresent` (which holds for any number of
  overlapping calls) and `FailuresChangeNothing`.
* **ProductShellProofs.** `IInv` says three things besides the types. `DraftsAreReal`: whatever
  is stored, queued, sent or answered parses, names a workflow and, when it is an answer, is
  for the workflow that was asked about. `SelectionIsKept`: a load, a save or a Run of the
  current selection is of the workflow it selected. `TokensInOrder`: no answer is
  newer than its row, one save of the current selection at most is under way and, until a
  Run is answered, no load is left once there is a draft and no answer is older than the
  draft. The last is what the save queue is for. Theorems: `TypeCorrect`,
  `SelectionCorrect`, `TokensCorrect`.
  Three action properties have an invariant each, which TLC checked before. `RunWaitsForTexts`: as
  long as nothing is done after a Run was pressed, every text, queued or under way, lies before
  the place in the queue for which it waits (`RunsComeAfterTexts`). `EditsInOrder`: revisions grow from
  the save under way over the queue to the pending text, and the shell's count of edits has reached
  the last (`NewerTextStays`). It needs that all of these are of the draft in hand (`DraftInHand`).
  `OneSide`: the draft, the text on screen and all that was typed over it, the save and the Run
  under way are either as new as what another window wrote last (`SawIt`), or all older, and
  then its text is still the row and every token in hand is stale (`MissedIt`, `Unseen`). A conflict
  is what leads from the second side to the first, and no save of the selection is under way then
  (`NoSaveAfterConflict`); so a token that is good was typed over (`OldPagesAreRefused`). The
  answer of an earlier selection's Run breaks the rule: item 8 of section 7, found when
  `DraftLoaded` could not be shown to keep `DraftInHand`.

* **NodeExecutorsProofs.** *Scripts.* `IInv` joins to the types what makes a stored result whole:
  until the budget refuses, nothing is lost and a copier ends only when its pipe is empty and
  nobody holds it (`NothingIsLost`); a watcher fires only in a cancelled run (`LaunchesOnce`);
  what the checks after `Wait` established stays true (`LaterIsWhole`). `RecordInv` adds that from
  the adapter on the record is what the adapter made of exit code and evidence, and one lemma per
  check says that this is what the evidence calls for. `EvidenceAssumption` says that the
  numbers of a coverage profile are natural numbers; the code parses them as counts, but their sum
  is recursive data to the prover, and TLC evaluates the assumption for the evidence of the run.
  Theorems: `TypeCorrect`, `StoredRunsAreWhole`, `VerdictsAreEarned`.
  *Gateway.* `Dialog` says where a request stands after the lines that were typed for it: what it
  still has to ask follows from what was said. As long as no two readers waited at the same time
  (`shared`), `LoneInv` holds: a line goes to the reader of the request that asked. Theorem:
  `LonePromptsCorrect`.
* **LegacyMigrationProofs.** The properties say what a committed row has; the invariant says how
  a call comes to have it. While it reads, what it holds of a table is that of a moment no
  later than the old store is at, and of a later moment the later it was read (`Loaded`). Under the write
  lock (`Locks`), its rows are those it found and those it read; what is staged is a copy
  (`Copied`), and all of it once orphans and missing files have been ruled out (`Staged`); a
  directory is staged, published or was there before with the same files. A commit makes rows
  of that, and nobody takes a directory away that a committed row names, because only the
  holder of the lock renames back and only what it published itself. `HaveFiles` and
  `HaveNodeRuns` are the two properties, of any tables. Two facts about the environment are
  assumed. `SourceAssumption`: a Run of the old store keeps its id and its execution, and no
  node run is taken away; record.go only inserts and updates (`INSERT ... ON CONFLICT DO UPDATE`),
  and nothing deletes a Run. `DestinationAssumption`: a destination knows no Run of the
  old store before it is migrated into; the ids are UUIDs. The node runs of a Run are
  read after it (`Tables`, `LoadOrder`: the order of the queries), which is what makes `MigratedRunsAreWhole` hold without a
  read transaction. That a migration can be repeated rests on `ImportedTwice`: an import that was
  accepted is accepted again and changes nothing, because with the constraints met every row has one
  twin in the result, itself or the one it was recognized as, and so the ids that the next table
  is renamed by are the same (`SameName`, one lemma for each table). `AgainInv` then says, as long as
  nothing is written to the old store: the destination is the first one or the import of it, a directory of a
  migrated Run holds every file any call would put there, and no call has met a conflict; TLC
  checked it on the instance of the run before it was proved. Theorems: `FilesBeforeRows`,
  `RunsAreWhole`, `FailureLeavesNoTrace`, `MigrationRepeats`.
* **WorkflowHistoryProofs.** The heart of `IInv` is where ids come from. The rounds of a node are
  numbered, and the id of a round is made once, when it is prepared, or for the Pending entry when
  that is first recorded, and then the first round takes it over (`RoundsInv`): so two entries
  never have one id. Every stored row has the id of an entry, and its round or that of the
  Pending entry before it (`StoredInv`). With both, `recordNodeRun` never finds a row of another
  id under the key it writes (`StoredAsItself`): the branch of its upsert that takes over a stored
  id is never needed, whatever transactions were refused before. `Final`: the engine is done
  and no record is due; then neither rows nor entries change, and a row that says finished
  implies it (`RunRowsInv`), which makes the two queries of the reader agree (`ViewInv`).
  `WorkflowInv` follows an import through `Upsert` and `StaleInstances`. Theorems: `OneImport`,
  `RecordCorrect`, `FinishedViewCorrect`.
  *The refinement.* `RecordInv` adds how rounds go on. In a history all rounds but the newest have
  ended, and only the Pending entry has no round (`Course`); every step of the engine leads an entry to a
  later stage, or begins a round after it (`Onward`); a stored row is its entry at some earlier
  stage (`BehindInv`, kept by `Onward` whatever is not recorded), the row of a Run comes with a row for every node and
  fails only with the execution (`ListedInv`), and an execution that is finished has no round under way
  (`EndInv`). Then `Record` is a `Write` of `RunRecord` and every other step a stutter, with ids
  that tell the rounds of a Run apart (`RoundsNumbered`). Theorem: `Refinement`.

* **CycleProofs.** Both searches are compared with `Reachability`, over any graph and any Draft;
  `MinOfNaturals`, the least-number principle, is what stands for induction.
  *CycleSearch.* `SearchInv`: the gray nodes are the walk, each on it once, and the walk follows
  edges; what was left is black, leads only to black nodes, and is on no cycle (`LeftForGood`), for
  a node that is left adds to a closed set of such nodes one that the set does not lead back to.
  Theorem: `SearchCorrect`.
  *DraftPreview.* `PreviewInv` is the correctness of Tarjan's algorithm as cycleGroups runs it. The nodes
  *held* are those on its stack, in the order in which they were met (`StackIsOrdered`), and nothing is
  held that was not met since the root of the visits under way (`HeldSinceRoot`). A node under visit reaches all that was met after it and is
  held (`VisitedReachesLater`); each link is the number of a node that is held and reached,
  older than its own unless the visit is still under way (`LinksLead`); and what a level has looked at, in the node itself or in those
  left since, is no older than the level's link (`LinksAreLow`). When a node is left with
  its own number as its link, the last two make a complete group of what was met from it on (`PoppedIsAGroup`): no edge
  leads out except to settled nodes, which lead nowhere else (`SettledIsClosed`), and from a node
  of least number that did not lead back to the top its link would lead on to one that does. So the groups so far are the
  cycles among the settled nodes (`GroupsSoFar`), and when the Preview is shown all are settled.
  TLC checked `PreviewInv` on every graph of three nodes and on many of four before it was proved. `DraftsAssumption`
  gives a Draft its type only: ids repeated, blank or missing are all allowed. Theorem: `GroupsCorrect`.

Only model-checked: everything temporal under fairness (`CancelEndsRun`, `RunSettles`,
`RunsAreClosed`, `PressedRunGoesOn`, `KillEndsRun`, `CanceledRequestReturns`), which is out of
the prover's reach; and `BindingsFit`, as the types of `PortTypes` and their values
are recursive data. That `WorkflowCheck` moves the variables of the search only as `CycleSearch`
does (`SearchSpec`) is checked by TLC, too, with `WorkflowSearch`. Whether a rejection is reworked in a
graph outside the classes of `ReworkByDefault` and `ReworkInLoops` is a question for a run: item 3 of
section 7 is a graph where it is not.

## 7. Where code and documents differ

The first two are runs of the project; TLC finds each documented statement violated.

1. **A credential survives its Provider** (`ProviderKeyLeft`, llm_settings.go:335).
   UpdateLLMProvider reads the active Provider and stores the new key; a concurrent
   DeleteLLMProvider removes key and row; the update finds no row and restores the old key.
   The credential stays in the Keychain under a reference that no active row names.
   `docs/domain-model.md:25` requires a deletion to delete it.
2. **A Draft gets the content of another Workflow** (`ShellDraftsMix`, product-shell.js:243).
   A Run is answered after the user selected another Workflow: its draft becomes the current
   one, and an edit queued for the selected Workflow takes content and token from it. If the
   versions are equal, the save succeeds.

Further configurations show the same of these (`tlc -config <name>.cfg <module>`):

3. **A rejection is lost** (`EngineRejectionLost`, `MCEngine`, engine.go:606). A rejection that
   arrives while a consumer runs is looked at only when that round ends; if the approval has
   approved meanwhile, `ready()` skips the input.
4. **Advice is lost** (`EngineAdviceLost`, `MCEngine`, engine.go:606). Retry advice for a node
   whose advise input is bound to an approval that has passed never starts a round.
5. **A cancelled approval stays WaitingHuman** (`EngineCancelWaiting`, `MCEngine`,
   engine.go:567): the transition it asks for is not in the table, and the error is dropped.
6. **A round starts without a required input** (`EngineInputWithdrawn`, `MCEngine`,
   engine.go:189). Whether a node is ready is decided when it enters the list. If its producer
   runs again before it is started, and leaves the output out, the node starts with the input
   missing. The plan of the platform core says that a node runs when its inputs are collected
   (`plans/平台核心设计：组件定义体系与迭代执行引擎.md:15`, `:288`).
7. **A Run of the text before** (`ShellRunScreen`, `MCProductShell`, product-shell.js:234). When
   the save of the typed text fails, the handler of the Run button goes on and runs the draft
   without it; `spec.md:45` promises that what runs is what is on the screen.
8. **An old page overwrites newer content** (`ShellLateRun`, `MCProductShell`,
   product-shell.js:243, product-dom-view.js:575). While the Draft of a new selection is loading, the answer
   of an earlier selection's Run shows its own draft and unlocks the editor. What is typed
   there stays pending when the load is answered (`renderDraft` stops the timer and keeps
   `pendingDraftEdit`), and the flush of a structured edit or of Run saves it with the token of
   the draft loaded: over what another window stored in between, which the user has not seen.
   `.scratch/product-workflow/issues/03-draft-autosave-lock-version.md:3` says that an old page
   cannot overwrite newer content ("旧页面不能覆盖较新内容").
9. **A machine cycle without a warning** (`MachineCycleUnwarned`, `MCWorkflowCheck`,
   semantic.go:412). `checkCycle` looks at the first cycle the search meets: if a human is on it,
   another cycle without one passes in silence. The plan of the platform core asks for a warning
   about each (`plans/平台核心设计：组件定义体系与迭代执行引擎.md:387`).
10. **A process outlives its round** (`ScriptOrphan`, `MCNodeExecutors`, node.go:177). A child
   that holds no pipe goes on after its shell exited: nothing is left to kill it when the
   context is cancelled. `.scratch/code-quality-automation/spec.md:125` promises that nothing
   remains.

Seen while modelling, without a document that says otherwise.

*Engine.* Advice for an older failure reruns a node that has since moved on; the advise branch
of the results loop (engine.go:285) overwrites `runErr` without the guard of :339; a failed
advise prompt marks the current round, possibly not the one it asked about.

*Providers and runs.* A read-back that fails after a committed write makes an update restore the
old key under the new connection, and a create delete the key of an active Provider; StartRun
resolves a Provider's row and its key at different moments; GetProductRun reads three
statements without a transaction, so a final Conversation may be shown beside an agent still at
work.

*Window.* A Run or a structured edit pressed while its flush is awaited goes to the Workflow that
is selected when the flush ends; a structured edit pressed before Run is not awaited by it; the
count of edits of the shell and that of the editor diverge after a structured edit or a Run, so
an older answer may be shown over newer text (the exceptions in `NewerTextIsKept`) or a save
never be shown as saved; the answer of a Run stops the autosave timer of text typed meanwhile.

*CLI history.* A crash of `workflow run` leaves its Run "Running" for ever; a row may be "Failed"
without an end while its nodes still run; a final Record that fails is only a warning; the
definitions of an older program overwrite those of a newer one, and an older program cannot run
an unpinned workflow once a newer one imported an executor it does not have; a newer schema is
opened without refusal by an older program; `state.json` of a node is written before the file of
its archived round, and neither atomically; runs are listed in the order of RFC3339Nano text,
which drops trailing zeros.

*Migration.* No command calls MigrateLegacy. An old store of version 3 or later passes
the version check and fails on `execution_id`. A snapshot taken while the old program writes mixes
moments; when a foreign key fails because of it the report says conflict, and a second migration
after the source went on conflicts with the rows of the first. A crash leaves a
`.legacy-migration-*` directory. The branch for two sources of one destination (475–477) cannot be
reached.

*Script nodes.* The static check never reads `vet-exit.txt` and takes exit −1 for "failed";
a `vet.json` of headers alone with a failing exit is a structural error; a failing `go list` is a
verdict of the race check and a structural error of the coverage check. A child that keeps the
pipes of an exited shell makes Execute wait, through a cancellation too. `onLimit` kills the
group by number after the shell may have been reaped.

*Gateway.* Two prompts that read at the same time use one `bufio.Reader` without a lock.

*Definitions and graph.* An output declared `file:jpg` or as a list can never pass `MatchesKind`:
validation accepts it and every run fails. The comment of `MatchesKind` (compatible.go:67–71) says that it
goes through the members of lists; `contains` meets a list there only with a name, which no list contains. `checkEntry` ignores nodes that are bound to the
project context alone, which start without the human; nodes that depend on each other and are
not reachable from the entry pass validation and never start. The order of executor versions is
not transitive for mixed forms (v10 < v1a < v2 < v10).

## 8. What is not modelled, and why

The settings and history panels of the window and the layout of its DOM views, the HTTP client,
YAML and CUE parsing, path resolution, file naming, redaction and logging are input and output
without state that outlives a call. The work of an agent is the nondeterministic outcome of a
round, and a script is an environment that does as it likes within its process group. Two machines
on one data root, disk corruption and a Keychain edited by hand are outside. GetLLMSettings and
ResolveLLMModel read several statements; the model's UpdateProvider takes the Provider it reads
from one. The models and defaults of LLM settings, the artifact stores, and the diagnostics of an
incomplete Draft are sequential and are not modelled. In `WorkflowCheck` the configuration of an
executor and the checks of the host are taken to pass, and of the structural checks of a file those of its
empty fields, of ids with a dot and of references that do not parse are left out. The state files of an
execution (`PersistState`) mirror it for people: nothing outside the tests reads them, and a failing write is
only logged.

## 9. The plan

In the order of what would hurt most.

1. `Engine`, `RunLedger` and their proofs — done.
2. `ProductRun`, `RunArchive`, `RunHistoryView`, `ProductRunProofs` — done.
3. `ProviderKeys`, `ProviderKeysProofs` — done.
4. `ProductShell`, `ProductShellProofs` — done.
5. `ScriptNode`, `QualityChecks`, `HumanGateway`, `NodeExecutorsProofs` — done; the composition of the
   gateway with the prompts of `Engine` is open.
6. `WorkflowHistory`, `RunRecord`, `LegacyMigration` and their proofs — done.
7. `WorkflowCheck`, `PortTypes`, `CycleSearch`, `DraftPreview`, `CycleProofs` — done; `BindingsFit` has no theorem.
8. Open: LLM defaults and the order of their timestamps, the resolution of a Provider by StartRun
   beside its updates, versions of the artifact stores.

A theorem still worth proving: a wider class than `ReviewLoop` in which a rejection is never lost at any
parallelism, with machine-made inputs that are not remade while the approval is out.
