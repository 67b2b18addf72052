----------------------------- MODULE ScriptNode -----------------------------
(***************************************************************************)
(* One Execute of a script node (internal/node/scriptnode/node.go): the    *)
(* preflight, the Node Run directories, the shell and what it leaves       *)
(* running, the two log copiers with their shared budget (log_writer.go),  *)
(* cancellation, and what is checked before the result of the adapter is   *)
(* stored.  The script is external: it writes, forks, spoils files and     *)
(* exits as it likes.  It stays in its process group (process_unix.go).    *)
(***************************************************************************)
EXTENDS QualityChecks

CONSTANTS
  Limit,     \* maxLogBytes, in units of output
  MaxOutput, \* bound: what the script writes to one stream
  Evidence   \* Evidence[check]: what its script may leave in the tool-output files

Streams == {"stdout", "stderr"}

\* What preflight may find wrong, in the order in which it looks.
Flaws == {"bundle", "code", "paths", "workspace", "platform", "executables", "toolchain", "directories"}

ASSUME ScriptAssumption ==
  /\ Limit \in Nat \ {0}
  /\ MaxOutput \in Nat
  /\ DOMAIN Evidence = Checks

\* Numbers of statements are counts, and so are their sums; a function is no syntax error.
ASSUME EvidenceAssumption ==
  /\ \A e \in Evidence["coverage"] :
       Measured(e.profile).covered \in Nat /\ Measured(e.profile).all \in Nat
  /\ \A e \in Evidence["complexity"] : e.functions \cap e.errors = {}

VARIABLES
  pc,        \* where Execute stands
  outcome,   \* how it returned: "none", "structural", "canceled", "limit", "logs", "stored"
  cancelled, \* the context is done
  flaw,      \* what is wrong with this node on this host, or "none"
  shell,     \* "none", "alive", "dead" (not waited for yet) or "reaped"
  exit,      \* its exit code, -1 when a signal ended it
  child,     \* a process the shell forked: "none", "holding" the log pipes, "quiet" or "gone"
  watch,     \* the goroutine of exec.CommandContext: "watching", "fired" or "released"
  pipe,      \* pipe[s]: written and not copied yet
  lost,      \* lost[s]: written and never copied
  logged,    \* logged[s]: what the log file holds
  copier,    \* copier[s]: "copying", "over" (about to call onLimit) or "ended"
  budget,    \* [remaining, exceeded, failed]: logBudget
  tampered,  \* a file of the materialized bundle was changed
  outputs,   \* the tool-output directory: "absent", "declared", "missing" one or "undeclared"
  record     \* what was adapted: [check, evidence, exit, result]

scriptVars == <<pc, outcome, cancelled, flaw, shell, exit, child, watch, pipe, lost, logged,
          copier, budget, tampered, outputs, record>>

process == <<shell, exit, child>>
logs == <<pipe, lost, logged, copier, budget>>
files == <<tampered, outputs>>

NoRecord == [check |-> "none", evidence |-> {}, exit |-> 0, result |-> Broken]

ScriptInit ==
  /\ pc = "start" /\ outcome = "none" /\ cancelled = FALSE
  /\ flaw \in Flaws \cup {"none"}
  /\ shell = "none" /\ exit = 0 /\ child = "none" /\ watch = "watching"
  /\ pipe = [s \in Streams |-> 0] /\ lost = [s \in Streams |-> 0] /\ logged = [s \in Streams |-> 0]
  /\ copier = [s \in Streams |-> "copying"]
  /\ budget = [remaining |-> Limit, exceeded |-> FALSE, failed |-> FALSE]
  /\ tampered = FALSE /\ outputs = "absent"
  /\ record = NoRecord

\* The deferred removal of the tool-output directory; it may fail, and then
\* the error is structural whatever was to be returned.
Returns(how) ==
  /\ pc' = "done"
  /\ \/ outcome' = how /\ outputs' = "absent"
     \/ outputs # "absent" /\ outcome' = "structural" /\ UNCHANGED outputs

-----------------------------------------------------------------------------
(* Before the script runs.                                                 *)

Preflight ==
  /\ pc = "start"
  /\ \/ /\ flaw # "none" \/ cancelled
        /\ Returns("structural")
     \/ /\ flaw = "none"
        /\ pc' = "launching" /\ outputs' = "missing"
        /\ UNCHANGED outcome
  /\ UNCHANGED <<cancelled, flaw, process, watch, logs, tampered, record>>

\* command.Start; a context that is done already starts nothing.
Launch ==
  /\ pc = "launching"
  /\ \/ ~cancelled /\ shell' = "alive" /\ pc' = "running" /\ UNCHANGED <<outcome, outputs>>
     \/ cancelled /\ Returns("canceled") /\ UNCHANGED shell
     \/ ~cancelled /\ Returns("structural") /\ UNCHANGED shell
  /\ UNCHANGED <<cancelled, flaw, exit, child, watch, logs, tampered, record>>

-----------------------------------------------------------------------------
(* The script and the context: external.                                   *)

Alive == shell = "alive" \/ child \in {"holding", "quiet"}
HoldsPipes == shell = "alive" \/ child = "holding"

Written(s) == pipe[s] + lost[s] + logged[s]

ScriptWrites(s) ==
  /\ HoldsPipes
  /\ Written(s) < MaxOutput
  /\ pipe' = [pipe EXCEPT ![s] = IF copier[s] = "ended" THEN @ ELSE @ + 1]
  /\ lost' = [lost EXCEPT ![s] = IF copier[s] = "ended" THEN @ + 1 ELSE @]
  /\ UNCHANGED <<pc, outcome, cancelled, flaw, process, watch, logged, copier, budget, files, record>>

ScriptForks ==
  /\ shell = "alive" /\ child = "none"
  /\ child' \in {"holding", "quiet"}
  /\ UNCHANGED <<pc, outcome, cancelled, flaw, shell, exit, watch, logs, files, record>>

ScriptWritesFiles ==
  /\ Alive
  /\ \/ outputs # "absent" /\ outputs' \in {"declared", "missing", "undeclared"} /\ UNCHANGED tampered
     \/ tampered' = TRUE /\ UNCHANGED outputs
  /\ UNCHANGED <<pc, outcome, cancelled, flaw, process, watch, logs, record>>

ShellExits ==
  /\ shell = "alive"
  /\ shell' = "dead" /\ exit' \in {-1, 0, 1, 125}
  /\ UNCHANGED <<pc, outcome, cancelled, flaw, child, watch, logs, files, record>>

ChildExits ==
  /\ child \in {"holding", "quiet"}
  /\ child' = "gone"
  /\ UNCHANGED <<pc, outcome, cancelled, flaw, shell, exit, watch, logs, files, record>>

Cancel ==
  /\ ~cancelled /\ pc # "done"
  /\ cancelled' = TRUE
  /\ UNCHANGED <<pc, outcome, flaw, process, watch, logs, files, record>>

-----------------------------------------------------------------------------
(* os/exec: two copiers, the watcher of the context, the wait.             *)

\* Seeded fault: without a process group only the shell is killed.
KillShell ==
  /\ shell' = IF shell = "alive" THEN "dead" ELSE shell
  /\ exit' = IF shell = "alive" THEN -1 ELSE exit
  /\ UNCHANGED child

\* SIGKILL to the process group: the shell, and what it left running.
KillGroup ==
  /\ shell' = IF shell = "alive" THEN "dead" ELSE shell
  /\ exit' = IF shell = "alive" THEN -1 ELSE exit
  /\ child' = IF child \in {"holding", "quiet"} THEN "gone" ELSE child

\* Seeded fault: the limit is not an error of the budget.
RefusedByFailure == budget.failed

Refused == budget.exceeded \/ budget.failed

\* A copier that ends closes its end of the pipe.
EndsCopier(s, state) ==
  /\ copier' = [copier EXCEPT ![s] = state]
  /\ pipe' = [pipe EXCEPT ![s] = 0]

\* budgetWriter.Write of n units, of which the log takes `taken`.
Copy(s) ==
  /\ pc = "running" /\ copier[s] = "copying" /\ pipe[s] > 0
  /\ \E n \in 1..pipe[s] :
       LET allowed == IF n > budget.remaining THEN budget.remaining ELSE n IN
       IF Refused
       THEN /\ EndsCopier(s, "ended")
            /\ lost' = [lost EXCEPT ![s] = @ + pipe[s]]
            /\ UNCHANGED <<logged, budget>>
       ELSE \E taken \in 0..allowed, failed \in BOOLEAN :
              /\ failed \/ taken = allowed
              /\ logged' = [logged EXCEPT ![s] = @ + taken]
              /\ budget' = [remaining |-> budget.remaining - taken,
                            exceeded |-> n > allowed, failed |-> failed]
              /\ IF failed \/ n > allowed
                 THEN EndsCopier(s, "over") /\ lost' = [lost EXCEPT ![s] = @ + pipe[s] - taken]
                 ELSE pipe' = [pipe EXCEPT ![s] = @ - n] /\ UNCHANGED <<lost, copier>>
  /\ UNCHANGED <<pc, outcome, cancelled, flaw, process, watch, files, record>>

\* onLimit, called after the lock of the budget is released.
OnLimit(s) ==
  /\ copier[s] = "over"
  /\ copier' = [copier EXCEPT ![s] = "ended"]
  /\ KillGroup
  /\ UNCHANGED <<pc, outcome, cancelled, flaw, watch, pipe, lost, logged, budget, files, record>>

CopierEnds(s) ==
  /\ pc = "running" /\ copier[s] = "copying"
  /\ pipe[s] = 0 /\ ~HoldsPipes
  /\ copier' = [copier EXCEPT ![s] = "ended"]
  /\ UNCHANGED <<pc, outcome, cancelled, flaw, process, watch, pipe, lost, logged, budget, files, record>>

\* The context is done before the wait for the shell is over, or in the
\* moment it is: the watcher kills the group.
WatcherKills ==
  /\ pc = "running" /\ cancelled /\ watch = "watching"
  /\ watch' = "fired"
  /\ KillGroup
  /\ UNCHANGED <<pc, outcome, cancelled, flaw, logs, files, record>>

Reap ==
  /\ shell = "dead"
  /\ shell' = "reaped"
  /\ UNCHANGED <<pc, outcome, cancelled, flaw, exit, child, watch, logs, files, record>>

\* Wait has the state of the shell and lets the watcher go.
WatcherLeaves ==
  /\ shell = "reaped" /\ watch = "watching"
  /\ watch' = "released"
  /\ UNCHANGED <<pc, outcome, cancelled, flaw, process, logs, files, record>>

-----------------------------------------------------------------------------
(* After command.Run.                                                      *)

RunHasReturned ==
  /\ shell = "reaped" /\ watch # "watching"
  /\ \A s \in Streams : copier[s] = "ended"

\* ctx.Err comes before the error of the budget.
CheckRun ==
  /\ pc = "running" /\ RunHasReturned
  /\ \/ cancelled /\ Returns("canceled")
     \/ ~cancelled /\ budget.exceeded /\ Returns("limit")
     \/ ~cancelled /\ ~budget.exceeded /\ budget.failed /\ Returns("logs")
     \/ ~cancelled /\ ~Refused /\ pc' = "ran" /\ UNCHANGED <<outcome, outputs>>
  /\ UNCHANGED <<cancelled, flaw, process, watch, logs, tampered, record>>

CheckBundle ==
  /\ pc = "ran"
  /\ \/ tampered /\ Returns("structural")
     \/ ~tampered /\ pc' = "checked" /\ UNCHANGED <<outcome, outputs>>
  /\ UNCHANGED <<cancelled, flaw, process, watch, logs, tampered, record>>

\* validateToolOutputs, before the adapter and after it.
CheckOutputs ==
  /\ pc \in {"checked", "adapted"}
  /\ \/ outputs # "declared" /\ Returns("structural")
     \/ /\ outputs = "declared"
        /\ pc' = IF pc = "checked" THEN "adapting" ELSE "storing"
        /\ UNCHANGED <<outcome, outputs>>
  /\ UNCHANGED <<cancelled, flaw, process, watch, logs, tampered, record>>

\* Which check this node is stays open until its adapter reads the files.
AdaptResult ==
  /\ pc = "adapting"
  /\ \E check \in Checks : \E e \in Evidence[check] :
       LET result == Adapt(check, e, exit) IN
       \/ result = Broken /\ Returns("structural") /\ UNCHANGED record
       \/ /\ result # Broken
          /\ record' = [check |-> check, evidence |-> e, exit |-> exit, result |-> result]
          /\ pc' = "adapted" /\ UNCHANGED <<outcome, outputs>>
  /\ UNCHANGED <<cancelled, flaw, process, watch, logs, tampered>>

\* The tool-output is removed, then the result is put in the store.
Store ==
  /\ pc = "storing"
  /\ \/ Returns("structural")
     \/ pc' = "done" /\ outcome' = "stored" /\ outputs' = "absent"
  /\ UNCHANGED <<cancelled, flaw, process, watch, logs, tampered, record>>

-----------------------------------------------------------------------------
ScriptNext ==
  \/ Preflight \/ Launch
  \/ \E s \in Streams : ScriptWrites(s) \/ Copy(s) \/ OnLimit(s) \/ CopierEnds(s)
  \/ ScriptForks \/ ScriptWritesFiles \/ ShellExits \/ ChildExits \/ Cancel
  \/ WatcherKills \/ Reap \/ WatcherLeaves
  \/ CheckRun \/ CheckBundle \/ CheckOutputs \/ AdaptResult \/ Store

ScriptSpec == ScriptInit /\ [][ScriptNext]_scriptVars

\* The program goes on; the script and its child need never exit.
ProgramStep ==
  \/ Preflight \/ Launch
  \/ \E s \in Streams : Copy(s) \/ OnLimit(s) \/ CopierEnds(s)
  \/ WatcherKills \/ Reap \/ WatcherLeaves
  \/ CheckRun \/ CheckBundle \/ CheckOutputs \/ AdaptResult \/ Store

ScriptFairness == WF_scriptVars(ProgramStep)

-----------------------------------------------------------------------------
(* Properties.                                                             *)

\* A stored result comes from a run that nothing cut short: its logs hold all
\* the script wrote, they fit the budget together, and no cancellation killed
\* any of its processes.
StoredRunIsWhole ==
  /\ logged["stdout"] + logged["stderr"] + budget.remaining = Limit
  /\ outcome = "stored" =>
       /\ \A s \in Streams : logged[s] = Written(s)
       /\ watch # "fired" /\ ~budget.exceeded

\* What is wrong with the project according to the evidence, whatever the way
\* in which an adapter finds it.
HasProblem(r) ==
  LET e == r.evidence IN
  CASE r.check = "static-analysis" -> r.exit # 0 \/ (e.vet = "json" /\ e.diagnostics # {})
    [] r.check = "coverage"   -> \/ r.exit # 0 /\ e.failed # {}
                                 \/ 100 * Measured(e.profile).covered < Threshold * Measured(e.profile).all
    [] r.check = "race"       -> r.exit # 0 \/ e.races # {}
    [] r.check = "complexity" -> \E x \in e.functions \cup e.errors :
                                   IsSelected(x) /\ (x \in e.functions => x.complexity > Maximum)

HasSubject(r) ==
  LET e == r.evidence IN
  CASE r.check \in {"static-analysis", "race"} -> e.packages # {}
    [] r.check = "coverage"   -> Measured(e.profile).all > 0
    [] r.check = "complexity" -> \E f \in e.functions : IsSelected(f)

\* A stored verdict is the one its evidence calls for: failed exactly when the
\* evidence shows a problem, not-applicable only when there was nothing to
\* check; and a race check names every package that failed or raced.
VerdictIsEarned ==
  outcome = "stored" =>
    LET verdict == record.result.verdict IN
    /\ verdict = "failed" <=> HasProblem(record)
    /\ verdict # "failed" => (verdict = "passed" <=> HasSubject(record))
    /\ record.check = "race" /\ record.evidence.packages # {} =>
         \A p \in record.evidence.races \cup (IF record.exit = 0 THEN {} ELSE FailedPackages(record.evidence)) :
           \E f \in record.result.findings : f.where = p

\* A kill ends the run: after the watcher of the context fired, or a copier met
\* the limit or a failing log file, Execute returns, whatever the script does.
KillEndsRun == (watch = "fired" \/ Refused) ~> (pc = "done")

\* A canceled run leaves no process behind (.scratch/code-quality-automation,
\* issue 07).  It does when the shell had exited and its child had not.
CancelLeavesNoProcess == outcome = "canceled" => ~Alive

=============================================================================
