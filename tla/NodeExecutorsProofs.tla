------------------------- MODULE NodeExecutorsProofs -------------------------
(***************************************************************************)
(* Proofs about what runs below a round of the Engine.  ScriptNode, for    *)
(* any log budget, any amount of output and any evidence: what a stored    *)
(* result says about the run it came from, and what its verdict says about *)
(* the evidence.  HumanGateway, for any number of requests and of lines:   *)
(* a person who is asked alone is answered as meant.                       *)
(***************************************************************************)
EXTENDS ScriptNode, HumanGateway, FiniteSetTheorems, SequenceTheorems, TLAPS

-----------------------------------------------------------------------------
(* ScriptNode.                                                             *)

Amounts == [Streams -> Nat]

\* The states of one Execute.
ScriptTypeOK ==
  /\ pc \in {"start", "launching", "running", "ran", "checked", "adapting", "adapted", "storing", "done"}
  /\ outcome \in {"none", "structural", "canceled", "limit", "logs", "stored"}
  /\ cancelled \in BOOLEAN
  /\ shell \in {"none", "alive", "dead", "reaped"}
  /\ child \in {"none", "holding", "quiet", "gone"}
  /\ watch \in {"watching", "fired", "released"}
  /\ pipe \in Amounts /\ lost \in Amounts /\ logged \in Amounts
  /\ copier \in [Streams -> {"copying", "over", "ended"}]
  /\ budget \in [remaining : Nat, exceeded : BOOLEAN, failed : BOOLEAN]

\* What the two logs hold and what is left of the budget add up to the limit.
BudgetAddsUp == logged["stdout"] + logged["stderr"] + budget.remaining = Limit

\* Until the budget refuses, nothing is lost, and a copier ends only when its
\* pipe is empty and nobody can write to it any more.
NothingIsLost ==
  ~Refused =>
    \A s \in Streams :
      /\ lost[s] = 0 /\ copier[s] # "over"
      /\ copier[s] = "ended" => pipe[s] = 0 /\ ~HoldsPipes

\* The shell is started once; a watcher fires only in a run that is cancelled.
LaunchesOnce ==
  /\ pc \in {"start", "launching"} =>
       shell = "none" /\ watch = "watching" /\ \A s \in Streams : copier[s] = "copying"
  /\ pc = "running" => shell # "none"
  /\ pc = "running" /\ watch = "fired" => cancelled

\* What CheckRun has established for everything that comes after it.
RunWasWhole ==
  /\ ~Refused /\ watch # "fired" /\ watch # "watching" /\ shell = "reaped"
  /\ \A s \in Streams : copier[s] = "ended"

PassedCheckRun == {"ran", "checked", "adapting", "adapted", "storing"}

LaterIsWhole ==
  /\ pc \in PassedCheckRun => RunWasWhole
  /\ outcome = "stored" => pc = "done" /\ RunWasWhole

IInv == ScriptTypeOK /\ BudgetAddsUp /\ NothingIsLost /\ LaunchesOnce /\ LaterIsWhole

-----------------------------------------------------------------------------
LEMMA InitHolds == ScriptInit => IInv
<1> SUFFICES ASSUME ScriptInit PROVE IInv
  OBVIOUS
<1>1. ScriptTypeOK
  BY ScriptAssumption DEF ScriptInit, ScriptTypeOK, Amounts
<1>2. BudgetAddsUp
  BY ScriptAssumption DEF ScriptInit, BudgetAddsUp, Streams
<1>3. NothingIsLost /\ LaunchesOnce /\ LaterIsWhole
  BY DEF ScriptInit, NothingIsLost, LaunchesOnce, LaterIsWhole, PassedCheckRun
<1> QED
  BY <1>1, <1>2, <1>3 DEF IInv

\* The stages after the run, and those before it, leave processes and logs alone.
LEMMA StageStep ==
  ASSUME IInv,
         Preflight \/ Launch \/ CheckRun \/ CheckBundle \/ CheckOutputs \/ AdaptResult \/ Store
  PROVE  IInv'
<1> USE DEF IInv, ScriptTypeOK, BudgetAddsUp, NothingIsLost, LaunchesOnce, LaterIsWhole,
            RunWasWhole, PassedCheckRun, Amounts, Streams, Refused, HoldsPipes, Returns,
            logs, process, files
<1>1. CASE Preflight
  BY <1>1 DEF Preflight
<1>2. CASE Launch
  BY <1>2 DEF Launch
<1>3. CASE CheckRun
  BY <1>3 DEF CheckRun, RunHasReturned
<1>4. CASE CheckBundle
  BY <1>4 DEF CheckBundle
<1>5. CASE CheckOutputs
  BY <1>5 DEF CheckOutputs
<1>6. CASE AdaptResult
  <2>1. PICK result : \/ Returns("structural") /\ UNCHANGED record
                      \/ pc' = "adapted" /\ UNCHANGED <<outcome, outputs>>
    BY <1>6 DEF AdaptResult
  <2> QED
    BY <1>6, <2>1 DEF AdaptResult
<1>7. CASE Store
  BY <1>7 DEF Store
<1> QED
  BY <1>1, <1>2, <1>3, <1>4, <1>5, <1>6, <1>7

\* What the script, its child and the context do.
LEMMA ScriptStep ==
  ASSUME IInv,
         \/ \E s \in Streams : ScriptWrites(s)
         \/ ScriptForks \/ ScriptWritesFiles \/ ShellExits \/ ChildExits \/ Cancel
  PROVE  IInv'
<1> USE DEF IInv, ScriptTypeOK, BudgetAddsUp, NothingIsLost, LaunchesOnce, LaterIsWhole,
            RunWasWhole, PassedCheckRun, Amounts, Streams, Refused, HoldsPipes,
            logs, process, files
<1>1. ASSUME NEW s \in Streams, ScriptWrites(s) PROVE IInv'
  BY <1>1 DEF ScriptWrites, Written
<1>2. CASE ScriptForks
  BY <1>2 DEF ScriptForks
<1>3. CASE ScriptWritesFiles
  BY <1>3 DEF ScriptWritesFiles
<1>4. CASE ShellExits
  BY <1>4 DEF ShellExits
<1>5. CASE ChildExits
  BY <1>5 DEF ChildExits
<1>6. CASE Cancel
  BY <1>6 DEF Cancel
<1> QED
  BY <1>1, <1>2, <1>3, <1>4, <1>5, <1>6

\* What os/exec and the log writers do while the run lasts.
LEMMA CopyStep ==
  ASSUME IInv, NEW s \in Streams, Copy(s)
  PROVE  IInv'
<1> USE DEF IInv, ScriptTypeOK, BudgetAddsUp, NothingIsLost, LaunchesOnce, LaterIsWhole,
            RunWasWhole, PassedCheckRun, Amounts, Streams, HoldsPipes,
            process, files, EndsCopier
<1>1. CASE Refused
  BY <1>1 DEF Copy, Refused
<1>2. CASE ~Refused
  <2>1. PICK n \in 1..pipe[s], took \in Nat, failed \in BOOLEAN :
          LET allowed == IF n > budget.remaining THEN budget.remaining ELSE n IN
          /\ took <= allowed /\ took <= pipe[s] /\ (failed \/ took = allowed)
          /\ logged' = [logged EXCEPT ![s] = @ + took]
          /\ budget' = [remaining |-> budget.remaining - took,
                        exceeded |-> n > allowed, failed |-> failed]
          /\ IF failed \/ n > allowed
             THEN /\ copier' = [copier EXCEPT ![s] = "over"]
                  /\ pipe' = [pipe EXCEPT ![s] = 0]
                  /\ lost' = [lost EXCEPT ![s] = @ + pipe[s] - took]
             ELSE pipe' = [pipe EXCEPT ![s] = @ - n] /\ UNCHANGED <<lost, copier>>
    BY <1>2 DEF Copy
  <2>2. /\ pc = "running" /\ copier[s] = "copying"
        /\ UNCHANGED <<pc, outcome, cancelled, shell, child, watch>>
    BY DEF Copy
  <2>3. ScriptTypeOK' /\ BudgetAddsUp'
    BY <2>1, <2>2
  <2>4. NothingIsLost'
    BY <1>2, <2>1, <2>2 DEF Refused
  <2>5. LaunchesOnce' /\ LaterIsWhole'
    BY <2>2
  <2> QED
    BY <2>3, <2>4, <2>5
<1> QED
  BY <1>1, <1>2

LEMMA ExecStep ==
  ASSUME IInv,
         \/ \E s \in Streams : OnLimit(s) \/ CopierEnds(s)
         \/ WatcherKills \/ Reap \/ WatcherLeaves
  PROVE  IInv'
<1> USE DEF IInv, ScriptTypeOK, BudgetAddsUp, NothingIsLost, LaunchesOnce, LaterIsWhole,
            RunWasWhole, PassedCheckRun, Amounts, Streams, Refused, HoldsPipes,
            logs, process, files, KillGroup
<1>1. ASSUME NEW s \in Streams, OnLimit(s) PROVE IInv'
  BY <1>1 DEF OnLimit
<1>2. ASSUME NEW s \in Streams, CopierEnds(s) PROVE IInv'
  BY <1>2 DEF CopierEnds
<1>3. CASE WatcherKills
  BY <1>3 DEF WatcherKills
<1>4. CASE Reap
  BY <1>4 DEF Reap
<1>5. CASE WatcherLeaves
  BY <1>5 DEF WatcherLeaves
<1> QED
  BY <1>1, <1>2, <1>3, <1>4, <1>5

LEMMA StepHolds == IInv /\ [ScriptNext]_scriptVars => IInv'
<1> SUFFICES ASSUME IInv, [ScriptNext]_scriptVars PROVE IInv'
  OBVIOUS
<1>1. CASE UNCHANGED scriptVars
  BY <1>1
  DEF scriptVars, IInv, ScriptTypeOK, BudgetAddsUp, NothingIsLost, LaunchesOnce, LaterIsWhole,
      RunWasWhole, PassedCheckRun, Refused, HoldsPipes
<1>2. CASE ScriptNext
  BY <1>2, StageStep, ScriptStep, CopyStep, ExecStep DEF ScriptNext
<1> QED
  BY <1>1, <1>2

\* The states of one Execute are the ones its control allows, whatever the
\* budget, the output and the evidence.
THEOREM TypeCorrect == ScriptSpec => []ScriptTypeOK
<1>1. IInv => ScriptTypeOK
  BY DEF IInv
<1> QED
  BY InitHolds, StepHolds, <1>1, PTL DEF ScriptSpec

\* Whatever the script writes, forks or spoils and whenever the run is
\* cancelled: a result is stored only of a run whose logs are whole, fit the
\* budget and were cut by no kill.
THEOREM StoredRunsAreWhole == ScriptSpec => []StoredRunIsWhole
<1>1. IInv => StoredRunIsWhole
  BY DEF IInv, ScriptTypeOK, BudgetAddsUp, NothingIsLost, LaterIsWhole, RunWasWhole,
         StoredRunIsWhole, Streams, Written, Refused, Amounts
<1> QED
  BY InitHolds, StepHolds, <1>1, PTL DEF ScriptSpec
-----------------------------------------------------------------------------
(* What the adapters conclude.                                             *)

\* What VerdictIsEarned says of one record.
Justified(r) ==
  /\ r.result.verdict = "failed" <=> HasProblem(r)
  /\ r.result.verdict # "failed" => (r.result.verdict = "passed" <=> HasSubject(r))
  /\ r.check = "race" /\ r.evidence.packages # {} =>
       \A p \in r.evidence.races \cup (IF r.exit = 0 THEN {} ELSE FailedPackages(r.evidence)) :
         \E f \in r.result.findings : f.where = p

Adapted(r) ==
  /\ r.check \in Checks /\ r.evidence \in Evidence[r.check]
  /\ r.result = Adapt(r.check, r.evidence, r.exit) /\ r.result # Broken

LEMMA StaticIsJustified ==
  ASSUME NEW r, Adapted(r), r.check = "static-analysis"
  PROVE  Justified(r)
  <1> DEFINE e == r.evidence
             found == IF r.exit # 0 /\ VetFindings(e) = {} THEN PackageFindings(e) ELSE VetFindings(e)
             verdict == IF e.packages = {} /\ r.exit = 0 THEN "not-applicable"
                        ELSE IF found # {} THEN "failed" ELSE "passed"
  <1>1. /\ r.result = Result(verdict, {}, found)
        /\ r.exit # 0 => found # {}
        /\ ValidStatic(Result(verdict, {}, found))
    BY DEF Adapted, Adapt, AdaptStatic
  <1>2. VetFindings(e) # {} <=> e.vet = "json" /\ e.diagnostics # {}
    BY DEF VetFindings
  <1>3. r.result.verdict = verdict
    BY <1>1 DEF Result
  <1>4. verdict = "failed" <=> found # {}
    BY <1>1 DEF ValidStatic, Result
  <1>5. verdict = "failed" <=> HasProblem(r)
    BY <1>1, <1>2, <1>4 DEF HasProblem
  <1>6. verdict # "failed" => (verdict = "passed" <=> HasSubject(r))
    BY <1>1, <1>4 DEF HasSubject
  <1> HIDE DEF verdict
  <1>7. QED
    BY <1>3, <1>5, <1>6 DEF Justified

LEMMA CoverageIsJustified ==
  ASSUME NEW r, Adapted(r), r.check = "coverage"
  PROVE  Justified(r)
  <1> DEFINE e == r.evidence
             p == Measured(e.profile)
             testFailed == r.exit # 0 /\ e.failed # {}
             low == 100 * p.covered < Threshold * p.all
  <1>1. p.covered \in Nat /\ p.all \in Nat /\ Threshold \in Nat
    BY EvidenceAssumption, ChecksAssumption DEF Adapted
  <1>2. r.result = IF testFailed THEN Result("failed", {}, {Finding("test", "")}) ELSE CoverageOf(e)
    BY DEF Adapted, Adapt, AdaptCoverage
  <1>3. /\ testFailed => r.result.verdict = "failed"
        /\ ~ testFailed /\ p.all = 0 => r.result.verdict = "not-applicable"
        /\ ~ testFailed /\ p.all # 0 /\ low => r.result.verdict = "failed"
        /\ ~ testFailed /\ p.all # 0 /\ ~ low => r.result.verdict = "passed"
    <2>1. CASE testFailed
      <3> DEFINE found == {Finding("test", "")}
      <3>1. r.result = Result("failed", {}, found)
        BY <1>2, <2>1
      <3> HIDE DEF found
      <3>2. QED
        BY <2>1, <3>1 DEF Result
    <2>2. CASE ~ testFailed /\ p.all = 0
      <3>1. r.result = Result("not-applicable", {}, {})
        BY <1>2, <2>2 DEF CoverageOf
      <3>2. QED
        BY <2>2, <3>1 DEF Result
    <2>3. CASE ~ testFailed /\ p.all # 0 /\ low
      <3> DEFINE found == {Finding("below", "")}
      <3>1. r.result = Result("failed", {p}, found)
        BY <1>2, <2>3 DEF CoverageOf
      <3> HIDE DEF found
      <3>2. QED
        BY <2>3, <3>1 DEF Result
    <2>4. CASE ~ testFailed /\ p.all # 0 /\ ~ low
      <3>1. r.result = Result("passed", {p}, {})
        BY <1>2, <2>4 DEF CoverageOf
      <3>2. QED
        BY <2>4, <3>1 DEF Result
    <2> HIDE DEF testFailed, low
    <2>5. QED
      BY <2>1, <2>2, <2>3, <2>4
  <1>4. p.all = 0 => ~ low
    BY <1>1
  <1>5. HasProblem(r) <=> testFailed \/ low
    BY DEF HasProblem
  <1>6. HasSubject(r) <=> p.all # 0
    BY <1>1 DEF HasSubject
  <1> HIDE DEF testFailed, low, p
  <1>7. QED
    BY <1>3, <1>4, <1>5, <1>6 DEF Justified

LEMMA RaceIsJustified ==
  ASSUME NEW r, Adapted(r), r.check = "race"
  PROVE  Justified(r)
  <1> DEFINE e == r.evidence
             verdict == RaceVerdict(e, r.exit)
             count == IF verdict = "not-applicable" THEN {} ELSE {Cardinality(e.races)}
             found == {Finding("observed", p) : p \in e.races} \cup RaceFailures(e, r.exit)
  <1>1. r.result = Result(verdict, count, found) /\ ValidRace(Result(verdict, count, found))
    BY DEF Adapted, Adapt, AdaptRace
  <1>2. r.result.verdict = verdict /\ r.result.findings = found
    BY <1>1 DEF Result
  <1>3. verdict = "not-applicable" => found = {}
    BY <1>1 DEF ValidRace, Result
  <1>4. verdict = "not-applicable" => e.races = {}
    BY <1>3
  <1>5. verdict = "failed" <=> HasProblem(r)
    BY <1>4 DEF RaceVerdict, HasProblem
  <1>6. verdict # "failed" => (verdict = "passed" <=> HasSubject(r))
    BY <1>5 DEF RaceVerdict, HasProblem, HasSubject
  <1>7. ASSUME e.packages # {},
               NEW p \in e.races \cup (IF r.exit = 0 THEN {} ELSE FailedPackages(e))
        PROVE  \E f \in found : f.where = p
    <2>1. CASE p \in e.races
      <3>1. Finding("observed", p) \in found /\ Finding("observed", p).where = p
        BY <2>1 DEF Finding
      <3>2. QED
        BY <3>1
    <2>2. CASE p \notin e.races
      <3> DEFINE kind == IF p \in e.ran THEN "test-failure" ELSE "compile-failure"
      <3>1. p \in FailedPackages(e) \ e.races /\ r.exit # 0
        BY <1>7, <2>2
      <3>2. Finding(kind, p) \in RaceFailures(e, r.exit)
        BY <1>7, <3>1 DEF RaceFailures
      <3>3. Finding(kind, p) \in found /\ Finding(kind, p).where = p
        BY <3>2 DEF Finding
      <3>4. QED
        BY <3>3
    <2>3. QED
      BY <2>1, <2>2
  <1> HIDE DEF verdict, found
  <1>8. QED
    BY <1>2, <1>5, <1>6, <1>7 DEF Justified

LEMMA ComplexityIsJustified ==
  ASSUME NEW r, Adapted(r), r.check = "complexity"
  PROVE  Justified(r)
  <1> DEFINE e == r.evidence
             fs == {f \in e.functions : IsSelected(f)}
             wrong == {y \in e.errors : IsSelected(y)}
             found == {Finding("syntax-error", x.name) : x \in wrong}
                        \cup {Finding("complexity-threshold", f.name) : f \in Over(fs)}
             verdict == IF found # {} THEN "failed" ELSE IF fs = {} THEN "not-applicable" ELSE "passed"
             highest == IF fs = {} THEN {} ELSE {Max({f.complexity : f \in fs})}
  <1>1. r.result = Result(verdict, highest, found)
    BY DEF Adapted, Adapt, AdaptComplexity
  <1>2. r.result.verdict = verdict
    BY <1>1 DEF Result
  <1>3. e.functions \cap e.errors = {}
    BY EvidenceAssumption DEF Adapted
  <1>4. found # {} <=> wrong # {} \/ Over(fs) # {}
    OBVIOUS
  <1>5. HasProblem(r) <=> wrong # {} \/ Over(fs) # {}
    BY <1>3 DEF HasProblem, Over
  <1>6. HasSubject(r) <=> fs # {}
    BY DEF HasSubject
  <1> HIDE DEF found, fs, wrong
  <1>7. QED
    BY <1>2, <1>4, <1>5, <1>6 DEF Justified

LEMMA AdaptedIsJustified ==
  ASSUME NEW r, Adapted(r)
  PROVE  Justified(r)
  BY StaticIsJustified, CoverageIsJustified, RaceIsJustified, ComplexityIsJustified
  DEF Adapted, Checks

\* From the adapter on the record is what the adapter made of the evidence.
RecordInv == pc \in {"adapted", "storing"} \/ outcome = "stored" => Adapted(record)

LEMMA RecordStep ==
  ASSUME IInv, RecordInv, [ScriptNext]_scriptVars
  PROVE  RecordInv'
  <1>1. outcome = "stored" => pc = "done"
    BY DEF IInv, LaterIsWhole
  <1>2. CASE AdaptResult
    <2>1. PICK check \in Checks : \E e \in Evidence[check] :
            LET result == Adapt(check, e, exit) IN
            \/ result = Broken /\ Returns("structural") /\ UNCHANGED record
            \/ /\ result # Broken
               /\ record' = [check |-> check, evidence |-> e, exit |-> exit, result |-> result]
      BY <1>2 DEF AdaptResult
    <2>2. PICK e \in Evidence[check] :
            \/ Returns("structural")
            \/ /\ Adapt(check, e, exit) # Broken
               /\ record' = [check |-> check, evidence |-> e, exit |-> exit,
                             result |-> Adapt(check, e, exit)]
      BY <2>1
    <2>3. CASE Returns("structural")
      BY <2>3 DEF Returns, RecordInv
    <2>4. CASE record' = [check |-> check, evidence |-> e, exit |-> exit,
                          result |-> Adapt(check, e, exit)] /\ Adapt(check, e, exit) # Broken
      <3>1. Adapted(record')
        BY <2>4 DEF Adapted
      <3>2. QED
        BY <3>1 DEF RecordInv, Adapted
    <2>5. QED
      BY <2>2, <2>3, <2>4
  <1>3. CASE ~ AdaptResult
    <2>1. record' = record
      BY <1>3 DEF ScriptNext, scriptVars, Preflight, Launch, ScriptWrites, Copy, OnLimit,
         CopierEnds, ScriptForks, ScriptWritesFiles, ShellExits, ChildExits, Cancel, WatcherKills,
         Reap, WatcherLeaves, CheckRun, CheckBundle, CheckOutputs, Store
    <2>2. pc' \in {"adapted", "storing"} \/ outcome' = "stored" =>
            pc \in {"adapted", "storing"} \/ outcome = "stored"
      BY <1>1, <1>3 DEF ScriptNext, scriptVars, Preflight, Launch, ScriptWrites, Copy, OnLimit,
         CopierEnds, ScriptForks, ScriptWritesFiles, ShellExits, ChildExits, Cancel, WatcherKills,
         Reap, WatcherLeaves, CheckRun, CheckBundle, CheckOutputs, Store, Returns
    <2>3. QED
      BY <2>1, <2>2 DEF RecordInv, Adapted
  <1>4. QED
    BY <1>2, <1>3

\* A stored verdict is the one its evidence calls for, for any evidence that the scripts of
\* the four checks may leave.
THEOREM VerdictsAreEarned == ScriptSpec => []VerdictIsEarned
  <1>1. ScriptInit => RecordInv
    BY DEF ScriptInit, RecordInv
  <1>2. RecordInv => VerdictIsEarned
    BY AdaptedIsJustified DEF RecordInv, VerdictIsEarned, Justified
  <1>3. QED
    BY InitHolds, StepHolds, RecordStep, <1>1, <1>2, PTL DEF ScriptSpec
-----------------------------------------------------------------------------
(* HumanGateway: one dialog.                                               *)

Undecided(line) == line \notin {"blank", "spaces", "a", "r", "rx"}

\* Where a dialog stands after these lines, as long as nobody else read any of them.
Dialog(kind, stage, content, response, lines) ==
  \/ stage \in {"none", "failed"}
  \/ stage = "done" /\ response = Meant(kind, lines)
  \/ kind = "approval" /\ stage = "choice" /\ \A i \in 1..Len(lines) : Undecided(lines[i])
  \/ /\ kind = "approval" /\ stage = "advise"
     /\ Len(lines) > 0 /\ lines[Len(lines)] = "r"
     /\ \A i \in 1..Len(lines) - 1 : Undecided(lines[i])
  \/ /\ kind = "input" /\ stage = "lines"
     /\ content = lines /\ \A i \in 1..Len(lines) : lines[i] # "blank"
  \/ /\ kind = "input" /\ stage = "decision"
     /\ \E k \in 1..Len(lines) :
          /\ lines[k] = "blank" /\ \A i \in 1..k - 1 : lines[i] # "blank"
          /\ content = SubSeq(lines, 1, k - 1)
  \/ kind = "advise-retry" /\ stage = "advice" /\ lines = <<>>

\* The first line of its kind is what SelectInSeq finds.
LEMMA FirstIsMin ==
  ASSUME NEW S, S \subseteq Nat, NEW k \in S, \A i \in S : k <= i
  PROVE  Min(S) = k
  <1>1. \A x \in S : (\A y \in S : x =< y) => x = k
    OBVIOUS
  <1>2. QED
    BY <1>1 DEF Min

LEMMA Appended ==
  ASSUME NEW lines \in Seq(Lines), NEW text \in Lines
  PROVE  LET longer == Append(lines, text) IN
         /\ longer \in Seq(Lines) /\ Len(longer) = Len(lines) + 1
         /\ longer[Len(longer)] = text /\ Last(longer) = text
         /\ \A i \in 1..Len(lines) : longer[i] = lines[i]
         /\ \A k \in 1..Len(lines) : SubSeq(longer, 1, k - 1) = SubSeq(lines, 1, k - 1)
         /\ SubSeq(longer, 1, Len(lines)) = lines
  <1> DEFINE longer == Append(lines, text)
  <1>1. /\ longer \in Seq(Lines) /\ Len(longer) = Len(lines) + 1
        /\ \A i \in 1..Len(lines) : longer[i] = lines[i]
        /\ longer[Len(lines) + 1] = text
    OBVIOUS
  <1>2. Last(longer) = text
    BY <1>1 DEF Last
  <1>3. ASSUME NEW k \in 0..Len(lines)
        PROVE  SubSeq(longer, 1, k) = SubSeq(lines, 1, k)
    <2>1. /\ SubSeq(longer, 1, k) \in Seq(Lines) /\ SubSeq(lines, 1, k) \in Seq(Lines)
          /\ Len(SubSeq(longer, 1, k)) = k /\ Len(SubSeq(lines, 1, k)) = k
          /\ \A i \in 1..k : SubSeq(longer, 1, k)[i] = longer[i] /\ SubSeq(lines, 1, k)[i] = lines[i]
      BY <1>1, SubSeqProperties
    <2>2. \A i \in 1..k : SubSeq(longer, 1, k)[i] = SubSeq(lines, 1, k)[i]
      BY <1>1, <2>1
    <2>3. QED
      BY <2>1, <2>2, SeqEqual
  <1>4. SubSeq(lines, 1, Len(lines)) = lines
    OBVIOUS
  <1> HIDE DEF longer
  <1>5. QED
    BY <1>1, <1>2, <1>3, <1>4 DEF longer

\* What an approval was meant to be is settled by the first decisive line.
LEMMA ApprovalSettled ==
  ASSUME NEW lines \in Seq(Lines), NEW k \in 1..Len(lines), ~ Undecided(lines[k]),
         \A i \in 1..k - 1 : Undecided(lines[i])
  PROVE  ApprovalMeant(lines) =
           CASE lines[k] \in {"blank", "spaces", "a"} -> Approved
             [] lines[k] = "rx"       -> Rejected("x")
             [] lines[k] = "r"         -> Rejected(Last(lines))
  <1> DEFINE I == {i \in 1..Len(lines) : lines[i] \in {"blank", "spaces", "a", "r", "rx"}}
  <1>1. I \subseteq Nat /\ k \in I /\ \A i \in I : k <= i
    BY DEF Undecided
  <1>2. SelectInSeq(lines, LAMBDA l : l \in {"blank", "spaces", "a", "r", "rx"}) = IF I # {} THEN Min(I) ELSE 0
    BY DEF SelectInSeq
  <1>3. Min(I) = k
    BY <1>1, FirstIsMin
  <1>4. SelectInSeq(lines, LAMBDA l : l \in {"blank", "spaces", "a", "r", "rx"}) = k
    BY <1>1, <1>2, <1>3
  <1>5. QED
    BY <1>4 DEF ApprovalMeant

LEMMA InputSettled ==
  ASSUME NEW lines \in Seq(Lines), NEW k \in 1..Len(lines), lines[k] = "blank",
         \A i \in 1..k - 1 : lines[i] # "blank"
  PROVE  InputMeant(lines) = Input(SubSeq(lines, 1, k - 1), Last(lines) # "c")
  <1> DEFINE I == {i \in 1..Len(lines) : lines[i] = "blank"}
  <1>1. I \subseteq Nat /\ k \in I /\ \A i \in I : k <= i
    OBVIOUS
  <1>2. SelectInSeq(lines, LAMBDA l : l = "blank") = IF I # {} THEN Min(I) ELSE 0
    BY DEF SelectInSeq
  <1>3. Min(I) = k
    BY <1>1, FirstIsMin
  <1>4. SelectInSeq(lines, LAMBDA l : l = "blank") = k
    BY <1>1, <1>2, <1>3
  <1>5. QED
    BY <1>4 DEF InputMeant

\* What the goroutine makes of a line, and what it has read of the content after it.
Hears(kind, stage, content, text) ==
  CASE kind = "input"        -> InputRound(stage, text, content)
    [] kind = "approval"     -> Approval(stage, text)
    [] kind = "advise-retry" -> Ends(Advice(text))

Content(stage, content, text, step) ==
  IF step.stage = "done" THEN <<>>
  ELSE IF stage = "lines" /\ text # "blank" THEN Append(content, text) ELSE content

LEMMA StepFields ==
  /\ \A s : On(s).stage = s
  /\ \A x : Ends(x).stage = "done" /\ Ends(x).answer = x
  BY DEF On, Ends

LEMMA ApprovalHears ==
  ASSUME NEW stage \in Stages, NEW content, NEW response, NEW lines \in Seq(Lines),
         NEW text \in Lines, Dialog("approval", stage, content, response, lines)
  PROVE  LET step == Approval(stage, text) IN
         Dialog("approval", step.stage, Content(stage, content, text, step), step.answer,
                Append(lines, text))
  <1> DEFINE step == Approval(stage, text)
             longer == Append(lines, text)
             after == Content(stage, content, text, step)
  <1>1. /\ longer \in Seq(Lines) /\ Len(longer) = Len(lines) + 1
        /\ longer[Len(longer)] = text /\ Last(longer) = text
        /\ \A i \in 1..Len(lines) : longer[i] = lines[i]
        /\ Len(lines) \in Nat
    BY Appended
  <1> HIDE DEF longer, after
  <1>2. \/ stage = "choice" /\ \A i \in 1..Len(lines) : Undecided(lines[i])
        \/ /\ stage = "advise"
           /\ Len(lines) > 0 /\ lines[Len(lines)] = "r"
           /\ \A i \in 1..Len(lines) - 1 : Undecided(lines[i])
    BY DEF Dialog, Stages
  <1>3. CASE stage = "advise"
    <2>1. step = Ends(Rejected(text))
      BY <1>3 DEF Approval
    <2>2. longer[Len(lines)] = "r" /\ \A i \in 1..Len(lines) - 1 : Undecided(longer[i])
      BY <1>1, <1>2, <1>3
    <2>3. ApprovalMeant(longer) =
            CASE longer[Len(lines)] \in {"blank", "spaces", "a"} -> Approved
              [] longer[Len(lines)] = "rx"             -> Rejected("x")
              [] longer[Len(lines)] = "r"              -> Rejected(Last(longer))
      <3>1. Len(lines) \in 1..Len(longer) /\ ~ Undecided(longer[Len(lines)])
        BY <1>1, <1>2, <1>3, <2>2 DEF Undecided
      <3>2. QED
        BY <1>1, <2>2, <3>1, ApprovalSettled
    <2>4. ApprovalMeant(longer) = Rejected(text)
      BY <1>1, <2>2, <2>3
    <2> HIDE DEF step
    <2>5. step.stage = "done" /\ step.answer = Meant("approval", longer)
      BY <2>1, <2>4, StepFields DEF Meant
    <2>6. QED
      BY <2>5 DEF Dialog, longer, after, step
  <1>4. CASE stage = "choice" /\ ~ Undecided(text)
    <2>1. \A i \in 1..Len(lines) : Undecided(longer[i])
      BY <1>1, <1>2, <1>4
    <2>2. ApprovalMeant(longer) =
            CASE longer[Len(longer)] \in {"blank", "spaces", "a"} -> Approved
              [] longer[Len(longer)] = "rx"             -> Rejected("x")
              [] longer[Len(longer)] = "r"              -> Rejected(Last(longer))
      <3>1. /\ Len(longer) \in 1..Len(longer) /\ ~ Undecided(longer[Len(longer)])
            /\ \A i \in 1..Len(longer) - 1 : Undecided(longer[i])
        BY <1>1, <1>4, <2>1
      <3>2. QED
        BY <1>1, <3>1, ApprovalSettled
    <2>3. CASE text = "r"
      <3>1. step = On("advise")
        BY <1>4, <2>3 DEF Approval, Trimmed
      <3> HIDE DEF step
      <3>2. step.stage = "advise"
        BY <3>1, StepFields
      <3>3. /\ Len(longer) > 0 /\ longer[Len(longer)] = "r"
            /\ \A i \in 1..Len(longer) - 1 : Undecided(longer[i])
        BY <1>1, <2>1, <2>3
      <3>4. QED
        BY <3>2, <3>3 DEF Dialog, longer, after, step
    <2>4. CASE text # "r"
      <3>1. step = Ends(ApprovalMeant(longer))
        <4>1. CASE text = "rx"
          BY <1>1, <1>4, <2>2, <4>1 DEF Approval, Trimmed
        <4>2. CASE text \in {"blank", "spaces", "a"}
          BY <1>1, <1>4, <2>2, <4>2 DEF Approval, Trimmed
        <4>3. QED
          BY <1>4, <2>4, <4>1, <4>2 DEF Undecided
      <3> HIDE DEF step
      <3>2. step.stage = "done" /\ step.answer = Meant("approval", longer)
        BY <3>1, StepFields DEF Meant
      <3>3. QED
        BY <3>2 DEF Dialog, longer, after, step
    <2>5. QED
      BY <2>3, <2>4
  <1>5. CASE stage = "choice" /\ Undecided(text)
    <2>1. step = On("choice")
      BY <1>5 DEF Approval, Undecided, Trimmed
    <2> HIDE DEF step
    <2>2. step.stage = "choice"
      BY <2>1, StepFields
    <2>3. \A i \in 1..Len(longer) : Undecided(longer[i])
      BY <1>1, <1>2, <1>5
    <2>4. QED
      BY <2>2, <2>3 DEF Dialog, longer, after, step
  <1>6. QED
    BY <1>2, <1>3, <1>4, <1>5

LEMMA InputHears ==
  ASSUME NEW stage \in Stages, NEW content, NEW response, NEW lines \in Seq(Lines),
         NEW text \in Lines, Dialog("input", stage, content, response, lines)
  PROVE  LET step == InputRound(stage, text, content) IN
         Dialog("input", step.stage, Content(stage, content, text, step), step.answer,
                Append(lines, text))
  <1> DEFINE step == InputRound(stage, text, content)
             longer == Append(lines, text)
             after == Content(stage, content, text, step)
  <1>1. /\ longer \in Seq(Lines) /\ Len(longer) = Len(lines) + 1
        /\ longer[Len(longer)] = text /\ Last(longer) = text
        /\ \A i \in 1..Len(lines) : longer[i] = lines[i]
        /\ \A k \in 1..Len(lines) : SubSeq(longer, 1, k - 1) = SubSeq(lines, 1, k - 1)
        /\ SubSeq(longer, 1, Len(lines)) = lines
        /\ Len(lines) \in Nat
    BY Appended
  <1>2. CASE stage = "lines"
    <2>1. content = lines /\ \A i \in 1..Len(lines) : lines[i] # "blank"
      BY <1>2 DEF Dialog, Stages
    <2>2. CASE text = "blank"
      <3>1. step.stage = "decision"
        BY <1>2, <2>2 DEF InputRound, On
      <3>2. after = lines
        BY <2>1, <2>2, <3>1 DEF Content
      <3> HIDE DEF longer, after, step
      <3>3. /\ Len(longer) \in 1..Len(longer) /\ longer[Len(longer)] = "blank"
            /\ \A i \in 1..Len(longer) - 1 : longer[i] # "blank"
            /\ after = SubSeq(longer, 1, Len(longer) - 1)
        BY <1>1, <2>1, <2>2, <3>2
      <3>4. QED
        BY <3>1, <3>3 DEF Dialog, longer, after, step
    <2>3. CASE text # "blank"
      <3>1. step.stage = "lines"
        BY <1>2, <2>3 DEF InputRound, On
      <3>2. after = longer
        BY <1>2, <2>1, <2>3, <3>1 DEF Content
      <3> HIDE DEF longer, after, step
      <3>3. \A i \in 1..Len(longer) : longer[i] # "blank"
        BY <1>1, <2>1, <2>3
      <3>4. QED
        BY <3>1, <3>2, <3>3 DEF Dialog, longer, after, step
    <2>4. QED
      BY <2>2, <2>3
  <1>3. CASE stage = "decision"
    <2>1. PICK k \in 1..Len(lines) :
            /\ lines[k] = "blank" /\ \A i \in 1..k - 1 : lines[i] # "blank"
            /\ content = SubSeq(lines, 1, k - 1)
      BY <1>3 DEF Dialog, Stages
    <2>2. /\ k \in 1..Len(longer) /\ longer[k] = "blank"
          /\ \A i \in 1..k - 1 : longer[i] # "blank"
          /\ content = SubSeq(longer, 1, k - 1)
      BY <1>1, <2>1
    <2>3. CASE text \in {"c", "blank", "spaces", "f"}
      <3>1. step = Ends(Input(content, text # "c"))
        <4>1. CASE text = "c"
          BY <1>3, <4>1 DEF InputRound, Trimmed
        <4>2. CASE text \in {"blank", "spaces", "f"}
          BY <1>3, <4>2 DEF InputRound, Trimmed
        <4>3. QED
          BY <2>3, <4>1, <4>2
      <3>2. InputMeant(longer) = Input(SubSeq(longer, 1, k - 1), Last(longer) # "c")
        BY <1>1, <2>2, InputSettled
      <3> HIDE DEF longer, after, step
      <3>3. step.stage = "done" /\ step.answer = Meant("input", longer)
        BY <1>1, <2>2, <3>1, <3>2, StepFields DEF Meant
      <3>4. QED
        BY <3>3 DEF Dialog, longer, after, step
    <2>4. CASE text \notin {"c", "blank", "spaces", "f"}
      <3>1. step.stage = "decision"
        BY <1>3, <2>4 DEF InputRound, On, Trimmed
      <3>2. after = content
        BY <1>3, <3>1 DEF Content
      <3> HIDE DEF longer, after, step
      <3>3. QED
        BY <2>2, <3>1, <3>2 DEF Dialog, longer, after, step
    <2>5. QED
      BY <2>3, <2>4
  <1>4. stage \in {"lines", "decision"}
    BY DEF Dialog, Stages
  <1>5. QED
    BY <1>2, <1>3, <1>4

\* A line that is read takes the dialog one line further.
LEMMA DialogGoesOn ==
  ASSUME NEW kind \in Kinds, NEW stage \in Stages, NEW content, NEW response,
         NEW lines \in Seq(Lines), NEW text \in Lines,
         Dialog(kind, stage, content, response, lines)
  PROVE  LET step == Hears(kind, stage, content, text) IN
         Dialog(kind, step.stage, Content(stage, content, text, step), step.answer,
                Append(lines, text))
  <1>1. CASE kind = "approval"
    BY <1>1, ApprovalHears DEF Hears
  <1>2. CASE kind = "input"
    BY <1>2, InputHears DEF Hears
  <1>3. CASE kind = "advise-retry"
    <2> DEFINE step == Hears(kind, stage, content, text)
               longer == Append(lines, text)
    <2>1. lines = <<>>
      BY <1>3 DEF Dialog, Stages
    <2>2. longer[1] = text
      BY <2>1
    <2>3. step.stage = "done" /\ step.answer = Advice(text)
      BY <1>3 DEF Hears, Ends
    <2>4. Meant(kind, longer) = Advice(longer[1])
      BY <1>3 DEF Meant
    <2> HIDE DEF step, longer
    <2>5. QED
      BY <2>2, <2>3, <2>4 DEF Dialog, step, longer
  <1>4. QED
    BY <1>1, <1>2, <1>3 DEF Kinds
-----------------------------------------------------------------------------
(* HumanGateway: the inductive invariant.                                  *)

\* What was typed to answer r, without the line that is still to be read.
LinesOf(r) ==
  IF \E line \in typed : line.to = r THEN SubSeq(said[r], 1, Len(said[r]) - 1) ELSE said[r]

\* A request that was made is of a kind; until then there is nothing of it.
RequestInv(r) ==
  /\ request[r] = "none" => reader[r] = "none" /\ said[r] = <<>> /\ taken[r] = <<>>
  /\ request[r] # "none" => asked[r] \in Kinds
  /\ request[r] = "answered" => reader[r] = "done"

TalkInv(r) == Dialog(asked[r], reader[r], taken[r], answer[r], LinesOf(r))

\* As long as no two goroutines read at the same time: one goroutine reads, the line that is
\* typed is the last of what was typed for it, and every dialog stands where its own lines
\* have taken it.
LoneInv ==
  ~ shared =>
    /\ \A r, s \in Reading : r = s
    /\ \A line \in typed :
         /\ line.to \in Reading
         /\ Len(said[line.to]) > 0 /\ line.text = said[line.to][Len(said[line.to])]
    /\ \A r \in Requests : TalkInv(r)

GatewayInv ==
  /\ DOMAIN request = Requests /\ DOMAIN asked = Requests /\ DOMAIN reader = Requests
  /\ DOMAIN taken = Requests /\ DOMAIN answer = Requests
  /\ said \in [Requests -> Seq(Lines)]
  /\ \A line \in typed : line.to \in Requests /\ line.text \in Lines
  /\ \A r \in Requests : RequestInv(r)
  /\ LoneInv

LEMMA GatewayInitHolds == GatewayInit => GatewayInv
  <1>1. SUFFICES ASSUME GatewayInit PROVE GatewayInv
    OBVIOUS
  <1>2. said \in [Requests -> Seq(Lines)]
    BY <1>1 DEF GatewayInit
  <1>3. \A r \in Requests : RequestInv(r)
    BY <1>1 DEF GatewayInit, RequestInv
  <1>4. Reading = {} /\ typed = {}
    BY <1>1 DEF GatewayInit, Reading, Stages
  <1>5. \A r \in Requests : TalkInv(r)
    BY <1>1 DEF GatewayInit, TalkInv, Dialog
  <1>6. QED
    BY <1>1, <1>2, <1>3, <1>4, <1>5 DEF GatewayInit, GatewayInv, LoneInv

LEMMA RequestRoundStep ==
  ASSUME GatewayInv, NEW r \in Requests, RequestRound(r)
  PROVE  GatewayInv'
  <1>0. PICK kind \in Asks[r] : \E stage \in Prompted(FirstStage(kind)) :
          /\ asked' = [asked EXCEPT ![r] = kind] /\ reader' = [reader EXCEPT ![r] = stage]
          /\ shared' = (shared \/ (stage # "failed" /\ Reading # {}))
    BY DEF RequestRound
  <1>1. PICK stage \in Prompted(FirstStage(kind)) :
          /\ asked' = [asked EXCEPT ![r] = kind] /\ reader' = [reader EXCEPT ![r] = stage]
          /\ shared' = (shared \/ (stage # "failed" /\ Reading # {}))
    BY <1>0
  <1>2. kind \in Kinds
    BY <1>1, GatewayAssumption
  <1>3. /\ request[r] = "none" /\ request' = [request EXCEPT ![r] = "open"]
        /\ UNCHANGED <<taken, answer, typed, said>>
    BY DEF RequestRound
  <1>4. \A q \in Requests : RequestInv(q)'
    BY <1>1, <1>2, <1>3 DEF GatewayInv, RequestInv
  <1>5. LoneInv'
    <2>1. SUFFICES ASSUME ~ shared' PROVE LoneInv'
      BY DEF LoneInv
    <2>2. /\ ~ shared /\ \A p, q \in Reading : p = q
          /\ \A line \in typed : line.to \in Reading
          /\ \A line \in typed : Len(said[line.to]) > 0 /\ line.text = said[line.to][Len(said[line.to])]
          /\ \A q \in Requests : TalkInv(q)
      BY <1>1, <2>1 DEF GatewayInv, LoneInv
    <2>3. r \notin Reading /\ (stage # "failed" => Reading = {})
      BY <1>1, <1>3, <2>1 DEF GatewayInv, RequestInv, Reading, Stages
    <2>4. \A q \in Requests : LinesOf(q)' = LinesOf(q)
      BY <1>3 DEF LinesOf
    <2>5. \A q \in Requests \ {r} : TalkInv(q)' /\ (q \in Reading' <=> q \in Reading)
      BY <1>1, <1>3, <2>2, <2>4 DEF GatewayInv, TalkInv, Reading
    <2>6. TalkInv(r)'
      <3>1. /\ LinesOf(r) = <<>> /\ taken'[r] = <<>>
            /\ asked'[r] = kind /\ reader'[r] = stage
        BY <1>1, <1>3, <2>2, <2>3 DEF GatewayInv, RequestInv, LinesOf
      <3>2. Dialog(kind, stage, <<>>, answer'[r], <<>>)
        BY <1>1, <1>2 DEF Kinds, FirstStage, Prompted, Dialog
      <3>3. QED
        BY <2>4, <3>1, <3>2 DEF TalkInv
    <2>7. \A p, q \in Reading' : p = q
      <3>1. CASE stage = "failed"
        <4>1. r \notin Reading'
          BY <1>1, <3>1 DEF GatewayInv, Reading, Stages
        <4>2. QED
          BY <2>2, <2>5, <4>1 DEF Reading
      <3>2. CASE stage # "failed"
        BY <2>3, <2>5, <3>2 DEF Reading
      <3>3. QED
        BY <3>1, <3>2
    <2>8. \A line \in typed' :
            /\ line.to \in Reading'
            /\ Len(said'[line.to]) > 0 /\ line.text = said'[line.to][Len(said'[line.to])]
      BY <1>3, <2>2, <2>3, <2>5 DEF GatewayInv
    <2>9. QED
      BY <2>5, <2>6, <2>7, <2>8 DEF LoneInv
  <1>6. QED
    BY <1>1, <1>3, <1>4, <1>5 DEF GatewayInv

LEMMA TypesStep ==
  ASSUME GatewayInv, NEW r \in Requests, Types(r)
  PROVE  GatewayInv'
  <1>1. PICK text \in Typing[asked[r]] :
          /\ typed' = {[to |-> r, text |-> text]}
          /\ said' = [said EXCEPT ![r] = Append(said[r], text)]
    BY DEF Types
  <1>2. /\ request[r] = "open" /\ r \in Reading /\ typed = {}
        /\ UNCHANGED <<request, asked, reader, taken, answer, shared>>
        /\ asked[r] \in Kinds
    BY DEF Types, GatewayInv, RequestInv
  <1>3. text \in Lines
    BY <1>1, <1>2, GatewayAssumption
  <1>4. /\ said[r] \in Seq(Lines) /\ said' \in [Requests -> Seq(Lines)]
        /\ said'[r] = Append(said[r], text)
        /\ \A q \in Requests \ {r} : said'[q] = said[q]
    BY <1>1, <1>3 DEF GatewayInv
  <1>5. /\ Len(said'[r]) = Len(said[r]) + 1 /\ said'[r][Len(said'[r])] = text
        /\ SubSeq(said'[r], 1, Len(said[r])) = said[r] /\ Len(said[r]) \in Nat
    BY <1>3, <1>4, Appended
  <1>6. LinesOf(r)' = LinesOf(r)
    <2>1. LinesOf(r)' = SubSeq(said'[r], 1, Len(said'[r]) - 1)
      BY <1>1 DEF LinesOf
    <2>2. Len(said'[r]) - 1 = Len(said[r])
      BY <1>5
    <2>3. LinesOf(r) = said[r]
      BY <1>2 DEF LinesOf
    <2>4. QED
      BY <1>5, <2>1, <2>2, <2>3
  <1>7. \A q \in Requests \ {r} : LinesOf(q)' = LinesOf(q)
    BY <1>1, <1>2, <1>4 DEF LinesOf
  <1>8. \A q \in Requests : RequestInv(q)'
    BY <1>2, <1>4 DEF GatewayInv, RequestInv
  <1>9. LoneInv'
    <2>1. Reading' = Reading
      BY <1>2 DEF Reading
    <2>2. \A q \in Requests : TalkInv(q) => TalkInv(q)'
      BY <1>2, <1>6, <1>7 DEF TalkInv
    <2>3. QED
      BY <1>1, <1>2, <1>5, <2>1, <2>2 DEF GatewayInv, LoneInv
  <1>10. QED
    BY <1>1, <1>2, <1>3, <1>4, <1>8, <1>9 DEF GatewayInv

LEMMA ReadLineStep ==
  ASSUME GatewayInv, NEW r \in Requests, readLine(r)
  PROVE  GatewayInv'
  <1>1. PICK line \in typed : \E text \in MayGet(line) :
          LET step == Heard(r, text)
              next == IF step.stage \in {"choice", "advise", "decision"} THEN Prompted(step.stage)
                      ELSE {step.stage}
          IN
          /\ \E stage \in next : reader' = [reader EXCEPT ![r] = stage]
          /\ answer' = [answer EXCEPT ![r] = step.answer]
          /\ taken' = [taken EXCEPT ![r] = IF step.stage = "done" THEN <<>>
                         ELSE IF reader[r] = "lines" /\ text # "blank" THEN Append(@, text)
                         ELSE @]
    BY DEF readLine
  <1>2. PICK text \in MayGet(line) :
          LET step == Heard(r, text) IN
          /\ \E stage \in {step.stage, "failed"} : reader' = [reader EXCEPT ![r] = stage]
          /\ answer' = [answer EXCEPT ![r] = step.answer]
          /\ taken' = [taken EXCEPT ![r] = Content(reader[r], taken[r], text, step)]
    BY <1>1 DEF Content, Prompted
  <1> DEFINE step == Hears(asked[r], reader[r], taken[r], text)
  <1>3. Heard(r, text) = step
    BY DEF Heard, Hears
  <1>4. PICK stage \in {step.stage, "failed"} :
          /\ reader' = [reader EXCEPT ![r] = stage]
          /\ answer' = [answer EXCEPT ![r] = step.answer]
          /\ taken' = [taken EXCEPT ![r] = Content(reader[r], taken[r], text, step)]
    BY <1>2, <1>3
  <1>5. /\ r \in Reading /\ typed' = {}
        /\ UNCHANGED <<request, asked, said, shared>>
        /\ line.to \in Requests /\ line.text \in Lines
    BY DEF readLine, GatewayInv
  <1> HIDE DEF step
  <1>6. request[r] \notin {"none", "answered"} /\ asked[r] \in Kinds /\ reader[r] \in Stages
    BY <1>5 DEF GatewayInv, RequestInv, Reading, Stages
  <1>7. \A q \in Requests : RequestInv(q)'
    BY <1>4, <1>5, <1>6 DEF GatewayInv, RequestInv
  <1>8. LoneInv'
    <2>1. SUFFICES ASSUME ~ shared PROVE LoneInv'
      BY <1>5 DEF LoneInv
    <2>2. /\ \A p, q \in Reading : p = q
          /\ line.to = r /\ Len(said[r]) > 0 /\ line.text = said[r][Len(said[r])]
          /\ \A q \in Requests : TalkInv(q)
      BY <1>5, <2>1 DEF GatewayInv, LoneInv
    <2>3. text = line.text
      <3>1. Reading = {r}
        BY <1>5, <2>2
      <3>2. Cardinality(Reading) = 1
        BY <3>1, FS_Singleton
      <3>3. QED
        BY <3>2 DEF MayGet
    <2>4. /\ said[r] \in Seq(Lines) /\ Len(said[r]) \in Nat
          /\ LinesOf(r) = SubSeq(said[r], 1, Len(said[r]) - 1)
          /\ LinesOf(r)' = said[r]
      BY <1>5, <2>2 DEF GatewayInv, LinesOf
    <2>5. LinesOf(r) \in Seq(Lines) /\ said[r] = Append(LinesOf(r), text)
      <3> DEFINE n == Len(said[r])
                 front == SubSeq(said[r], 1, n - 1)
      <3>1. n \in Nat \ {0} /\ text = said[r][n] /\ text \in Lines
        BY <1>5, <2>2, <2>3, <2>4
      <3>2. /\ front \in Seq(Lines) /\ Len(front) = n - 1
            /\ \A i \in 1..n - 1 : front[i] = said[r][i]
        BY <2>4, <3>1, SubSeqProperties
      <3> HIDE DEF front
      <3>3. /\ Append(front, text) \in Seq(Lines) /\ Len(Append(front, text)) = n
            /\ \A i \in 1..n : Append(front, text)[i] = said[r][i]
        BY <3>1, <3>2
      <3>4. said[r] = Append(front, text)
        BY <2>4, <3>3, SeqEqual
      <3>5. QED
        BY <2>4, <3>2, <3>4 DEF front
    <2>6. TalkInv(r)'
      <3>1. Dialog(asked[r], reader[r], taken[r], answer[r], LinesOf(r))
        BY <2>2 DEF TalkInv
      <3>2. Dialog(asked[r], step.stage, Content(reader[r], taken[r], text, step), step.answer,
                   Append(LinesOf(r), text))
        BY <1>5, <1>6, <2>3, <2>5, <3>1, DialogGoesOn DEF step
      <3>3. /\ reader'[r] = stage /\ answer'[r] = step.answer /\ asked'[r] = asked[r]
            /\ taken'[r] = Content(reader[r], taken[r], text, step)
        BY <1>4, <1>5 DEF GatewayInv
      <3>4. QED
        BY <2>4, <2>5, <3>2, <3>3 DEF TalkInv, Dialog
    <2>7. \A q \in Requests \ {r} : TalkInv(q)'
      <3>1. \A q \in Requests \ {r} : LinesOf(q)' = LinesOf(q)
        <4>1. \A other \in typed : other.to = r
          BY <1>5, <2>1, <2>2 DEF GatewayInv, LoneInv
        <4>2. QED
          BY <1>5, <4>1 DEF LinesOf
      <3>2. \A q \in Requests \ {r} :
              /\ reader'[q] = reader[q] /\ answer'[q] = answer[q] /\ taken'[q] = taken[q]
              /\ asked'[q] = asked[q]
        BY <1>4, <1>5 DEF GatewayInv
      <3>3. QED
        BY <2>2, <3>1, <3>2 DEF TalkInv
    <2>8. \A p, q \in Reading' : p = q
      <3>1. Reading' \subseteq Reading
        BY <1>4, <1>5 DEF GatewayInv, Reading
      <3>2. QED
        BY <2>2, <3>1
    <2>9. QED
      BY <1>5, <2>6, <2>7, <2>8 DEF LoneInv
  <1>9. QED
    BY <1>4, <1>5, <1>7, <1>8 DEF GatewayInv

\* Steps of which the lines take no notice.
LEMMA RestStep ==
  ASSUME GatewayInv,
         \/ \E r \in Requests : ReadFails(r) \/ CancelRequest(r) \/ RequestReturns(r)
         \/ Closes
         \/ UNCHANGED gatewayVars
  PROVE  GatewayInv'
  <1>1. UNCHANGED <<asked, taken, answer, typed, said, shared>>
    BY DEF ReadFails, CancelRequest, RequestReturns, Closes, gatewayVars
  <1>2. \A r \in Requests : LinesOf(r)' = LinesOf(r)
    BY <1>1 DEF LinesOf
  <1>3. ASSUME NEW r \in Requests, ReadFails(r)
        PROVE  GatewayInv'
    <2>1. r \in Reading /\ typed = {} /\ reader' = [reader EXCEPT ![r] = "failed"] /\ request' = request
      BY <1>3 DEF ReadFails
    <2>2. \A q \in Requests : RequestInv(q)'
      BY <1>1, <2>1 DEF GatewayInv, RequestInv, Reading, Stages
    <2>3. Reading' \subseteq Reading
      BY <2>1 DEF GatewayInv, Reading
    <2>4. \A q \in Requests : TalkInv(q) => TalkInv(q)'
      <3>1. TalkInv(r)'
        BY <2>1 DEF GatewayInv, TalkInv, Dialog
      <3>2. \A q \in Requests \ {r} : TalkInv(q) => TalkInv(q)'
        BY <1>1, <1>2, <2>1 DEF GatewayInv, TalkInv
      <3>3. QED
        BY <3>1, <3>2
    <2>5. LoneInv'
      BY <1>1, <2>1, <2>3, <2>4 DEF GatewayInv, LoneInv
    <2>6. QED
      BY <1>1, <2>1, <2>2, <2>5 DEF GatewayInv
  <1>4. ASSUME reader' = reader, request' = request
        PROVE  GatewayInv'
    <2>1. \A q \in Requests : RequestInv(q)' /\ (TalkInv(q) => TalkInv(q)')
      BY <1>1, <1>2, <1>4 DEF GatewayInv, RequestInv, TalkInv
    <2>2. Reading' = Reading
      BY <1>4 DEF Reading
    <2>3. LoneInv'
      BY <1>1, <2>1, <2>2 DEF GatewayInv, LoneInv
    <2>4. QED
      BY <1>1, <1>4, <2>1, <2>3 DEF GatewayInv
  <1>5. ASSUME NEW r \in Requests, RequestReturns(r)
        PROVE  GatewayInv'
    <2>1. PICK how \in Outcomes(r) : request' = [request EXCEPT ![r] = how]
      BY <1>5 DEF RequestReturns
    <2>2. request[r] = "open" /\ reader' = reader
      BY <1>5 DEF RequestReturns
    <2>3. how # "none" /\ (how = "answered" => reader[r] = "done")
      BY DEF Outcomes
    <2>4. \A q \in Requests : RequestInv(q)' /\ (TalkInv(q) => TalkInv(q)')
      BY <1>1, <1>2, <2>1, <2>2, <2>3 DEF GatewayInv, RequestInv, TalkInv
    <2>5. Reading' = Reading
      BY <2>2 DEF Reading
    <2>6. LoneInv'
      BY <1>1, <2>4, <2>5 DEF GatewayInv, LoneInv
    <2>7. QED
      BY <1>1, <2>1, <2>2, <2>4, <2>6 DEF GatewayInv
  <1>6. QED
    BY <1>3, <1>4, <1>5 DEF CancelRequest, Closes, gatewayVars

LEMMA GatewayStepHolds == GatewayInv /\ [GatewayNext]_gatewayVars => GatewayInv'
  BY RequestRoundStep, TypesStep, ReadLineStep, RestStep DEF GatewayNext

\* As long as no two prompts read the terminal at the same time, whatever is cancelled and
\* whenever stdin ends: a request is answered by what was typed for it.
THEOREM LonePromptsCorrect == GatewaySpec => []LonePromptsAreAnsweredAsMeant
  <1>1. GatewayInv => LonePromptsAreAnsweredAsMeant
    <2>1. SUFFICES ASSUME GatewayInv, ~ shared, NEW r \in Requests, request[r] = "answered"
                   PROVE  answer[r] = Meant(asked[r], said[r])
      BY DEF LonePromptsAreAnsweredAsMeant
    <2>2. reader[r] = "done" /\ r \notin Reading
      BY <2>1 DEF GatewayInv, RequestInv, Reading, Stages
    <2>3. LinesOf(r) = said[r]
      BY <2>1, <2>2 DEF GatewayInv, LoneInv, LinesOf
    <2>4. Dialog(asked[r], "done", taken[r], answer[r], said[r])
      BY <2>1, <2>2, <2>3 DEF GatewayInv, LoneInv, TalkInv
    <2>5. QED
      BY <2>4 DEF Dialog
  <1>2. QED
    BY GatewayInitHolds, GatewayStepHolds, <1>1, PTL DEF GatewaySpec
=============================================================================
