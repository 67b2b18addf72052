---------------------------- MODULE QualityChecks ----------------------------
(***************************************************************************)
(* The result adapters of the four Go checks (internal/node/scriptnode):   *)
(* what each makes of the exit code of its script and of the files the     *)
(* script left in the tool-output directory.  An adapter answers a result  *)
(* that passes its own Validate, or Broken: a structural error, the check  *)
(* did not complete.  A message, a position and a toolchain field are left *)
(* out; a file that does not parse is in the evidence as one.              *)
(***************************************************************************)
EXTENDS Integers, Sequences, FiniteSets, FiniteSetsExt

CONSTANTS
  Threshold,        \* minimumStatementCoverage, in percent
  Maximum,          \* maximumCyclomaticComplexity
  IncludeTests,     \* the policy of the complexity check
  ExcludeGenerated

ASSUME ChecksAssumption ==
  /\ Threshold \in 0..100
  /\ Maximum \in Nat \ {0}
  /\ {IncludeTests, ExcludeGenerated} \subseteq BOOLEAN

Checks == {"static-analysis", "coverage", "race", "complexity"}

Broken == [verdict |-> "none", measured |-> {}, findings |-> {}]

\* measured is empty or holds the one number of the metric.
Result(verdict, measured, findings) ==
  [verdict |-> verdict, measured |-> measured, findings |-> findings]

Finding(kind, where) == [kind |-> kind, where |-> where]

(***************************************************************************)
(* go vet.  e: [packages, vet, diagnostics, stderr]: the listed packages,  *)
(* what vet.json holds after its driver headers ("nothing" when it is      *)
(* empty, "headers" when it has nothing else), its diagnostics, and        *)
(* whether the log of stderr has a line.  vet-exit.txt is not read.        *)
(***************************************************************************)
VetFindings(e) ==
  IF e.vet = "json" THEN {Finding("diagnostic", d) : d \in e.diagnostics} ELSE {}

\* A failed vet without diagnostics: each line of vet.json, or, when the file
\* is empty, each line of stderr, that is no header is a finding.
PackageFindings(e) ==
  IF \/ e.vet \in {"json", "text"}
     \/ e.vet = "nothing" /\ e.stderr
  THEN {Finding("package", "")}
  ELSE {}

ValidStatic(r) == r.verdict = "failed" <=> r.findings # {}

AdaptStatic(e, exit) ==
  LET found == IF exit # 0 /\ VetFindings(e) = {} THEN PackageFindings(e) ELSE VetFindings(e)
      verdict == IF e.packages = {} /\ exit = 0 THEN "not-applicable"
                 ELSE IF found # {} THEN "failed" ELSE "passed"
      result == Result(verdict, {}, found)
  IN  IF \/ exit > 1
         \/ exit = 0 /\ e.vet = "text"
         \/ e.vet = "torn"
         \/ exit # 0 /\ found = {}
         \/ ~ValidStatic(result)
      THEN Broken
      ELSE result

(***************************************************************************)
(* go test with a coverage profile.  e: [reported, failed, covdata, build, *)
(* isProfile, profile]: the code in test-exit.txt, the packages with a     *)
(* fail event, whether the known covdata diagnostic and whether any other  *)
(* build output is there, whether coverage.out is there and parses, and    *)
(* its blocks, a set of [block, statements, hit].                          *)
(***************************************************************************)
Statements(blocks) == MapThenSumSet(LAMBDA b : b.statements, blocks)

Measured(profile) ==
  [covered |-> Statements({b \in profile : b.hit}), all |-> Statements(profile)]

ValidCoverage(r) ==
  /\ \A p \in r.measured : p.covered >= 0 /\ p.covered <= p.all
  /\ r.verdict = "passed" => /\ \A p \in r.measured : 100 * p.covered >= Threshold * p.all
                             /\ r.measured # {} /\ r.findings = {}
  /\ r.verdict = "failed" => /\ \A p \in r.measured : 100 * p.covered < Threshold * p.all
                             /\ r.findings # {}
  /\ r.verdict = "not-applicable" => r.measured = {} /\ r.findings = {}

\* What a go test that failed has to show for it to count as completed.
Recognized(e) == e.failed # {} \/ (e.covdata /\ ~e.build)

CoverageOf(e) ==
  LET p == Measured(e.profile)
  IN  IF p.all = 0 THEN Result("not-applicable", {}, {})
      ELSE IF 100 * p.covered < Threshold * p.all
           THEN Result("failed", {p}, {Finding("below", "")})
           ELSE Result("passed", {p}, {})

AdaptCoverage(e, exit) ==
  LET testFailed == exit # 0 /\ e.failed # {}
      result == IF testFailed THEN Result("failed", {}, {Finding("test", "")}) ELSE CoverageOf(e)
  IN  IF \/ e.reported # exit
         \/ exit # 0 /\ ~Recognized(e)
         \/ ~testFailed /\ ~e.isProfile
      THEN Broken
      ELSE IF ValidCoverage(result) THEN result ELSE Broken

(***************************************************************************)
(* go test -race.  e: [reported, packages, ends, ran, races]: the listed   *)
(* packages, the terminal events of each package in their order, the       *)
(* packages in which a test started, and those with a race report.  The    *)
(* last event tells a success, any event a failure.                        *)
(***************************************************************************)
FailedPackages(e) == {p \in DOMAIN e.ends : \E i \in DOMAIN e.ends[p] : e.ends[p][i] = "fail"}

EndsWell(events) == events # <<>> /\ events[Len(events)] \in {"pass", "skip"}

EventsAreComplete(e, exit) ==
  \/ e.packages = {}
  \/ exit = 0 /\ \A p \in e.packages : EndsWell(e.ends[p])
  \/ exit # 0 /\ FailedPackages(e) # {}

\* Seeded fault: only a package whose tests started is reported.
RaceFailuresOfTests(e, exit) ==
  IF exit = 0 THEN {} ELSE {Finding("test-failure", p) : p \in (FailedPackages(e) \cap e.ran) \ e.races}

RaceFailures(e, exit) ==
  IF exit = 0 THEN {}
  ELSE IF e.packages = {} THEN {Finding("package-failure", "")}
  ELSE {Finding(IF p \in e.ran THEN "test-failure" ELSE "compile-failure", p) :
          p \in FailedPackages(e) \ e.races}

RaceVerdict(e, exit) ==
  IF e.packages = {} /\ exit = 0 THEN "not-applicable"
  ELSE IF exit # 0 \/ e.races # {} THEN "failed" ELSE "passed"

ValidRace(r) ==
  /\ r.verdict = "passed" => r.measured = {0} /\ r.findings = {}
  /\ r.verdict = "failed" => r.measured # {} /\ r.findings # {}
  /\ r.verdict = "not-applicable" => r.measured = {} /\ r.findings = {}

AdaptRace(e, exit) ==
  LET verdict == RaceVerdict(e, exit)
      count == IF verdict = "not-applicable" THEN {} ELSE {Cardinality(e.races)}
      result == Result(verdict, count,
                       {Finding("observed", p) : p \in e.races} \cup RaceFailures(e, exit))
  IN  IF \/ e.reported # exit
         \/ exit \in {125, 126, 127}
         \/ ~EventsAreComplete(e, exit)
         \/ ~ValidRace(result)
      THEN Broken
      ELSE result

(***************************************************************************)
(* The complexity analyzer.  e: [reported, functions, errors]: a function  *)
(* is [name, complexity, test, generated, vendor], a syntax error [name,   *)
(* test, generated, vendor].  A complexity below 1 is an invalid function. *)
(***************************************************************************)
IsSelected(x) == ~x.vendor /\ (x.test => IncludeTests) /\ (x.generated => ~ExcludeGenerated)

Over(fs) == {f \in fs : f.complexity > Maximum}

AdaptComplexity(e, exit) ==
  LET fs == {f \in e.functions : IsSelected(f)}
      found == {Finding("syntax-error", x.name) : x \in {y \in e.errors : IsSelected(y)}}
                 \cup {Finding("complexity-threshold", f.name) : f \in Over(fs)}
      verdict == IF found # {} THEN "failed" ELSE IF fs = {} THEN "not-applicable" ELSE "passed"
      highest == IF fs = {} THEN {} ELSE {Max({f.complexity : f \in fs})}
  IN  IF \/ e.reported # exit \/ exit # 0
         \/ \E f \in e.functions : f.complexity < 1
      THEN Broken
      ELSE Result(verdict, highest, found)

(***************************************************************************)
(* The adapter of each check.                                              *)
(***************************************************************************)
Adapt(check, e, exit) ==
  CASE check = "static-analysis" -> AdaptStatic(e, exit)
    [] check = "coverage"        -> AdaptCoverage(e, exit)
    [] check = "race"            -> AdaptRace(e, exit)
    [] check = "complexity"      -> AdaptComplexity(e, exit)
=============================================================================
