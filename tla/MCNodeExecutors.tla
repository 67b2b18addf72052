-------------------------- MODULE MCNodeExecutors --------------------------
(***************************************************************************)
(* Small instances of what runs below a round of the Engine: a script node *)
(* (two units of output a stream against a budget of three; for each check *)
(* the evidence of runs that pass, fail, have nothing to check, or leave   *)
(* files that contradict each other), or two requests to the terminal.     *)
(* They share no state, so a behavior takes the steps of one of them.      *)
(***************************************************************************)
EXTENDS ScriptNode, HumanGateway

vars == <<scriptVars, gatewayVars>>

\* The other of the two has nothing to do.
NoScript ==
  /\ pc = "done" /\ outcome = "none" /\ cancelled = FALSE /\ flaw = "none"
  /\ shell = "none" /\ exit = 0 /\ child = "none" /\ watch = "watching"
  /\ pipe = [s \in Streams |-> 0] /\ lost = pipe /\ logged = pipe
  /\ copier = [s \in Streams |-> "copying"]
  /\ budget = [remaining |-> Limit, exceeded |-> FALSE, failed |-> FALSE]
  /\ tampered = FALSE /\ outputs = "absent" /\ record = NoRecord

NoRequests ==
  /\ request = [r \in Requests |-> "failed"] /\ asked = request /\ ctxDone = {}
  /\ reader = [r \in Requests |-> "failed"]
  /\ taken = [r \in Requests |-> <<>>] /\ answer = [r \in Requests |-> Nothing]
  /\ typed = {} /\ said = taken /\ closed = TRUE /\ shared = FALSE

Init == (ScriptInit /\ NoRequests) \/ (NoScript /\ GatewayInit)

ScriptStep == ScriptNext /\ UNCHANGED gatewayVars
HumanStep == GatewayNext /\ UNCHANGED scriptVars
Next == ScriptStep \/ HumanStep

FairSpec == Init /\ [][Next]_vars /\ ScriptFairness /\ GatewayFairness

TwoRequests == {"r1", "r2"}
KindsOf == [r \in TwoRequests |-> IF r = "r1" THEN Kinds ELSE {"approval"}]
WhatOneTypes ==
  [kind \in Kinds |->
     CASE kind = "approval"     -> {"spaces", "r", "rx"}
       [] kind = "advise-retry" -> {"spaces", "x"}
       [] kind = "input"        -> {"blank", "spaces", "x", "c"}]
EnoughLines ==
  [kind \in Kinds |->
     CASE kind = "approval" -> 2 [] kind = "advise-retry" -> 1 [] kind = "input" -> 3]

OnePackage == {{}, {"p"}}

StaticEvidence ==
  [packages : OnePackage, vet : {"nothing", "headers", "text", "torn"}, diagnostics : {{}}, stderr : BOOLEAN]
    \cup [packages : OnePackage, vet : {"json"}, diagnostics : {{}, {"d"}}, stderr : {FALSE}]

Block(b, n, hit) == [block |-> b, statements |-> n, hit |-> hit]
Profiles ==
  {{}, {Block(1, 0, TRUE)}, {Block(1, 4, TRUE), Block(2, 1, FALSE)},
   {Block(1, 3, TRUE), Block(2, 1, FALSE)}}

CoverageEvidence ==
  [reported : {0, 1}, failed : OnePackage, covdata : BOOLEAN, build : BOOLEAN,
   isProfile : BOOLEAN, profile : Profiles]

TerminalEvents ==
  {[x \in {"p", "q"} |-> IF x = "p" THEN a ELSE b] :
     a \in {<<>>, <<"pass">>, <<"fail", "pass">>}, b \in {<<"pass">>, <<"fail">>}}
RaceEvidence ==
  [reported : {0, 1}, packages : {{}, {"p", "q"}}, ends : TerminalEvents, ran : OnePackage, races : OnePackage]

Function(name, c, test) ==
  [name |-> name, complexity |-> c, test |-> test, generated |-> FALSE, vendor |-> FALSE]
SyntaxError(generated) == [name |-> "s", test |-> FALSE, generated |-> generated, vendor |-> FALSE]

ComplexityEvidence ==
  [reported : {0, 1},
   functions : SUBSET {Function("f", 2, FALSE), Function("g", 3, FALSE), Function("h", 3, TRUE)},
   errors : {{}, {SyntaxError(TRUE)}, {SyntaxError(FALSE)}}]

Evidences ==
  [check \in Checks |->
     CASE check = "static-analysis" -> StaticEvidence
       [] check = "coverage"        -> CoverageEvidence
       [] check = "race"            -> RaceEvidence
       [] check = "complexity"      -> ComplexityEvidence]
=============================================================================
