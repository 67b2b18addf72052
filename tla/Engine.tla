------------------------------- MODULE Engine -------------------------------
(***************************************************************************)
(* The iterative scheduler of one workflow run: Engine.Run in              *)
(* internal/execution/engine.go with the node-run state machine of         *)
(* internal/execution/state.go.                                            *)
(*                                                                         *)
(* One coordinator goroutine owns all the state.  It starts rounds on      *)
(* goroutines of their own and learns their outcome from the results       *)
(* channel; the human gateway and context cancellation are the             *)
(* environment.  A goroutine's outcome is chosen when the coordinator      *)
(* receives it: the channel holds no state that an outcome depends on, and *)
(* goroutines may send in any order.                                       *)
(*                                                                         *)
(* Data is abstracted to versions: a node has one versioned output, so an  *)
(* input port is named by the node it is bound to, and version 0 means     *)
(* "not produced".  The port named "advise" is kept apart (AdviseFrom),    *)
(* because an advise retry overrides it.                                   *)
(***************************************************************************)
EXTENDS Naturals, Sequences, FiniteSets

CONSTANTS
  Nodes,            \* node instance ids
  HumanInputs,      \* nodes whose executor is a humanInputNode
  Approvals,        \* nodes defined by human-approval
  Agents,           \* agent nodes whose definition declares an "advise" input
  MayOmit,          \* nodes whose executor may succeed without the output
  Requires,         \* node -> nodes bound to its required inputs
  Accepts,          \* node -> nodes bound to its optional inputs
  AdviseFrom,       \* node -> the node bound to its optional "advise" input, if any
  DependsOn,        \* node -> control predecessors
  Rank,             \* node -> position of its id in sorted order
  Parallelism,      \* WithParallelism
  ConvergenceLimit, \* WithConvergenceLimit
  MaxHumanEvents    \* bound: how often the human answers a prompt in one run

NoErr == "no error"

ASSUME NodesAssumption ==
  /\ IsFiniteSet(Nodes)
  /\ HumanInputs \subseteq Nodes
  /\ Approvals \subseteq Nodes
  /\ Agents \subseteq Nodes
  /\ MayOmit \subseteq Nodes
  /\ HumanInputs \cap Approvals = {}
  /\ Agents \cap (HumanInputs \cup Approvals) = {}
  /\ NoErr \notin Nodes

ASSUME BindingAssumption ==
  /\ Requires \in [Nodes -> SUBSET Nodes]
  /\ Accepts \in [Nodes -> SUBSET Nodes]
  /\ AdviseFrom \in [Nodes -> SUBSET Nodes]
  /\ DependsOn \in [Nodes -> SUBSET Nodes]
  /\ Rank \in [Nodes -> Nat]

ASSUME LimitAssumption ==
  /\ Parallelism \in Nat \ {0}
  /\ ConvergenceLimit \in Nat \ {0}
  /\ MaxHumanEvents \in Nat

VARIABLES
  pc,              \* where the coordinator is in its loop
  ctxDone,         \* the run's context is cancelled
  stopping,
  runErr,          \* the node blamed for the run's failure, or NoErr
  runStatus,       \* exec.Status
  queued,          \* the ready list, whose members are exactly those of the queued map
  inflight,
  pendingAdvise,
  runs,            \* node -> its History followed by its Current round
  dirty,           \* nodes whose dirty flag is set
  machineRuns,
  consumedControl,
  consumedInputs,
  outputVersion,
  humanClosed,     \* human inputs that answered Finish
  adviseRetry,     \* node -> failed round that the injected advice answers, 0 if none
  task,            \* node -> what its goroutine is doing
  advising,        \* advise-retry prompts outstanding, as <<node, failed round>>
  humanEvents      \* prompts answered so far

loopVars  == <<pc, ctxDone, stopping>>
runVars   == <<runErr, runStatus>>
queueVars == <<queued, dirty>>
flightVars == <<inflight, task>>
adviseVars == <<pendingAdvise, advising, adviseRetry>>
inputVars == <<consumedControl, consumedInputs>>
vars == <<loopVars, runVars, queueVars, flightVars, adviseVars, inputVars,
          runs, machineRuns, outputVersion, humanClosed, humanEvents>>

Machine(n) == n \notin HumanInputs \cup Approvals

Sources(n) == Requires[n] \cup Accepts[n] \cup AdviseFrom[n]
-----------------------------------------------------------------------------
(* The node-run state machine (state.go) over the rounds of a node.        *)

Round(n)  == Len(runs[n])
Current(n) == runs[n][Round(n)]
Status(n) == IF Round(n) = 0 THEN "Pending" ELSE Current(n).status

RunRecord ==
  [status    : {"Running", "WaitingHuman", "Succeeded", "Failed"},
   errorKind : {"none", "structural", "interaction"},
   inputs    : [Nodes -> Nat],      \* data version taken from each source
   control   : [Nodes -> Nat],      \* round of each control predecessor consumed
   advice    : Nat,                 \* failed round whose retry advice it carries
   output    : Nat,
   decision  : {"none", "approved", "rejected"}]

\* prepareRun accepts a first round, or the round after a success or an interaction failure.
CanPrepare(n) ==
  \/ Status(n) \in {"Pending", "Succeeded"}
  \/ Status(n) = "Failed" /\ Current(n).errorKind = "interaction"

\* latestCompleted: r is the newest succeeded round of n.
IsLatestCompleted(n, r) ==
  /\ r \in 1..Round(n)
  /\ runs[n][r].status = "Succeeded"
  /\ \A q \in (r + 1)..Round(n) : runs[n][q].status # "Succeeded"

HasCompleted(n) == \E r \in 1..Round(n) : IsLatestCompleted(n, r)

LatestCompletedRound(n) ==
  IF HasCompleted(n) THEN CHOOSE r \in 1..Round(n) : IsLatestCompleted(n, r) ELSE 0

\* The version that a consumer resolves for an input bound to s, 0 if it resolves none.
OutputOf(s) == IF HasCompleted(s) THEN runs[s][LatestCompletedRound(s)].output ELSE 0

\* Seeded fault: any decision counts as an approval.
ApprovalPassedByAnyDecision(s) == s \in Approvals /\ HasCompleted(s)

\* approvalPassed: the newest decision on record is an approval.
ApprovalPassed(s) ==
  /\ s \in Approvals
  /\ HasCompleted(s)
  /\ runs[s][LatestCompletedRound(s)].decision = "approved"

IsLatestApproved(s, r) ==
  /\ r \in 1..Round(s)
  /\ runs[s][r].status = "Succeeded"
  /\ runs[s][r].decision = "approved"
  /\ \A q \in (r + 1)..Round(s) :
        ~(runs[s][q].status = "Succeeded" /\ runs[s][q].decision = "approved")

\* Seeded fault: a rejecting round opens the gate too.
ControlCompletedByAnyDecision(s) == LatestCompletedRound(s)

\* The round a control successor waits for: of an approval, only an approving one.
ControlCompletedRound(s) ==
  IF s \notin Approvals THEN LatestCompletedRound(s)
  ELSE IF \E r \in 1..Round(s) : IsLatestApproved(s, r)
       THEN CHOOSE r \in 1..Round(s) : IsLatestApproved(s, r)
       ELSE 0
-----------------------------------------------------------------------------
(* Readiness.                                                              *)

\* Seeded faults: a version is new only if none was consumed, or always.
NewVersionOnlyAtFirst(n, s) ==
  OutputOf(s) # 0 /\ consumedInputs[n][s] = 0 /\ ~ApprovalPassed(s)
NewVersionAlways(n, s) == OutputOf(s) # 0 /\ ~ApprovalPassed(s)

\* A data input bound to s has a version n has not consumed; an approval that passed does not count.
NewVersion(n, s) ==
  /\ OutputOf(s) # 0
  /\ OutputOf(s) # consumedInputs[n][s]
  /\ ~ApprovalPassed(s)

\* Seeded fault: injected advice is no trigger of its own.
InputTriggeredByDataOnly(n) == \E s \in Requires[n] \cup Accepts[n] : NewVersion(n, s)

\* Injected advice replaces the "advise" snapshot: always new, skipped like any input of a passed approval.
InputTriggered(n) ==
  \/ \E s \in Requires[n] \cup Accepts[n] : NewVersion(n, s)
  \/ adviseRetry[n] = 0 /\ \E s \in AdviseFrom[n] : NewVersion(n, s)
  \/ adviseRetry[n] # 0 /\ \A s \in AdviseFrom[n] : ~ApprovalPassed(s)

ControlTriggered(n) ==
  \E d \in DependsOn[n] : ControlCompletedRound(d) > consumedControl[n][d]

InputsResolved(n) ==
  /\ \A s \in Requires[n] : OutputOf(s) # 0
  /\ \A d \in DependsOn[n] : ControlCompletedRound(d) # 0

Ready(n) ==
  /\ CanPrepare(n)
  /\ InputsResolved(n)
  /\ \/ Status(n) = "Pending"
     \/ /\ n \notin HumanInputs
        /\ InputTriggered(n) \/ ControlTriggered(n) \/ n \in dirty

IsFirst(n, S) == n \in S /\ \A m \in S : Rank[n] <= Rank[m]
-----------------------------------------------------------------------------
Init ==
  /\ pc = "top"
  /\ ctxDone = FALSE
  /\ stopping = FALSE
  /\ runErr = NoErr
  /\ runStatus = "Running"
  /\ queued = {}
  /\ inflight = 0
  /\ pendingAdvise = 0
  /\ runs = [n \in Nodes |-> <<>>]
  /\ dirty = {}
  /\ machineRuns = [n \in Nodes |-> 0]
  /\ consumedControl = [n \in Nodes |-> [d \in Nodes |-> 0]]
  /\ consumedInputs = [n \in Nodes |-> [s \in Nodes |-> 0]]
  /\ outputVersion = [n \in Nodes |-> 0]
  /\ humanClosed = {}
  /\ adviseRetry = [n \in Nodes |-> 0]
  /\ task = [n \in Nodes |-> "none"]
  /\ advising = {}
  /\ humanEvents = 0
-----------------------------------------------------------------------------
(* The coordinator's own steps.                                            *)

\* Top of the loop with the context alive: every node that became ready joins the list.
EnqueueReady ==
  /\ pc = "top"
  /\ ~stopping /\ ~ctxDone
  /\ LET joining == {n \in Nodes \ queued : Ready(n)}
     IN  /\ queued' = queued \cup joining
         /\ dirty' = dirty \cup {n \in joining : Status(n) # "Pending" /\ InputTriggered(n)}
  /\ pc' = "dispatch"
  /\ UNCHANGED <<ctxDone, stopping, runVars, flightVars, adviseVars, inputVars,
                 runs, machineRuns, outputVersion, humanClosed, humanEvents>>

\* Top of the loop once the run is stopping: nothing more is queued or started.
NoteStopping ==
  /\ pc = "top"
  /\ stopping \/ ctxDone
  /\ stopping' = TRUE
  /\ pc' = "decide"
  /\ UNCHANGED <<ctxDone, runVars, queueVars, flightVars, adviseVars, inputVars,
                 runs, machineRuns, outputVersion, humanClosed, humanEvents>>

\* What starting n's next round does, up to the convergence guard, with the new round's
\* status and errorKind.
BeginRound(n, status, errorKind) ==
  /\ runs' = [runs EXCEPT ![n] = Append(@,
       [status |-> status, errorKind |-> errorKind,
        inputs |-> [s \in Nodes |-> IF s \in Sources(n) THEN OutputOf(s) ELSE 0],
        control |-> [d \in Nodes |->
                       IF d \in DependsOn[n] THEN ControlCompletedRound(d) ELSE 0],
        advice |-> adviseRetry[n], output |-> 0, decision |-> "none"])]
  /\ queued' = queued \ {n}
  /\ dirty' = dirty \ {n}
  /\ adviseRetry' = [adviseRetry EXCEPT ![n] = 0]
  /\ machineRuns' = [machineRuns EXCEPT ![n] = IF Machine(n) THEN @ + 1 ELSE @]
  /\ consumedControl' = [consumedControl EXCEPT ![n] =
       [d \in Nodes |-> IF d \in DependsOn[n] THEN ControlCompletedRound(d) ELSE @[d]]]
  /\ consumedInputs' = [consumedInputs EXCEPT ![n] =
       [s \in Nodes |-> IF s \in Sources(n) /\ OutputOf(s) # 0 THEN OutputOf(s) ELSE @[s]]]

\* A machine node that would start one round too many since the last human event.
GuardTrips(n) == Machine(n) /\ machineRuns[n] >= ConvergenceLimit

\* The first node of the list starts a round.  prepareRun's error branch is left out:
\* QueuedIsStartable shows that it is not reached.
StartRound(n) ==
  /\ pc = "dispatch"
  /\ inflight < Parallelism
  /\ IsFirst(n, queued)
  /\ CanPrepare(n)
  /\ ~GuardTrips(n)
  /\ BeginRound(n, IF n \in Approvals THEN "WaitingHuman" ELSE "Running", "none")
  /\ inflight' = inflight + 1
  /\ task' = [task EXCEPT ![n] = IF Machine(n) THEN "round" ELSE "prompt"]
  /\ UNCHANGED <<loopVars, runVars, pendingAdvise, advising, outputVersion,
                 humanClosed, humanEvents>>

TripConvergenceGuard(n) ==
  /\ pc = "dispatch"
  /\ inflight < Parallelism
  /\ IsFirst(n, queued)
  /\ CanPrepare(n)
  /\ GuardTrips(n)
  /\ BeginRound(n, "Failed", "structural")
  /\ runErr' = n
  /\ runStatus' = "Failed"
  /\ stopping' = TRUE
  /\ pc' = "decide"
  /\ UNCHANGED <<ctxDone, flightVars, pendingAdvise, advising, outputVersion,
                 humanClosed, humanEvents>>

DispatchDone ==
  /\ pc = "dispatch"
  /\ inflight >= Parallelism \/ queued = {}
  /\ pc' = "decide"
  /\ UNCHANGED <<ctxDone, stopping, runVars, queueVars, flightVars, adviseVars, inputVars,
                 runs, machineRuns, outputVersion, humanClosed, humanEvents>>

\* Seeded faults: the loop is left with rounds in flight, or waits for advice nobody will give.
DrainedEarly == stopping
DrainedOfAdvice == stopping /\ inflight = 0 /\ pendingAdvise = 0

\* A stopping run waits for the rounds in flight, never for advice.
Drained == stopping /\ inflight = 0

\* Failed if something was blamed, otherwise Stopped by the user.
FinalStatus == IF runErr # NoErr THEN "Failed" ELSE "Stopped"

\* The loop ends.
EndRun ==
  /\ pc = "decide"
  /\ Drained
  /\ pc' = "done"
  /\ runStatus' = FinalStatus
  /\ UNCHANGED <<ctxDone, stopping, runErr, queueVars, flightVars, adviseVars, inputVars,
                 runs, machineRuns, outputVersion, humanClosed, humanEvents>>

\* Nothing runs, nothing is prompted for: the graph has settled.
Settled == inflight = 0 /\ pendingAdvise = 0 /\ ~stopping

\* A pending node waits on a required output its completed producer did not make.
BlockedOn(n) ==
  /\ Status(n) = "Pending"
  /\ \E s \in Requires[n] : HasCompleted(s) /\ OutputOf(s) = 0

FailBlockedInput ==
  /\ pc = "decide"
  /\ Settled
  /\ \E n \in Nodes : BlockedOn(n) /\ runErr' = n
  /\ runStatus' = "Failed"
  /\ stopping' = TRUE
  /\ pc' = "top"
  /\ UNCHANGED <<ctxDone, queueVars, flightVars, adviseVars, inputVars,
                 runs, machineRuns, outputVersion, humanClosed, humanEvents>>

OpenInputs == {n \in HumanInputs \ humanClosed : Status(n) = "Succeeded"}

\* The settled graph asks its open entry for another round.
PromptNextInput ==
  /\ pc = "decide"
  /\ Settled
  /\ ~\E n \in Nodes : BlockedOn(n)
  /\ \E n \in OpenInputs : IsFirst(n, OpenInputs) /\ queued' = queued \cup {n}
  /\ pc' = "top"
  /\ UNCHANGED <<ctxDone, stopping, runVars, dirty, flightVars, adviseVars, inputVars,
                 runs, machineRuns, outputVersion, humanClosed, humanEvents>>

GoIdle ==
  /\ pc = "decide"
  /\ Settled
  /\ ~\E n \in Nodes : BlockedOn(n)
  /\ OpenInputs = {}
  /\ pc' = "idle"
  /\ UNCHANGED <<ctxDone, stopping, runVars, queueVars, flightVars, adviseVars, inputVars,
                 runs, machineRuns, outputVersion, humanClosed, humanEvents>>

\* Rounds in flight, or a live run with prompts outstanding: wait for a result.
AwaitResult ==
  /\ pc = "decide"
  /\ inflight # 0 \/ (pendingAdvise # 0 /\ ~stopping)
  /\ pc' = "select"
  /\ UNCHANGED <<ctxDone, stopping, runVars, queueVars, flightVars, adviseVars, inputVars,
                 runs, machineRuns, outputVersion, humanClosed, humanEvents>>

\* Both blocking waits also watch the context.
WakeOnCancel ==
  /\ pc \in {"idle", "select"}
  /\ ctxDone
  /\ stopping' = TRUE
  /\ pc' = "top"
  /\ UNCHANGED <<ctxDone, runVars, queueVars, flightVars, adviseVars, inputVars,
                 runs, machineRuns, outputVersion, humanClosed, humanEvents>>
-----------------------------------------------------------------------------
(* Results received from node goroutines.                                  *)

\* n's current round becomes run; archived rounds stay as they are.
SetCurrent(n, run) == runs' = [runs EXCEPT ![n][Round(n)] = run]

Blame(n) ==
  /\ runErr' = n
  /\ runStatus' = "Failed"
  /\ stopping' = TRUE

\* n's goroutine has sent its last result.
TakeResult(n) ==
  /\ pc = "select"
  /\ pc' = "top"
  /\ inflight' = inflight - 1
  /\ task' = [task EXCEPT ![n] = "none"]

\* finishNode without error: every output the round produced gets the node's next version.
Succeed(n, produced) ==
  /\ outputVersion' = [outputVersion EXCEPT ![n] = IF produced THEN @ + 1 ELSE @]
  /\ SetCurrent(n, [Current(n) EXCEPT
       !.status = "Succeeded", !.output = IF produced THEN outputVersion[n] + 1 ELSE 0])

RoundSucceeds(n) ==
  /\ task[n] \in {"round", "approve"}
  /\ TakeResult(n)
  /\ \E produced \in {TRUE} \cup {n \notin MayOmit} : Succeed(n, produced)
  /\ UNCHANGED <<ctxDone, stopping, runVars, queueVars, adviseVars, inputVars,
                 machineRuns, humanClosed, humanEvents>>

\* finishNode with an error that an advise retry can repair.
RoundFailsInteraction(n) ==
  /\ n \in Agents
  /\ task[n] = "round"
  /\ TakeResult(n)
  /\ SetCurrent(n, [Current(n) EXCEPT !.status = "Failed", !.errorKind = "interaction"])
  /\ pendingAdvise' = pendingAdvise + 1
  /\ advising' = advising \cup {<<n, Round(n)>>}
  /\ UNCHANGED <<ctxDone, stopping, runVars, queueVars, adviseRetry, inputVars,
                 machineRuns, outputVersion, humanClosed, humanEvents>>

\* Any other error; a waiting human round first becomes Running.  Only the first failure is blamed.
RoundFailsStructural(n) ==
  /\ task[n] # "none"
  /\ TakeResult(n)
  /\ SetCurrent(n, [Current(n) EXCEPT !.status = "Failed", !.errorKind = "structural"])
  /\ IF runErr = NoErr THEN Blame(n) ELSE UNCHANGED <<runVars, stopping>>
  /\ UNCHANGED <<ctxDone, queueVars, adviseVars, inputVars,
                 machineRuns, outputVersion, humanClosed, humanEvents>>

\* finishCanceledNode: the goroutine returned the context's error.  The transition to
\* Failed is not legal from WaitingHuman, and its error is dropped.
RoundCancelled(n) ==
  /\ ctxDone
  /\ task[n] # "none"
  /\ TakeResult(n)
  /\ SetCurrent(n, [Current(n) EXCEPT
       !.status = IF @ = "Running" THEN "Failed" ELSE @, !.errorKind = "structural"])
  /\ UNCHANGED <<ctxDone, stopping, runVars, queueVars, adviseVars, inputVars,
                 machineRuns, outputVersion, humanClosed, humanEvents>>
-----------------------------------------------------------------------------
(* Answers of the human gateway.                                           *)

HumanAnswers ==
  /\ humanEvents < MaxHumanEvents
  /\ humanEvents' = humanEvents + 1

\* Seeded fault: only the counters of the agents are reset.
ResetAgentsOnly == machineRuns' = [n \in Nodes |-> IF n \in Agents THEN 0 ELSE machineRuns[n]]

ResetConvergence == machineRuns' = [n \in Nodes |-> 0]

\* An entry gets a requirement, with Continue or Finish.
HumanInputGiven(n) ==
  /\ n \in HumanInputs
  /\ task[n] = "prompt"
  /\ HumanAnswers
  /\ TakeResult(n)
  /\ ResetConvergence
  /\ humanClosed' \in {humanClosed \cup {n}, humanClosed \ {n}}
  /\ Succeed(n, TRUE)
  /\ UNCHANGED <<ctxDone, stopping, runVars, queueVars, adviseVars, inputVars>>

\* A decision arrives: the round runs on, on a goroutine that publishes it.
ApprovalDecided(n) ==
  /\ n \in Approvals
  /\ task[n] = "prompt"
  /\ pc = "select"
  /\ HumanAnswers
  /\ \E decision \in {"approved", "rejected"} :
        SetCurrent(n, [Current(n) EXCEPT !.status = "Running", !.decision = decision])
  /\ task' = [task EXCEPT ![n] = "approve"]
  /\ ResetConvergence
  /\ pc' = "top"
  /\ UNCHANGED <<ctxDone, stopping, runVars, queueVars, inflight, adviseVars, inputVars,
                 outputVersion, humanClosed>>

\* Seeded fault: an answered prompt stays counted.
TakeAdviceUncounted(p) ==
  /\ pc = "select" /\ pc' = "top"
  /\ p \in advising /\ advising' = advising \ {p}
  /\ UNCHANGED pendingAdvise

\* A result of the advise prompt p arrives.
TakeAdvice(p) ==
  /\ pc = "select"
  /\ pc' = "top"
  /\ p \in advising
  /\ advising' = advising \ {p}
  /\ pendingAdvise' = pendingAdvise - 1

\* Advice for a failed round is stored for the node's next round, whatever the node does now.
AdviceGiven(p) ==
  /\ TakeAdvice(p)
  /\ HumanAnswers
  /\ adviseRetry' = [adviseRetry EXCEPT ![p[1]] = p[2]]
  /\ ResetConvergence
  /\ UNCHANGED <<ctxDone, stopping, runVars, queueVars, flightVars, inputVars,
                 runs, outputVersion, humanClosed>>

\* An empty answer; or the prompt was cancelled together with the run.
AdviceSkipped(p) ==
  /\ TakeAdvice(p)
  /\ HumanAnswers \/ (ctxDone /\ UNCHANGED humanEvents)
  /\ UNCHANGED <<ctxDone, stopping, runVars, queueVars, flightVars, adviseRetry, inputVars,
                 runs, machineRuns, outputVersion, humanClosed>>

\* The prompt, or storing its answer, failed; a prompt that was cancelled because the run
\* is stopping for another reason than its context counts as failed too.
AdviceFails(p) ==
  /\ TakeAdvice(p)
  /\ SetCurrent(p[1], [Current(p[1]) EXCEPT !.errorKind = "structural"])
  /\ Blame(p[1])
  /\ UNCHANGED <<ctxDone, queueVars, flightVars, adviseRetry, inputVars,
                 machineRuns, outputVersion, humanClosed, humanEvents>>

\* Ctrl-C or SIGTERM.
Cancel ==
  /\ ~ctxDone /\ pc # "done"
  /\ ctxDone' = TRUE
  /\ UNCHANGED <<pc, stopping, runVars, queueVars, flightVars, adviseVars, inputVars,
                 runs, machineRuns, outputVersion, humanClosed, humanEvents>>

\* Run has returned.
Finished == pc = "done" /\ UNCHANGED vars
-----------------------------------------------------------------------------
Coordinate ==
  \/ EnqueueReady
  \/ NoteStopping
  \/ \E n \in Nodes : StartRound(n) \/ TripConvergenceGuard(n)
  \/ DispatchDone
  \/ EndRun
  \/ FailBlockedInput
  \/ PromptNextInput
  \/ GoIdle
  \/ AwaitResult
  \/ WakeOnCancel

\* A machine round, or the publication of a decision, returns.
RoundReturns(n) ==
  \/ RoundSucceeds(n)
  \/ RoundFailsInteraction(n)
  \/ task[n] \in {"round", "approve"} /\ RoundFailsStructural(n)
  \/ RoundCancelled(n)

\* A prompt of the human gateway returns.
PromptReturns ==
  \/ \E n \in Nodes : HumanInputGiven(n) \/ ApprovalDecided(n)
  \/ \E n \in Nodes : task[n] = "prompt" /\ RoundFailsStructural(n)
  \/ \E p \in advising : AdviceGiven(p) \/ AdviceSkipped(p) \/ AdviceFails(p)

Next ==
  \/ Coordinate
  \/ \E n \in Nodes : RoundReturns(n)
  \/ PromptReturns
  \/ Cancel
  \/ Finished

Spec == Init /\ [][Next]_vars

(***************************************************************************)
(* The coordinator does not block between its waits.  A round's goroutine  *)
(* returns in the end, a cancelled one and a prompt whose context is       *)
(* cancelled too, and select takes a ready case at random, so a waiting    *)
(* result is received although the coordinator may pass its select many    *)
(* times before.  Nothing obliges the human to answer.                     *)
(***************************************************************************)
Fairness ==
  /\ WF_vars(Coordinate)
  /\ \A n \in Nodes : SF_vars(RoundReturns(n))

FairSpec == Spec /\ Fairness
-----------------------------------------------------------------------------
(* Properties.                                                             *)

Tasks == {"none", "round", "prompt", "approve"}

\* Every variable stays within the values the code gives it.
TypeOK ==
  /\ pc \in {"top", "dispatch", "decide", "idle", "select", "done"}
  /\ ctxDone \in BOOLEAN
  /\ stopping \in BOOLEAN
  /\ runErr \in Nodes \cup {NoErr}
  /\ runStatus \in {"Running", "Failed", "Stopped"}
  /\ queued \subseteq Nodes
  /\ inflight \in Nat
  /\ pendingAdvise \in Nat
  /\ runs \in [Nodes -> Seq(RunRecord)]
  /\ dirty \subseteq Nodes
  /\ machineRuns \in [Nodes -> Nat]
  /\ consumedControl \in [Nodes -> [Nodes -> Nat]]
  /\ consumedInputs \in [Nodes -> [Nodes -> Nat]]
  /\ outputVersion \in [Nodes -> Nat]
  /\ humanClosed \subseteq HumanInputs
  /\ adviseRetry \in [Nodes -> Nat]
  /\ task \in [Nodes -> Tasks]
  /\ advising \subseteq Nodes \X Nat
  /\ humanEvents \in Nat

Busy == {n \in Nodes : task[n] # "none"}

\* inflight counts exactly the goroutines that still owe the coordinator a round's result,
\* and never passes the configured parallelism (engine.go:189, 235, 327).
InflightIsBounded ==
  /\ inflight = Cardinality(Busy)
  /\ inflight <= Parallelism

\* pendingAdvise counts exactly the advise prompts still out; the run neither idles on an
\* unanswered prompt nor waits for one that was answered (engine.go:254, 283, 344).
AdvisePromptsAreCounted == pendingAdvise = Cardinality(advising)

\* A live run never holds a queued node that prepareRun would refuse, however long the node
\* waited in the list: the early return of engine.go:202, which would abandon the rounds in
\* flight, is not reached, and no node has two rounds at once.
QueuedIsStartable ==
  ~stopping => \A n \in queued : task[n] = "none" /\ CanPrepare(n)

\* When the run idles nothing is left to do: each node that ran has consumed the newest version
\* of every input and the newest completed round of every control predecessor, approvals that
\* passed excepted (engine.go:570-619 with 254-278).
SettledMeansFresh ==
  pc = "idle" => \A n \in Nodes \ HumanInputs :
    (CanPrepare(n) /\ InputsResolved(n)) =>
      /\ Round(n) > 0
      /\ \A s \in Requires[n] \cup Accepts[n] :
            OutputOf(s) = 0 \/ ApprovalPassed(s) \/ Current(n).inputs[s] = OutputOf(s)
      /\ \A d \in DependsOn[n] : Current(n).control[d] = ControlCompletedRound(d)

\* While n waited for round r, s offered a version no earlier round had, and took it back: its
\* next round succeeded without the output.
Withdrawn(n, r, s) ==
  /\ runs[n][r].inputs[s] = 0
  /\ \E offered, after \in 1..Round(s) :
       /\ offered < after
       /\ runs[s][offered].status = "Succeeded" /\ runs[s][after].status = "Succeeded"
       /\ runs[s][after].output = 0
       /\ \A q \in 1..(r - 1) : runs[s][offered].output > runs[n][q].inputs[s]

\* A machine node starts another round only for a reason: a changed input version, a newly
\* completed control predecessor, or retry advice; a settled graph makes no extra rounds
\* (plan section 14, scenario 1).  One reason may be gone when its turn comes: readiness is
\* not looked at again in the list (engine.go:189-197), and an output may be withdrawn.
NoSpuriousRound ==
  \A n \in Nodes \ HumanInputs : \A r \in 2..Round(n) :
    LET now == runs[n][r]
        before == runs[n][r - 1]
    IN  \/ \E s \in Sources(n) : now.inputs[s] \notin {0, before.inputs[s]}
        \/ \E d \in DependsOn[n] : now.control[d] > before.control[d]
        \/ now.advice # 0
        \/ \E s \in Sources(n) \cap MayOmit : Withdrawn(n, r, s)

\* A round gated by an approval was started by a round of that approval that succeeded with
\* the decision to approve, never by a rejection or an unfinished decision (engine.go:642-654).
OnlyApprovalOpensGate ==
  \A n \in Nodes : \A r \in 1..Round(n) : \A d \in DependsOn[n] \cap Approvals :
    LET a == runs[n][r].control[d]
    IN  /\ a \in 1..Round(d)
        /\ runs[d][a].status = "Succeeded"
        /\ runs[d][a].decision = "approved"

\* Every rejection makes the nodes that already consumed an older output of the approval run
\* again: when the run idles, each of them that could run has started a round with the rejecting
\* version or a newer one (plan section 6.5, the rejecting column).
RejectionIsReworked ==
  pc = "idle" => \A s \in Approvals : \A n \in Nodes \ HumanInputs : \A r \in 1..Round(s) :
    ( /\ s \in Sources(n)
      /\ runs[s][r].status = "Succeeded" /\ runs[s][r].decision = "rejected"
      /\ CanPrepare(n) /\ InputsResolved(n)
      /\ consumedInputs[n][s] # 0 )
    => consumedInputs[n][s] >= runs[s][r].output

\* The newest decision of s is a rejection that n has not taken.
RejectionStands(n, s) ==
  /\ HasCompleted(s)
  /\ runs[s][LatestCompletedRound(s)].decision = "rejected"
  /\ OutputOf(s) > consumedInputs[n][s]

\* s approves: the round of its decision succeeds in this step.
Approves(s) ==
  /\ task[s] = "approve" /\ task'[s] = "none"
  /\ Status(s)' = "Succeeded" /\ Current(s)'.decision = "approved"

\* s does not approve over the head of n while n could have taken the rejection before.
OverrulesAtWork(s, n) ==
  ( /\ Approves(s) /\ ~stopping
    /\ s \in Sources(n) /\ RejectionStands(n, s)
    /\ CanPrepare(n) \/ task[n] # "none"
    /\ InputsResolved(n) )
  => n \in queued \/ task[n] # "none"

\* With rounds at work beside each other, an approval may come before a node has looked at the
\* rejection it follows, and the rejection then counts for nothing.  That can only happen to a
\* node at work: one at rest that could take the rejection is in the list by then, and its next
\* round takes the decision (engine.go:597-612 with 181-197).
OverrulesOnlyNodesAtWork ==
  [][\A s \in Approvals : \A n \in Nodes \ HumanInputs : OverrulesAtWork(s, n)]_vars

\* The machine starts at most ConvergenceLimit rounds of a node between two human events; the
\* round that exceeds it is the failed one that ends the run (engine.go:221-232).
ConvergenceIsGuarded ==
  \A n \in Nodes : machineRuns[n] > ConvergenceLimit =>
    /\ runErr # NoErr
    /\ Status(n) = "Failed"
    /\ task[n] = "none"

\* How a round looks to a reader of the run's record.
Entry(n, r) ==
  IF runs[n][r].status = "Succeeded" THEN "succeeded"
  ELSE IF r = Round(n) /\ task[n] # "none" THEN "open"
  ELSE IF runs[n][r].status = "Failed" /\ runs[n][r].errorKind = "interaction" THEN "failed"
  ELSE "dead"

Entries == [n \in Nodes |-> [r \in 1..Round(n) |-> Entry(n, r)]]

Ledger == INSTANCE RunLedger WITH
  closing <- stopping, ended <- (pc = "done"), entries <- Entries

\* The scheduler keeps the promise of a run: rounds are archived for good and close once, a run
\* that is stopping starts nothing (engine.go:180), a structurally failed node never runs again
\* (engine.go:576), and the run returns only when every round it started has closed
\* (engine.go:251).
ImplementsRunLedger == Ledger!LedgerSpec

\* Advice that the human gave is not forgotten: a run that idles has used it in a round of the
\* node it was given for.
AdviceIsUsed == pc = "idle" => \A n \in Nodes : adviseRetry[n] = 0

\* A run that has returned leaves no node waiting for a human.
NoHumanWaitAtEnd == pc = "done" => \A n \in Nodes : Status(n) # "WaitingHuman"

\* A node runs when its required inputs are collected: none of its rounds lacks one of them.
RoundsHaveTheirInputs ==
  \A n \in Nodes : \A r \in 1..Round(n) : \A s \in Requires[n] : runs[n][r].inputs[s] # 0

\* A cancelled run returns, even with prompts open that nobody answers.
CancelEndsRun == ctxDone ~> pc = "done"

HumanIsAsked == advising # {} \/ \E n \in Nodes : task[n] = "prompt"

\* The machine never runs on by itself: again and again it idles, ends, or asks the human.
RunSettles == []<>(pc \in {"idle", "done"} \/ HumanIsAsked)
=============================================================================
