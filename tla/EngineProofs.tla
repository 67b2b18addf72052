---------------------------- MODULE EngineProofs ----------------------------
(***************************************************************************)
(* Theorems about Engine, for every workflow, parallelism and convergence  *)
(* limit: type correctness, the counters the coordinator trusts, the       *)
(* queue's soundness, and that the scheduler implements RunLedger. Then,   *)
(* through every order of results: approvals gate the rounds behind them,  *)
(* no machine cycle passes the convergence limit, and a run that idles has *)
(* nothing left to do: what a node consumed is what its sources say now.   *)
(***************************************************************************)
EXTENDS Engine, FiniteSetTheorems, SequenceTheorems, TLAPS

-----------------------------------------------------------------------------
(* The inductive invariant.                                                *)

\* A node with a goroutine has an unfinished current round.
TaskHasRound ==
  \A n \in Nodes : task[n] # "none" =>
    Round(n) > 0 /\ Status(n) \in {"Running", "WaitingHuman"}

\* An advise prompt is about a round that exists; while that is the current round, nothing runs.
AdviceIsAboutAnOldRound ==
  /\ IsFiniteSet(advising)
  /\ \A p \in advising : /\ p[2] \in 1..Round(p[1])
                         /\ p[2] = Round(p[1]) => task[p[1]] = "none"

\* Rounds are started only while the run is live.
DispatchIsLive == pc = "dispatch" => ~stopping

IInv ==
  /\ TypeOK
  /\ TaskHasRound
  /\ AdviceIsAboutAnOldRound
  /\ DispatchIsLive
  /\ InflightIsBounded
  /\ AdvisePromptsAreCounted
  /\ QueuedIsStartable
-----------------------------------------------------------------------------
(* What the operators return.                                              *)

LEMMA RoundType ==
  ASSUME TypeOK, NEW n \in Nodes
  PROVE  /\ Round(n) \in Nat
         /\ \A r \in 1..Round(n) : runs[n][r] \in RunRecord
         /\ Round(n) > 0 => Current(n) \in RunRecord
  <1>1. runs[n] \in Seq(RunRecord)
    BY DEF TypeOK
  <1>2. Len(runs[n]) \in Nat /\ \A r \in 1..Len(runs[n]) : runs[n][r] \in RunRecord
    BY <1>1
  <1>3. QED
    BY <1>2 DEF Round, Current

LEMMA LatestCompletedType ==
  ASSUME TypeOK, NEW n \in Nodes
  PROVE  /\ LatestCompletedRound(n) \in Nat
         /\ HasCompleted(n) => LatestCompletedRound(n) \in 1..Round(n)
  BY RoundType DEF LatestCompletedRound, HasCompleted

LEMMA OutputOfType ==
  ASSUME TypeOK, NEW n \in Nodes
  PROVE  OutputOf(n) \in Nat
  BY RoundType, LatestCompletedType DEF OutputOf, RunRecord

LEMMA ControlCompletedType ==
  ASSUME TypeOK, NEW n \in Nodes
  PROVE  ControlCompletedRound(n) \in Nat
  BY RoundType, LatestCompletedType DEF ControlCompletedRound

\* Replacing the current round keeps the number of rounds and every archived one.
LEMMA SetCurrentFacts ==
  ASSUME TypeOK, NEW n \in Nodes, Round(n) > 0, NEW run \in RunRecord, SetCurrent(n, run)
  PROVE  /\ runs' \in [Nodes -> Seq(RunRecord)]
         /\ \A m \in Nodes : Len(runs'[m]) = Len(runs[m])
         /\ runs'[n][Round(n)] = run
         /\ \A m \in Nodes : m # n => runs'[m] = runs[m]
         /\ \A r \in 1..Round(n) : r # Round(n) => runs'[n][r] = runs[n][r]
  <1>1. runs[n] \in Seq(RunRecord) /\ Len(runs[n]) \in Nat \ {0}
    BY DEF TypeOK, Round
  <1>2. [runs[n] EXCEPT ![Round(n)] = run] \in Seq(RunRecord)
    BY <1>1 DEF Round
  <1>3. Len([runs[n] EXCEPT ![Round(n)] = run]) = Len(runs[n])
    BY <1>1 DEF Round
  <1>4. runs' = [runs EXCEPT ![n] = [runs[n] EXCEPT ![Round(n)] = run]]
    BY DEF SetCurrent, TypeOK
  <1>5. QED
    BY <1>1, <1>2, <1>3, <1>4 DEF TypeOK, Round

\* Starting a round appends it and keeps every earlier one.
LEMMA BeginRoundFacts ==
  ASSUME TypeOK, NEW n \in Nodes, BindingAssumption,
         NEW status \in {"Running", "WaitingHuman", "Failed"},
         NEW kind \in {"none", "structural"},
         BeginRound(n, status, kind)
  PROVE  /\ runs' \in [Nodes -> Seq(RunRecord)]
         /\ \A m \in Nodes : m # n => runs'[m] = runs[m]
         /\ Len(runs'[n]) = Len(runs[n]) + 1
         /\ \A r \in 1..Len(runs[n]) : runs'[n][r] = runs[n][r]
         /\ runs'[n][Len(runs[n]) + 1].status = status
         /\ runs'[n][Len(runs[n]) + 1].errorKind = kind
         /\ machineRuns' \in [Nodes -> Nat]
         /\ consumedControl' \in [Nodes -> [Nodes -> Nat]]
         /\ consumedInputs' \in [Nodes -> [Nodes -> Nat]]
         /\ adviseRetry' \in [Nodes -> Nat]
         /\ queued' = queued \ {n}
         /\ dirty' \subseteq Nodes
  <1> DEFINE ins == [s \in Nodes |-> IF s \in Sources(n) THEN OutputOf(s) ELSE 0]
             ctl == [d \in Nodes |-> IF d \in DependsOn[n]
                                     THEN ControlCompletedRound(d) ELSE 0]
             run == [status |-> status, errorKind |-> kind, inputs |-> ins, control |-> ctl,
                     advice |-> adviseRetry[n], output |-> 0, decision |-> "none"]
  <1>1. ins \in [Nodes -> Nat] /\ ctl \in [Nodes -> Nat]
    BY OutputOfType, ControlCompletedType
  <1>2. adviseRetry[n] \in Nat
    BY DEF TypeOK
  <1>3. run \in RunRecord
    BY <1>1, <1>2 DEF RunRecord
  <1>4. runs' = [runs EXCEPT ![n] = Append(@, run)]
    BY DEF BeginRound
  <1>5. run.status = status /\ run.errorKind = kind
    OBVIOUS
  <1>6. runs[n] \in Seq(RunRecord) /\ runs \in [Nodes -> Seq(RunRecord)]
    BY DEF TypeOK
  <1>7. /\ runs' \in [Nodes -> Seq(RunRecord)]
        /\ \A m \in Nodes : m # n => runs'[m] = runs[m]
        /\ runs'[n] = Append(runs[n], run)
    <2> HIDE DEF run
    <2> QED BY <1>3, <1>4, <1>6
  <1>8. /\ Len(runs'[n]) = Len(runs[n]) + 1
        /\ \A r \in 1..Len(runs[n]) : runs'[n][r] = runs[n][r]
        /\ runs'[n][Len(runs[n]) + 1] = run
    <2> HIDE DEF run
    <2> QED BY <1>3, <1>6, <1>7
  <1>9. machineRuns' \in [Nodes -> Nat] /\ adviseRetry' \in [Nodes -> Nat]
    BY DEF BeginRound, TypeOK
  <1>10. consumedControl' \in [Nodes -> [Nodes -> Nat]]
    <2> DEFINE taken == [d \in Nodes |-> IF d \in DependsOn[n] THEN ControlCompletedRound(d)
                                         ELSE consumedControl[n][d]]
    <2>1. taken \in [Nodes -> Nat]
      <3>1. consumedControl[n] \in [Nodes -> Nat]
        BY DEF TypeOK
      <3>2. QED
        BY <3>1, ControlCompletedType
    <2>2. consumedControl' = [consumedControl EXCEPT ![n] = taken]
      BY DEF BeginRound
    <2>3. QED
      <3> HIDE DEF taken
      <3> QED BY <2>1, <2>2 DEF TypeOK
  <1>11. consumedInputs' \in [Nodes -> [Nodes -> Nat]]
    <2> DEFINE taken == [s \in Nodes |-> IF s \in Sources(n) /\ OutputOf(s) # 0
                                         THEN OutputOf(s) ELSE consumedInputs[n][s]]
    <2>1. taken \in [Nodes -> Nat]
      <3>1. consumedInputs[n] \in [Nodes -> Nat]
        BY DEF TypeOK
      <3>2. QED
        BY <3>1, OutputOfType
    <2>2. consumedInputs' = [consumedInputs EXCEPT ![n] = taken]
      BY DEF BeginRound
    <2>3. QED
      <3> HIDE DEF taken
      <3> QED BY <2>1, <2>2 DEF TypeOK
  <1>12. queued' = queued \ {n} /\ dirty' \subseteq Nodes
    BY DEF BeginRound, TypeOK
  <1>13. QED
    <2> HIDE DEF run
    <2> QED BY <1>5, <1>7, <1>8, <1>9, <1>10, <1>11, <1>12
-----------------------------------------------------------------------------
(* The invariant holds initially and is preserved.                         *)

LEMMA BusyIsFinite ==
  ASSUME NodesAssumption
  PROVE  IsFiniteSet(Busy)
  BY FS_Subset DEF Busy, NodesAssumption

LEMMA IInvInit ==
  ASSUME NodesAssumption, LimitAssumption, Init
  PROVE  IInv
  <1>1. TypeOK
    <2>1. runs \in [Nodes -> Seq(RunRecord)]
      BY DEF Init
    <2>2. QED
      BY <2>1 DEF Init, TypeOK, Tasks
  <1>2. Busy = {}
    BY DEF Init, Busy
  <1>3. InflightIsBounded /\ AdvisePromptsAreCounted
    BY <1>2, FS_EmptySet DEF Init, InflightIsBounded, AdvisePromptsAreCounted, LimitAssumption
  <1>4. TaskHasRound /\ AdviceIsAboutAnOldRound /\ DispatchIsLive /\ QueuedIsStartable
    BY FS_EmptySet
    DEF Init, TaskHasRound, AdviceIsAboutAnOldRound, DispatchIsLive, QueuedIsStartable
  <1>5. QED
    BY <1>1, <1>3, <1>4 DEF IInv

\* The coordinator moves on without touching rounds, goroutines, prompts or the list.
LEMMA ControlStep ==
  ASSUME IInv,
         UNCHANGED <<queueVars, flightVars, adviseVars, inputVars, runs, machineRuns,
                     outputVersion, humanClosed, humanEvents>>,
         pc' \in {"top", "decide", "idle", "select", "done"} \cup {pc},
         ctxDone' \in BOOLEAN,
         stopping' \in {stopping, TRUE},
         stopping' = stopping \/ pc' # "dispatch",
         runErr' \in Nodes \cup {runErr},
         runStatus' \in {"Failed", "Stopped", runStatus}
  PROVE  IInv'
  <1> USE DEF queueVars, flightVars, adviseVars, inputVars
  <1>1. TypeOK'
    BY DEF IInv, TypeOK
  <1>2. TaskHasRound' /\ AdviceIsAboutAnOldRound'
    BY DEF IInv, TaskHasRound, AdviceIsAboutAnOldRound, Round, Status, Current
  <1>3. DispatchIsLive'
    BY DEF IInv, TypeOK, DispatchIsLive
  <1>4. InflightIsBounded' /\ AdvisePromptsAreCounted'
    BY DEF IInv, InflightIsBounded, AdvisePromptsAreCounted, Busy
  <1>5. QueuedIsStartable'
    BY DEF IInv, TypeOK, QueuedIsStartable, CanPrepare, Round, Status, Current
  <1>6. QED
    BY <1>1, <1>2, <1>3, <1>4, <1>5 DEF IInv

\* The list grows by nodes that may start a round.
LEMMA QueueStep ==
  ASSUME IInv, NEW joining \in SUBSET Nodes, \A n \in joining : CanPrepare(n),
         ~stopping,
         queued' = queued \cup joining,
         dirty' \subseteq Nodes,
         pc' \in {"top", "dispatch"},
         UNCHANGED <<ctxDone, stopping, runVars, flightVars, adviseVars, inputVars,
                     runs, machineRuns, outputVersion, humanClosed, humanEvents>>
  PROVE  IInv'
  <1> USE DEF runVars, flightVars, adviseVars, inputVars
  <1>1. TypeOK'
    BY DEF IInv, TypeOK
  <1>2. TaskHasRound' /\ AdviceIsAboutAnOldRound' /\ DispatchIsLive'
    BY DEF IInv, TaskHasRound, AdviceIsAboutAnOldRound, DispatchIsLive, Round, Status, Current
  <1>3. InflightIsBounded' /\ AdvisePromptsAreCounted'
    BY DEF IInv, InflightIsBounded, AdvisePromptsAreCounted, Busy
  <1>4. \A n \in joining : task[n] = "none"
    BY DEF IInv, TaskHasRound, CanPrepare
  <1>5. QueuedIsStartable'
    BY <1>4 DEF IInv, QueuedIsStartable, CanPrepare, Round, Status, Current
  <1>6. QED
    BY <1>1, <1>2, <1>3, <1>5 DEF IInv

\* A new round of n leaves the open advise prompts about older rounds.
LEMMA NewRoundKeepsAdvice ==
  ASSUME IInv, NEW n \in Nodes,
         Len(runs'[n]) = Len(runs[n]) + 1,
         \A m \in Nodes : m # n => runs'[m] = runs[m],
         \A m \in Nodes : m # n => task'[m] = task[m],
         advising' = advising
  PROVE  AdviceIsAboutAnOldRound'
  <1>1. IsFiniteSet(advising) /\ advising \subseteq Nodes \X Nat
    BY DEF IInv, TypeOK, AdviceIsAboutAnOldRound
  <1>2. ASSUME NEW p \in advising
        PROVE  /\ p[2] \in 1..Len(runs'[p[1]])
               /\ p[2] = Len(runs'[p[1]]) => task'[p[1]] = "none"
    <2>1. p[1] \in Nodes /\ p[2] \in 1..Len(runs[p[1]])
      BY <1>1 DEF IInv, AdviceIsAboutAnOldRound, Round
    <2>2. p[2] = Len(runs[p[1]]) => task[p[1]] = "none"
      BY DEF IInv, AdviceIsAboutAnOldRound, Round
    <2>3. Len(runs[n]) \in Nat
      BY RoundType DEF IInv, Round
    <2>4. CASE p[1] = n
      BY <2>1, <2>3, <2>4
    <2>5. CASE p[1] # n
      BY <2>1, <2>2, <2>5
    <2>6. QED
      BY <2>4, <2>5
  <1>3. QED
    BY <1>1, <1>2 DEF AdviceIsAboutAnOldRound, Round

LEMMA StartRoundStep ==
  ASSUME NodesAssumption, BindingAssumption, LimitAssumption, IInv,
         NEW n \in Nodes, StartRound(n)
  PROVE  IInv'
  <1> DEFINE status == IF n \in Approvals THEN "WaitingHuman" ELSE "Running"
  <1>1. status \in {"Running", "WaitingHuman", "Failed"} /\ BeginRound(n, status, "none")
    BY DEF StartRound
  <1>2. TypeOK /\ ~stopping /\ n \in queued /\ task[n] = "none"
    BY DEF IInv, DispatchIsLive, QueuedIsStartable, StartRound, IsFirst
  <1>3. /\ runs' \in [Nodes -> Seq(RunRecord)]
        /\ \A m \in Nodes : m # n => runs'[m] = runs[m]
        /\ Len(runs'[n]) = Len(runs[n]) + 1
        /\ runs'[n][Len(runs[n]) + 1].status = status
        /\ queued' = queued \ {n}
    BY <1>1, <1>2, BeginRoundFacts
  <1>4. /\ machineRuns' \in [Nodes -> Nat]
        /\ consumedControl' \in [Nodes -> [Nodes -> Nat]]
        /\ consumedInputs' \in [Nodes -> [Nodes -> Nat]]
        /\ adviseRetry' \in [Nodes -> Nat]
        /\ dirty' \subseteq Nodes
    BY <1>1, <1>2, BeginRoundFacts
  <1>5. Len(runs[n]) \in Nat
    BY <1>2, RoundType DEF Round
  <1>6. /\ task' \in [Nodes -> Tasks] /\ task'[n] # "none"
        /\ \A m \in Nodes : m # n => task'[m] = task[m]
    BY <1>2 DEF StartRound, TypeOK, Tasks
  <1>7. TypeOK'
    <2>1. UNCHANGED <<pc, ctxDone, stopping, runErr, runStatus, pendingAdvise, advising,
                      outputVersion, humanClosed, humanEvents>>
      BY DEF StartRound, loopVars, runVars
    <2>2. inflight' \in Nat
      BY <1>2 DEF StartRound, TypeOK
    <2>3. queued' \subseteq Nodes
      BY <1>2, <1>3 DEF TypeOK
    <2>4. QED
      BY <1>2, <1>3, <1>4, <1>6, <2>1, <2>2, <2>3 DEF TypeOK
  <1>8. TaskHasRound'
    <2>1. \A m \in Nodes : m # n => (task'[m] # "none" =>
            Len(runs'[m]) > 0 /\ Status(m)' \in {"Running", "WaitingHuman"})
      BY <1>3, <1>6 DEF IInv, TaskHasRound, Round, Status, Current
    <2>2. Len(runs'[n]) > 0 /\ Status(n)' = status
      BY <1>3, <1>5 DEF Round, Status, Current
    <2>3. QED
      BY <2>1, <2>2 DEF TaskHasRound, Round
  <1>9. AdviceIsAboutAnOldRound'
    <2>1. advising' = advising
      BY DEF StartRound
    <2>2. QED
      BY <1>3, <1>6, <2>1, NewRoundKeepsAdvice
  <1>10. DispatchIsLive'
    BY <1>2 DEF DispatchIsLive, StartRound, loopVars
  <1>11. InflightIsBounded'
    <2>1. Busy' = Busy \cup {n} /\ n \notin Busy
      BY <1>2, <1>6 DEF Busy
    <2>2. Cardinality(Busy') = Cardinality(Busy) + 1
      BY <2>1, BusyIsFinite, FS_AddElement
    <2>3. QED
      BY <2>2 DEF IInv, TypeOK, InflightIsBounded, StartRound, LimitAssumption
  <1>12. AdvisePromptsAreCounted'
    BY DEF IInv, AdvisePromptsAreCounted, StartRound
  <1>13. QueuedIsStartable'
    BY ZenonT(30), <1>2, <1>3, <1>6
    DEF IInv, TypeOK, QueuedIsStartable, CanPrepare, Round, Status, Current
  <1>14. QED
    BY <1>7, <1>8, <1>9, <1>10, <1>11, <1>12, <1>13 DEF IInv

LEMMA TripConvergenceGuardStep ==
  ASSUME NodesAssumption, BindingAssumption, LimitAssumption, IInv,
         NEW n \in Nodes, TripConvergenceGuard(n)
  PROVE  IInv'
  <1>1. BeginRound(n, "Failed", "structural")
    BY DEF TripConvergenceGuard
  <1>2. TypeOK /\ ~stopping /\ n \in queued /\ task[n] = "none"
    BY DEF IInv, DispatchIsLive, QueuedIsStartable, TripConvergenceGuard, IsFirst
  <1>3. /\ runs' \in [Nodes -> Seq(RunRecord)]
        /\ \A m \in Nodes : m # n => runs'[m] = runs[m]
        /\ Len(runs'[n]) = Len(runs[n]) + 1
        /\ queued' = queued \ {n}
    BY <1>1, <1>2, BeginRoundFacts
  <1>4. /\ machineRuns' \in [Nodes -> Nat]
        /\ consumedControl' \in [Nodes -> [Nodes -> Nat]]
        /\ consumedInputs' \in [Nodes -> [Nodes -> Nat]]
        /\ adviseRetry' \in [Nodes -> Nat]
        /\ dirty' \subseteq Nodes
    BY <1>1, <1>2, BeginRoundFacts
  <1>5. task' = task /\ stopping' = TRUE /\ pc' = "decide" /\ inflight' = inflight
    BY DEF TripConvergenceGuard, flightVars
  <1>6. Len(runs[n]) \in Nat
    BY <1>2, RoundType DEF Round
  <1>7. TypeOK'
    BY <1>2, <1>3, <1>4, <1>5 DEF TypeOK, TripConvergenceGuard
  <1>8. TaskHasRound'
    BY <1>2, <1>3, <1>5 DEF IInv, TaskHasRound, Round, Status, Current
  <1>9. AdviceIsAboutAnOldRound'
    <2>1. advising' = advising
      BY DEF TripConvergenceGuard
    <2>2. QED
      BY <1>3, <1>5, <2>1, NewRoundKeepsAdvice
  <1>10. InflightIsBounded' /\ AdvisePromptsAreCounted'
    BY <1>5 DEF IInv, InflightIsBounded, AdvisePromptsAreCounted, Busy, TripConvergenceGuard
  <1>11. DispatchIsLive' /\ QueuedIsStartable'
    BY <1>5 DEF DispatchIsLive, QueuedIsStartable
  <1>12. QED
    BY <1>7, <1>8, <1>9, <1>10, <1>11 DEF IInv

\* A goroutine returns and its node's current round takes its outcome.
LEMMA TakeResultStep ==
  ASSUME NodesAssumption, LimitAssumption, IInv,
         NEW n \in Nodes, task[n] # "none", TakeResult(n),
         NEW run \in RunRecord, SetCurrent(n, run),
         stopping' \in {stopping, TRUE},
         queued' = queued
  PROVE  /\ runs' \in [Nodes -> Seq(RunRecord)]
         /\ task' \in [Nodes -> Tasks]
         /\ inflight' \in Nat
         /\ TaskHasRound' /\ DispatchIsLive' /\ InflightIsBounded' /\ QueuedIsStartable'
         /\ task'[n] = "none"
         /\ \A m \in Nodes : Round(m)' = Round(m)
         /\ \A m \in Nodes : task'[m] \in {task[m], "none"}
  <1>1. TypeOK /\ Round(n) > 0
    BY DEF IInv, TaskHasRound
  <1>2. /\ runs' \in [Nodes -> Seq(RunRecord)]
        /\ \A m \in Nodes : Len(runs'[m]) = Len(runs[m])
        /\ \A m \in Nodes : m # n => runs'[m] = runs[m]
    BY <1>1, SetCurrentFacts
  <1>3. /\ task' \in [Nodes -> Tasks]
        /\ task'[n] = "none"
        /\ \A m \in Nodes : m # n => task'[m] = task[m]
    BY <1>1 DEF TakeResult, TypeOK, Tasks
  <1>4. Busy' = Busy \ {n} /\ n \in Busy
    BY <1>3 DEF Busy
  <1>5. Cardinality(Busy') = Cardinality(Busy) - 1
    BY <1>4, BusyIsFinite, FS_RemoveElement
  <1>6. Cardinality(Busy') \in Nat
    BY <1>4, BusyIsFinite, FS_RemoveElement, FS_CardinalityType
  <1>7. inflight' \in Nat /\ InflightIsBounded'
    BY <1>1, <1>5, <1>6 DEF IInv, InflightIsBounded, TakeResult, TypeOK, LimitAssumption
  <1>8. TaskHasRound'
    BY <1>2, <1>3 DEF IInv, TaskHasRound, Round, Status, Current
  <1>9. DispatchIsLive'
    BY DEF DispatchIsLive, TakeResult
  <1>10. QueuedIsStartable'
    BY <1>1, <1>2, <1>3
    DEF IInv, TypeOK, QueuedIsStartable, CanPrepare, Round, Status, Current
  <1>11. QED
    BY <1>2, <1>3, <1>7, <1>8, <1>9, <1>10 DEF Round

\* Every outcome is again a round record.
LEMMA OutcomeType ==
  ASSUME NEW run \in RunRecord
  PROVE  /\ \A version \in Nat :
              [run EXCEPT !.status = "Succeeded", !.output = version] \in RunRecord
         /\ \A kind \in {"interaction", "structural"} :
              [run EXCEPT !.status = "Failed", !.errorKind = kind] \in RunRecord
         /\ [run EXCEPT !.status = IF @ = "Running" THEN "Failed" ELSE @,
                        !.errorKind = "structural"] \in RunRecord
         /\ \A decision \in {"approved", "rejected"} :
              [run EXCEPT !.status = "Running", !.decision = decision] \in RunRecord
         /\ [run EXCEPT !.errorKind = "structural"] \in RunRecord
  BY DEF RunRecord

\* The result of a round that leaves the advise prompts alone.
LEMMA RoundClosedStep ==
  ASSUME NodesAssumption, LimitAssumption, IInv,
         NEW n \in Nodes, task[n] # "none", TakeResult(n),
         NEW run \in RunRecord, SetCurrent(n, run),
         UNCHANGED <<ctxDone, queueVars, adviseVars, inputVars>>,
         stopping' \in {stopping, TRUE},
         runErr' \in Nodes \cup {runErr},
         runStatus' \in {"Failed", runStatus},
         machineRuns' \in [Nodes -> Nat],
         outputVersion' \in [Nodes -> Nat],
         humanClosed' \subseteq HumanInputs,
         humanEvents' \in Nat
  PROVE  IInv'
  <1>1. queued' = queued /\ advising' = advising /\ pendingAdvise' = pendingAdvise
    BY DEF queueVars, adviseVars
  <1>2. /\ runs' \in [Nodes -> Seq(RunRecord)]
        /\ task' \in [Nodes -> Tasks]
        /\ inflight' \in Nat
        /\ TaskHasRound' /\ DispatchIsLive' /\ InflightIsBounded' /\ QueuedIsStartable'
    BY <1>1, TakeResultStep
  <1>3. /\ \A m \in Nodes : Round(m)' = Round(m)
        /\ \A m \in Nodes : task'[m] \in {task[m], "none"}
    BY <1>1, TakeResultStep
  <1>4. TypeOK'
    BY <1>2 DEF IInv, TypeOK, TakeResult, queueVars, adviseVars, inputVars
  <1>5. AdviceIsAboutAnOldRound'
    BY <1>1, <1>3 DEF IInv, TypeOK, AdviceIsAboutAnOldRound
  <1>6. AdvisePromptsAreCounted'
    BY <1>1 DEF IInv, AdvisePromptsAreCounted
  <1>7. QED
    BY <1>2, <1>4, <1>5, <1>6 DEF IInv

\* A success replaces the current round and may give the node its next output version.
LEMMA SucceedFacts ==
  ASSUME TypeOK, NEW n \in Nodes, Round(n) > 0, NEW produced \in BOOLEAN, Succeed(n, produced)
  PROVE  /\ outputVersion' \in [Nodes -> Nat]
         /\ \E run \in RunRecord : run.status = "Succeeded" /\ SetCurrent(n, run)
  <1> DEFINE version == IF produced THEN outputVersion[n] + 1 ELSE 0
             run == [Current(n) EXCEPT !.status = "Succeeded", !.output = version]
  <1>1. outputVersion \in [Nodes -> Nat] /\ Current(n) \in RunRecord
    BY RoundType DEF TypeOK
  <1>2. outputVersion' = [outputVersion EXCEPT ![n] = IF produced THEN @ + 1 ELSE @]
    BY DEF Succeed
  <1>3. outputVersion' \in [Nodes -> Nat] /\ version \in Nat
    BY <1>1, <1>2
  <1>4. run \in RunRecord
    BY <1>1, <1>3, OutcomeType
  <1>5. run.status = "Succeeded"
    BY <1>1 DEF RunRecord
  <1>6. SetCurrent(n, run)
    BY DEF Succeed
  <1>7. QED
    BY <1>3, <1>4, <1>5, <1>6

LEMMA RoundSucceedsStep ==
  ASSUME NodesAssumption, LimitAssumption, IInv, NEW n \in Nodes, RoundSucceeds(n)
  PROVE  IInv'
  <1>1. TypeOK /\ Round(n) > 0 /\ task[n] # "none"
    BY DEF IInv, TaskHasRound, RoundSucceeds
  <1>2. PICK produced \in BOOLEAN : Succeed(n, produced)
    BY DEF RoundSucceeds
  <1>3. outputVersion' \in [Nodes -> Nat]
    BY <1>1, <1>2, SucceedFacts
  <1>4. PICK run \in RunRecord : SetCurrent(n, run)
    BY <1>1, <1>2, SucceedFacts
  <1>5. QED
    BY <1>1, <1>3, <1>4, RoundClosedStep DEF RoundSucceeds, TypeOK, runVars

LEMMA RoundFailsStructuralStep ==
  ASSUME NodesAssumption, LimitAssumption, IInv, NEW n \in Nodes, RoundFailsStructural(n)
  PROVE  IInv'
  <1>1. TypeOK /\ Current(n) \in RunRecord
    BY RoundType DEF IInv, TaskHasRound, RoundFailsStructural
  <1>2. [Current(n) EXCEPT !.status = "Failed", !.errorKind = "structural"] \in RunRecord
    BY <1>1, OutcomeType
  <1>3. /\ stopping' \in {stopping, TRUE}
        /\ runErr' \in Nodes \cup {runErr}
        /\ runStatus' \in {"Failed", runStatus}
    BY DEF RoundFailsStructural, Blame, runVars
  <1>4. QED
    BY <1>1, <1>2, <1>3, RoundClosedStep DEF RoundFailsStructural, TypeOK

LEMMA RoundCancelledStep ==
  ASSUME NodesAssumption, LimitAssumption, IInv, NEW n \in Nodes, RoundCancelled(n)
  PROVE  IInv'
  <1>1. TypeOK /\ Current(n) \in RunRecord
    BY RoundType DEF IInv, TaskHasRound, RoundCancelled
  <1>2. [Current(n) EXCEPT !.status = IF @ = "Running" THEN "Failed" ELSE @,
                          !.errorKind = "structural"] \in RunRecord
    BY <1>1, OutcomeType
  <1>3. QED
    BY <1>1, <1>2, RoundClosedStep DEF RoundCancelled, TypeOK, runVars

LEMMA HumanInputGivenStep ==
  ASSUME NodesAssumption, LimitAssumption, IInv, NEW n \in Nodes, HumanInputGiven(n)
  PROVE  IInv'
  <1>1. TypeOK /\ Round(n) > 0 /\ task[n] # "none"
    BY DEF IInv, TaskHasRound, HumanInputGiven
  <1>2. Succeed(n, TRUE)
    BY DEF HumanInputGiven
  <1>3. outputVersion' \in [Nodes -> Nat]
    BY <1>1, <1>2, SucceedFacts
  <1>4. PICK run \in RunRecord : SetCurrent(n, run)
    BY <1>1, <1>2, SucceedFacts
  <1>5. /\ humanClosed' \subseteq HumanInputs /\ humanEvents' \in Nat
        /\ machineRuns' \in [Nodes -> Nat]
    BY SMTT(30), <1>1 DEF HumanInputGiven, HumanAnswers, ResetConvergence, TypeOK
  <1>6. QED
    BY <1>1, <1>3, <1>4, <1>5, RoundClosedStep DEF HumanInputGiven, runVars

\* A repairable failure closes the round and opens a prompt about it, which is a new one.
LEMMA RoundFailsInteractionStep ==
  ASSUME NodesAssumption, LimitAssumption, IInv, NEW n \in Nodes, RoundFailsInteraction(n)
  PROVE  IInv'
  <1>1. /\ TypeOK /\ task[n] # "none" /\ Round(n) \in Nat /\ Round(n) > 0
        /\ Current(n) \in RunRecord
    BY RoundType DEF IInv, TaskHasRound, RoundFailsInteraction
  <1> DEFINE run == [Current(n) EXCEPT !.status = "Failed", !.errorKind = "interaction"]
             prompt == <<n, Round(n)>>
  <1>2. run \in RunRecord
    BY <1>1, OutcomeType
  <1>3. TakeResult(n) /\ SetCurrent(n, run) /\ queued' = queued /\ stopping' = stopping
    BY DEF RoundFailsInteraction, queueVars
  <1>4. /\ runs' \in [Nodes -> Seq(RunRecord)]
        /\ task' \in [Nodes -> Tasks]
        /\ inflight' \in Nat
        /\ TaskHasRound' /\ DispatchIsLive' /\ InflightIsBounded' /\ QueuedIsStartable'
    BY <1>1, <1>2, <1>3, TakeResultStep
  <1>5. /\ task'[n] = "none"
        /\ \A m \in Nodes : Round(m)' = Round(m)
        /\ \A m \in Nodes : task'[m] \in {task[m], "none"}
    BY <1>1, <1>2, <1>3, TakeResultStep
  <1>6. /\ advising' = advising \cup {prompt}
        /\ pendingAdvise' = pendingAdvise + 1
    BY DEF RoundFailsInteraction
  <1>7. prompt \in Nodes \X Nat /\ prompt \notin advising
    BY <1>1 DEF IInv, AdviceIsAboutAnOldRound
  <1>8. TypeOK'
    <2>1. /\ pc' = "top"
          /\ UNCHANGED <<ctxDone, stopping, runErr, runStatus, queued, dirty, adviseRetry,
                         consumedControl, consumedInputs, machineRuns, outputVersion,
                         humanClosed, humanEvents>>
      BY DEF RoundFailsInteraction, TakeResult, runVars, queueVars, inputVars
    <2>2. advising' \subseteq Nodes \X Nat /\ pendingAdvise' \in Nat
      BY SMTT(30), <1>1, <1>6, <1>7 DEF TypeOK
    <2>3. QED
      BY <1>1, <1>4, <2>1, <2>2 DEF TypeOK
  <1>9. AdviceIsAboutAnOldRound'
    <2>1. IsFiniteSet(advising')
      BY <1>6, FS_AddElement DEF IInv, AdviceIsAboutAnOldRound
    <2>2. \A p \in advising' : /\ p[2] \in 1..Round(p[1])
                               /\ p[2] = Round(p[1]) => task'[p[1]] = "none"
      <3>1. prompt[1] = n /\ prompt[2] = Round(n)
        OBVIOUS
      <3>2. ASSUME NEW p \in advising
            PROVE  /\ p[1] \in Nodes /\ p[2] \in 1..Round(p[1])
                   /\ p[2] = Round(p[1]) => task[p[1]] = "none"
        BY <1>1 DEF IInv, TypeOK, AdviceIsAboutAnOldRound
      <3>3. QED
        BY <1>1, <1>5, <1>6, <3>1, <3>2
    <2>3. \A p \in advising' : Round(p[1])' = Round(p[1])
      BY <1>1, <1>5, <1>6, <1>7 DEF TypeOK
    <2>4. QED
      BY <2>1, <2>2, <2>3 DEF AdviceIsAboutAnOldRound
  <1>10. AdvisePromptsAreCounted'
    BY <1>6, <1>7, FS_AddElement DEF IInv, AdviceIsAboutAnOldRound, AdvisePromptsAreCounted
  <1>11. QED
    BY <1>4, <1>8, <1>9, <1>10 DEF IInv

\* A decision turns the waiting round into a running one, on a goroutine of its own.
LEMMA ApprovalDecidedStep ==
  ASSUME IInv, NEW n \in Nodes, ApprovalDecided(n)
  PROVE  IInv'
  <1>1. TypeOK /\ Round(n) > 0 /\ task[n] # "none" /\ Current(n) \in RunRecord
    BY RoundType DEF IInv, TaskHasRound, ApprovalDecided
  <1>2. PICK decision \in {"approved", "rejected"} :
          SetCurrent(n, [Current(n) EXCEPT !.status = "Running", !.decision = decision])
    BY DEF ApprovalDecided
  <1> DEFINE run == [Current(n) EXCEPT !.status = "Running", !.decision = decision]
  <1>3. run \in RunRecord /\ run.status = "Running"
    <2>1. run \in RunRecord
      BY <1>1, OutcomeType
    <2>2. QED
      BY <1>1, <2>1 DEF RunRecord
  <1>4. /\ runs' \in [Nodes -> Seq(RunRecord)]
        /\ \A m \in Nodes : Len(runs'[m]) = Len(runs[m])
        /\ \A m \in Nodes : m # n => runs'[m] = runs[m]
        /\ runs'[n][Round(n)] = run
    <2> HIDE DEF run
    <2> QED BY <1>1, <1>2, <1>3, SetCurrentFacts DEF run
  <1>5. /\ task' \in [Nodes -> Tasks] /\ task'[n] # "none"
        /\ \A m \in Nodes : m # n => task'[m] = task[m]
    BY <1>1 DEF ApprovalDecided, TypeOK, Tasks
  <1>6. Busy' = Busy
    BY <1>1, <1>5 DEF Busy
  <1>7. /\ pc' = "top"
        /\ UNCHANGED <<ctxDone, stopping, runErr, runStatus, queued, dirty, inflight,
                       pendingAdvise, advising, adviseRetry, consumedControl, consumedInputs,
                       outputVersion, humanClosed>>
    BY DEF ApprovalDecided, runVars, queueVars, adviseVars, inputVars
  <1>8. machineRuns' \in [Nodes -> Nat] /\ humanEvents' \in Nat
    <2>1. machineRuns' = [m \in Nodes |-> 0] /\ humanEvents' = humanEvents + 1
      BY DEF ApprovalDecided, ResetConvergence, HumanAnswers
    <2>2. QED
      BY <1>1, <2>1 DEF TypeOK
  <1>9. TypeOK'
    BY <1>1, <1>4, <1>5, <1>7, <1>8 DEF TypeOK
  <1>10. TaskHasRound'
    <2>1. \A m \in Nodes : m # n => Status(m)' = Status(m) /\ Round(m)' = Round(m)
      BY <1>4 DEF Status, Current, Round
    <2>2. Status(n)' = "Running" /\ Round(n)' = Round(n)
      <3> HIDE DEF run
      <3> QED BY <1>1, <1>3, <1>4 DEF Status, Current, Round
    <2>3. QED
      BY <1>1, <1>5, <2>1, <2>2 DEF IInv, TaskHasRound
  <1>11. AdviceIsAboutAnOldRound'
    <2>1. \A m \in Nodes : Round(m)' = Round(m)
      BY <1>4 DEF Round
    <2>2. QED
      BY <1>1, <1>5, <1>7, <2>1 DEF IInv, TypeOK, AdviceIsAboutAnOldRound
  <1>12. DispatchIsLive' /\ InflightIsBounded' /\ AdvisePromptsAreCounted'
    BY <1>6, <1>7 DEF IInv, DispatchIsLive, InflightIsBounded, AdvisePromptsAreCounted
  <1>13. QueuedIsStartable'
    <2>1. ASSUME ~stopping', NEW m \in queued'
          PROVE  task'[m] = "none" /\ CanPrepare(m)'
      <3>1. m \in Nodes /\ task[m] = "none" /\ CanPrepare(m)
        BY <1>1, <1>7, <2>1 DEF IInv, TypeOK, QueuedIsStartable
      <3>2. runs'[m] = runs[m] /\ task'[m] = task[m]
        BY <1>1, <1>4, <1>5, <3>1
      <3>3. QED
        BY <3>1, <3>2 DEF CanPrepare, Status, Current, Round
    <2>2. QED
      BY <2>1 DEF QueuedIsStartable
  <1>14. QED
    BY <1>9, <1>10, <1>11, <1>12, <1>13 DEF IInv

\* Taking an advise prompt's result keeps the count right.
LEMMA TakeAdviceFacts ==
  ASSUME IInv, NEW p \in advising, TakeAdvice(p)
  PROVE  /\ pc' = "top"
         /\ advising' \subseteq advising /\ IsFiniteSet(advising')
         /\ pendingAdvise' \in Nat
         /\ AdvisePromptsAreCounted'
         /\ p[1] \in Nodes /\ p[2] \in Nat
         /\ Round(p[1]) > 0 /\ Current(p[1]) \in RunRecord
  <1>1. IsFiniteSet(advising) /\ advising' = advising \ {p}
    BY DEF IInv, AdviceIsAboutAnOldRound, TakeAdvice
  <1>2. /\ Cardinality(advising') = Cardinality(advising) - 1
        /\ IsFiniteSet(advising') /\ Cardinality(advising') \in Nat
    BY <1>1, FS_RemoveElement, FS_CardinalityType
  <1>3. p[1] \in Nodes /\ p[2] \in Nat /\ p[2] \in 1..Round(p[1])
    BY DEF IInv, TypeOK, AdviceIsAboutAnOldRound
  <1>4. Round(p[1]) > 0 /\ Current(p[1]) \in RunRecord
    BY <1>3, RoundType DEF IInv
  <1>5. QED
    BY <1>1, <1>2, <1>3, <1>4 DEF IInv, TypeOK, AdvisePromptsAreCounted, TakeAdvice

\* Advice is stored, or skipped: no round changes.
LEMMA AdviceAnsweredStep ==
  ASSUME IInv, NEW p \in advising, AdviceGiven(p) \/ AdviceSkipped(p)
  PROVE  IInv'
  <1>1. TakeAdvice(p)
    BY DEF AdviceGiven, AdviceSkipped
  <1>2. /\ pc' = "top"
        /\ advising' \subseteq advising /\ IsFiniteSet(advising')
        /\ pendingAdvise' \in Nat
        /\ AdvisePromptsAreCounted'
        /\ p[1] \in Nodes /\ p[2] \in Nat
    BY <1>1, TakeAdviceFacts
  <1>3. UNCHANGED <<ctxDone, stopping, runErr, runStatus, queued, dirty, inflight, task, runs,
                    consumedControl, consumedInputs, outputVersion, humanClosed>>
    BY DEF AdviceGiven, AdviceSkipped, runVars, queueVars, flightVars, inputVars
  <1>4. adviseRetry' \in [Nodes -> Nat] /\ machineRuns' \in [Nodes -> Nat] /\ humanEvents' \in Nat
    <2>1. CASE AdviceGiven(p)
      <3>1. /\ adviseRetry' = [adviseRetry EXCEPT ![p[1]] = p[2]]
            /\ machineRuns' = [m \in Nodes |-> 0]
            /\ humanEvents' = humanEvents + 1
        BY <2>1 DEF AdviceGiven, ResetConvergence, HumanAnswers
      <3>2. adviseRetry \in [Nodes -> Nat] /\ humanEvents \in Nat
        BY DEF IInv, TypeOK
      <3>3. PICK n \in Nodes, r \in Nat : p[1] = n /\ p[2] = r
        BY <1>2
      <3>4. adviseRetry' = [adviseRetry EXCEPT ![n] = r]
        BY <3>1, <3>3
      <3>5. adviseRetry' \in [Nodes -> Nat]
        BY <3>2, <3>4
      <3>6. humanEvents' \in Nat
        BY <3>1, <3>2
      <3>7. machineRuns' \in [Nodes -> Nat]
        BY <3>1
      <3>8. QED
        BY <3>5, <3>6, <3>7
    <2>2. CASE AdviceSkipped(p)
      <3>1. /\ adviseRetry' = adviseRetry /\ machineRuns' = machineRuns
            /\ humanEvents' \in {humanEvents, humanEvents + 1}
        BY <2>2 DEF AdviceSkipped, HumanAnswers
      <3>2. /\ adviseRetry \in [Nodes -> Nat] /\ machineRuns \in [Nodes -> Nat]
            /\ humanEvents \in Nat
        BY DEF IInv, TypeOK
      <3>3. humanEvents' \in Nat
        BY <3>1, <3>2
      <3>4. QED
        BY <3>1, <3>2, <3>3
    <2>3. QED
      BY <2>1, <2>2
  <1>5. TypeOK'
    BY <1>2, <1>3, <1>4 DEF IInv, TypeOK
  <1>6. TaskHasRound' /\ DispatchIsLive' /\ InflightIsBounded'
    BY <1>2, <1>3
    DEF IInv, TaskHasRound, DispatchIsLive, InflightIsBounded, Busy, Round, Status, Current
  <1>7. AdviceIsAboutAnOldRound'
    BY <1>2, <1>3 DEF IInv, AdviceIsAboutAnOldRound, Round
  <1>8. QueuedIsStartable'
    BY <1>3 DEF IInv, QueuedIsStartable, CanPrepare, Round, Status, Current
  <1>9. QED
    BY <1>2, <1>5, <1>6, <1>7, <1>8 DEF IInv

\* A failed prompt marks the node's current round as beyond repair and stops the run.
LEMMA AdviceFailsStep ==
  ASSUME IInv, NEW p \in advising, AdviceFails(p)
  PROVE  IInv'
  <1>1. TakeAdvice(p) /\ TypeOK
    BY DEF AdviceFails, IInv
  <1>2. /\ pc' = "top"
        /\ advising' \subseteq advising /\ IsFiniteSet(advising')
        /\ pendingAdvise' \in Nat
        /\ AdvisePromptsAreCounted'
        /\ p[1] \in Nodes /\ p[2] \in Nat
        /\ Round(p[1]) > 0 /\ Current(p[1]) \in RunRecord
    BY <1>1, TakeAdviceFacts
  <1> DEFINE n == p[1]
             run == [Current(n) EXCEPT !.errorKind = "structural"]
  <1>3. run \in RunRecord /\ run.status = Current(n).status
    <2>1. run \in RunRecord
      BY <1>2, OutcomeType
    <2>2. QED
      BY <1>2, <2>1 DEF RunRecord
  <1>4. /\ runs' \in [Nodes -> Seq(RunRecord)]
        /\ \A m \in Nodes : Len(runs'[m]) = Len(runs[m])
        /\ \A m \in Nodes : m # n => runs'[m] = runs[m]
        /\ runs'[n][Round(n)] = run
    <2>1. SetCurrent(n, run)
      BY DEF AdviceFails
    <2>2. QED
      BY <1>1, <1>2, <1>3, <2>1, SetCurrentFacts
  <1>5. /\ stopping' = TRUE /\ runErr' = n /\ runStatus' = "Failed"
        /\ UNCHANGED <<ctxDone, queued, dirty, inflight, task, adviseRetry, consumedControl,
                       consumedInputs, machineRuns, outputVersion, humanClosed, humanEvents>>
    BY DEF AdviceFails, Blame, queueVars, flightVars, inputVars
  <1>6. TypeOK'
    BY <1>1, <1>2, <1>4, <1>5 DEF TypeOK
  <1>7. \A m \in Nodes : Round(m)' = Round(m) /\ Status(m)' = Status(m)
    <2>1. \A m \in Nodes : m # n => Status(m)' = Status(m) /\ Round(m)' = Round(m)
      BY <1>4 DEF Status, Current, Round
    <2>2. Status(n)' = Status(n) /\ Round(n)' = Round(n)
      BY <1>2, <1>3, <1>4 DEF Status, Current, Round
    <2>3. QED
      BY <2>1, <2>2
  <1>8. TaskHasRound'
    BY <1>5, <1>7 DEF IInv, TaskHasRound
  <1>9. AdviceIsAboutAnOldRound'
    BY <1>1, <1>2, <1>5, <1>7 DEF IInv, TypeOK, AdviceIsAboutAnOldRound
  <1>10. DispatchIsLive' /\ InflightIsBounded' /\ QueuedIsStartable'
    BY <1>2, <1>5 DEF IInv, DispatchIsLive, InflightIsBounded, QueuedIsStartable, Busy
  <1>11. QED
    BY <1>2, <1>6, <1>8, <1>9, <1>10 DEF IInv

LEMMA CoordinateStep ==
  ASSUME NodesAssumption, BindingAssumption, LimitAssumption, IInv, Coordinate
  PROVE  IInv'
  <1>1. TypeOK /\ DispatchIsLive
    BY DEF IInv
  <1>2. CASE EnqueueReady
    <2> DEFINE joining == {n \in Nodes \ queued : Ready(n)}
    <2>1. \A n \in joining : CanPrepare(n)
      BY DEF Ready
    <2>2. dirty' \subseteq Nodes
      BY <1>1, <1>2 DEF EnqueueReady, TypeOK
    <2>3. QED
      <3>1. queued' = queued \cup joining /\ joining \in SUBSET Nodes
        BY <1>2 DEF EnqueueReady
      <3>2. QED
        BY <1>2, <2>1, <2>2, <3>1, QueueStep DEF EnqueueReady
  <1>3. CASE \E n \in Nodes : StartRound(n) \/ TripConvergenceGuard(n)
    BY <1>3, StartRoundStep, TripConvergenceGuardStep
  <1>4. CASE PromptNextInput
    <2>1. PICK n \in OpenInputs : queued' = queued \cup {n}
      BY <1>4 DEF PromptNextInput
    <2>2. n \in Nodes /\ CanPrepare(n)
      BY NodesAssumption DEF NodesAssumption, OpenInputs, CanPrepare
    <2>3. {n} \in SUBSET Nodes /\ \A m \in {n} : CanPrepare(m)
      BY <2>2
    <2>4. dirty' \subseteq Nodes /\ ~stopping /\ pc' = "top"
      BY <1>1, <1>4 DEF PromptNextInput, Settled, TypeOK
    <2>5. QED
      BY <1>4, <2>1, <2>3, <2>4, QueueStep DEF PromptNextInput
  <1>5. CASE FailBlockedInput
    <2>1. runErr' \in Nodes
      BY <1>5 DEF FailBlockedInput
    <2>2. QED
      BY <1>1, <1>5, <2>1, ControlStep DEF FailBlockedInput, TypeOK
  <1>6. CASE NoteStopping
    BY <1>1, <1>6, ControlStep DEF NoteStopping, runVars, TypeOK
  <1>7. CASE DispatchDone
    BY <1>1, <1>7, ControlStep DEF DispatchDone, runVars, TypeOK
  <1>8. CASE EndRun
    BY <1>1, <1>8, ControlStep DEF EndRun, FinalStatus, TypeOK
  <1>9. CASE GoIdle
    BY <1>1, <1>9, ControlStep DEF GoIdle, runVars, TypeOK
  <1>10. CASE AwaitResult
    BY <1>1, <1>10, ControlStep DEF AwaitResult, runVars, TypeOK
  <1>11. CASE WakeOnCancel
    BY <1>1, <1>11, ControlStep DEF WakeOnCancel, runVars, TypeOK
  <1>12. QED
    BY <1>2, <1>3, <1>4, <1>5, <1>6, <1>7, <1>8, <1>9, <1>10, <1>11 DEF Coordinate

LEMMA IInvNext ==
  ASSUME NodesAssumption, BindingAssumption, LimitAssumption, IInv, [Next]_vars
  PROVE  IInv'
  <1>1. CASE Coordinate
    BY <1>1, CoordinateStep
  <1>2. CASE \E n \in Nodes : RoundReturns(n)
    BY <1>2, RoundSucceedsStep, RoundFailsInteractionStep, RoundFailsStructuralStep,
       RoundCancelledStep DEF RoundReturns
  <1>3. CASE PromptReturns
    BY <1>3, HumanInputGivenStep, ApprovalDecidedStep, RoundFailsStructuralStep,
       AdviceAnsweredStep, AdviceFailsStep DEF PromptReturns
  <1>4. CASE Cancel
    BY <1>4, ControlStep DEF Cancel, runVars, IInv, TypeOK
  <1>5. CASE UNCHANGED vars
    BY <1>5, ControlStep DEF vars, loopVars, runVars, IInv, TypeOK
  <1>6. QED
    BY <1>1, <1>2, <1>3, <1>4, <1>5 DEF Next, Finished
-----------------------------------------------------------------------------
(* The theorems.                                                           *)

\* The coordinator's state satisfies the inductive invariant throughout every run.
THEOREM Inductive == Spec => []IInv
  <1>1. Init => IInv
    BY IInvInit, NodesAssumption, LimitAssumption
  <1>2. IInv /\ [Next]_vars => IInv'
    BY IInvNext, NodesAssumption, BindingAssumption, LimitAssumption
  <1>3. QED
    BY <1>1, <1>2, PTL DEF Spec

\* Every variable stays within the values the code gives it, for every workflow.
THEOREM TypeCorrect == Spec => []TypeOK
  <1>1. IInv => TypeOK
    BY DEF IInv
  <1>2. QED
    BY <1>1, Inductive, PTL

\* inflight counts the goroutines that owe a result and respects the parallelism.
THEOREM InflightCorrect == Spec => []InflightIsBounded
  <1>1. IInv => InflightIsBounded
    BY DEF IInv
  <1>2. QED
    BY <1>1, Inductive, PTL

\* pendingAdvise counts the advise prompts still out.
THEOREM AdviseCorrect == Spec => []AdvisePromptsAreCounted
  <1>1. IInv => AdvisePromptsAreCounted
    BY DEF IInv
  <1>2. QED
    BY <1>1, Inductive, PTL

\* A live run never queues a node that could not start: prepareRun does not fail.
THEOREM QueueCorrect == Spec => []QueuedIsStartable
  <1>1. IInv => QueuedIsStartable
    BY DEF IInv
  <1>2. QED
    BY <1>1, Inductive, PTL
-----------------------------------------------------------------------------
(* The scheduler implements RunLedger.                                     *)

EntryKinds == {"open", "succeeded", "failed", "dead"}

LEMMA EntriesFacts ==
  ASSUME TypeOK, NEW n \in Nodes
  PROVE  /\ Entries[n] \in Seq(EntryKinds)
         /\ Len(Entries[n]) = Round(n)
         /\ \A r \in 1..Round(n) : Entries[n][r] = Entry(n, r)
  <1>1. Round(n) \in Nat
    BY RoundType
  <1>2. Entries[n] = [r \in 1..Round(n) |-> Entry(n, r)]
    BY DEF Entries
  <1>3. \A r \in 1..Round(n) : Entry(n, r) \in EntryKinds
    BY DEF Entry, EntryKinds
  <1>4. Entries[n] \in [1..Round(n) -> EntryKinds]
    BY <1>2, <1>3
  <1>5. Entries[n] \in Seq(EntryKinds)
    BY <1>1, <1>4
  <1>6. Len(Entries[n]) = Round(n)
    BY <1>1, <1>4, <1>5
  <1>7. QED
    BY <1>2, <1>5, <1>6

RecordIsTyped ==
  \A n \in Nodes : /\ Entries[n] \in Seq(EntryKinds)
                   /\ Len(Entries[n]) = Round(n)
                   /\ \A r \in 1..Round(n) : Entries[n][r] = Entry(n, r)

\* The same of the next state.
LEMMA EntriesFactsNext == TypeOK' => RecordIsTyped'
  <1>1. TypeOK => RecordIsTyped
    BY EntriesFacts DEF RecordIsTyped
  <1>2. QED
    BY <1>1, PTL

\* What a reader sees as the state of n's last round.
LEMMA LastEntry ==
  ASSUME TypeOK, NEW n \in Nodes
  PROVE  /\ Round(n) = 0 => Ledger!LastOf(Entries[n]) = "none"
         /\ Round(n) > 0 => Ledger!LastOf(Entries[n]) = Entry(n, Round(n))
  BY EntriesFacts, RoundType DEF Ledger!LastOf

\* Steps that change no round and no goroutine leave the record alone.
LEMMA RecordKept ==
  ASSUME runs' = runs, task' = task
  PROVE  Entries' = Entries
  BY DEF Entries, Entry, Round

\* The record of one node decides the whole record when the others stay.
LEMMA RecordOfOneNode ==
  ASSUME NEW n \in Nodes, NEW s,
         \A m \in Nodes : m # n => runs'[m] = runs[m] /\ task'[m] = task[m],
         Entries'[n] = s
  PROVE  Entries' = [Entries EXCEPT ![n] = s]
  <1>1. \A m \in Nodes : m # n => Entries'[m] = Entries[m]
    BY DEF Entries, Entry, Round
  <1>2. Entries \in [Nodes -> {Entries[m] : m \in Nodes}]
    BY DEF Entries
  <1>3. Entries' = [m \in Nodes |-> Entries'[m]]
    BY DEF Entries
  <1>4. QED
    BY <1>1, <1>2, <1>3

\* A new round appends its entry.
LEMMA RecordGrows ==
  ASSUME TypeOK, TypeOK', NEW n \in Nodes,
         \A m \in Nodes : m # n => runs'[m] = runs[m] /\ task'[m] = task[m],
         Len(runs'[n]) = Len(runs[n]) + 1,
         \A r \in 1..Len(runs[n]) : runs'[n][r] = runs[n][r],
         CanPrepare(n), task[n] = "none",
         NEW kind \in EntryKinds, Entry(n, Round(n))' = kind
  PROVE  Entries' = [Entries EXCEPT ![n] = Append(@, kind)]
  <1>1. /\ Entries[n] \in Seq(EntryKinds) /\ Len(Entries[n]) = Round(n)
        /\ \A r \in 1..Round(n) : Entries[n][r] = Entry(n, r)
    BY EntriesFacts
  <1>2. /\ Entries'[n] \in Seq(EntryKinds) /\ Len(Entries'[n]) = Round(n)'
        /\ \A r \in 1..Round(n)' : Entries'[n][r] = Entry(n, r)'
    BY EntriesFactsNext DEF RecordIsTyped
  <1>3. Round(n) \in Nat /\ Round(n)' = Round(n) + 1
    BY RoundType DEF Round
  <1>4. \A r \in 1..Round(n) : Entry(n, r)' = Entry(n, r)
    BY <1>3 DEF Entry, CanPrepare, Status, Current, Round
  <1>5. Entries'[n] = Append(Entries[n], kind)
    <2>1. /\ Append(Entries[n], kind) \in Seq(EntryKinds)
          /\ Len(Append(Entries[n], kind)) = Len(Entries[n]) + 1
          /\ \A r \in 1..Len(Entries[n]) : Append(Entries[n], kind)[r] = Entries[n][r]
          /\ Append(Entries[n], kind)[Len(Entries[n]) + 1] = kind
      BY <1>1, AppendProperties
    <2>2. \A r \in 1..Round(n)' : Append(Entries[n], kind)[r] = Entries'[n][r]
      BY <1>1, <1>2, <1>3, <1>4, <2>1
    <2>3. Len(Append(Entries[n], kind)) = Len(Entries'[n])
      BY <1>1, <1>2, <1>3, <2>1
    <2>4. QED
      BY <1>2, <2>1, <2>2, <2>3, SeqEqual
  <1>6. QED
    BY <1>5, RecordOfOneNode

\* An outcome replaces the last entry.
LEMMA RecordSettles ==
  ASSUME TypeOK, TypeOK', NEW n \in Nodes, Round(n) > 0,
         \A m \in Nodes : m # n => runs'[m] = runs[m] /\ task'[m] = task[m],
         Len(runs'[n]) = Len(runs[n]),
         \A r \in 1..Len(runs[n]) : r # Len(runs[n]) => runs'[n][r] = runs[n][r],
         NEW kind \in EntryKinds, Entry(n, Round(n))' = kind
  PROVE  Entries' = [Entries EXCEPT ![n][Len(Entries[n])] = kind]
  <1>1. /\ Entries[n] \in Seq(EntryKinds) /\ Len(Entries[n]) = Round(n)
        /\ \A r \in 1..Round(n) : Entries[n][r] = Entry(n, r)
    BY EntriesFacts
  <1>2. /\ Entries'[n] \in Seq(EntryKinds) /\ Len(Entries'[n]) = Round(n)'
        /\ \A r \in 1..Round(n)' : Entries'[n][r] = Entry(n, r)'
    BY EntriesFactsNext DEF RecordIsTyped
  <1>3. Round(n) \in Nat /\ Round(n)' = Round(n)
    BY RoundType DEF Round
  <1>4. \A r \in 1..Round(n) : r # Round(n) => Entry(n, r)' = Entry(n, r)
    BY <1>3 DEF Entry, Round
  <1> DEFINE settled == [Entries[n] EXCEPT ![Round(n)] = kind]
  <1>5. /\ settled \in Seq(EntryKinds) /\ Len(settled) = Round(n)
        /\ \A r \in 1..Round(n) : settled[r] = IF r = Round(n) THEN kind ELSE Entries[n][r]
    BY <1>1, <1>3, ExceptSeq
  <1>6. Entries'[n] = settled
    <2>1. \A r \in 1..Round(n) : Entries'[n][r] = settled[r]
      <3> HIDE DEF settled
      <3> QED BY <1>1, <1>2, <1>3, <1>4, <1>5
    <2>2. QED
      <3> HIDE DEF settled
      <3> QED BY <1>2, <1>3, <1>5, <2>1, SeqEqual
  <1>7. Entries' = [Entries EXCEPT ![n] = settled]
    BY <1>6, RecordOfOneNode
  <1>8. QED
    BY <1>1, <1>7

\* Rewriting the last entry with its own value changes nothing.
LEMMA RecordRewritten ==
  ASSUME TypeOK, NEW n \in Nodes, Round(n) > 0,
         Entries' = [Entries EXCEPT ![n][Len(Entries[n])] = Entry(n, Round(n))]
  PROVE  Entries' = Entries
  <1>1. /\ Entries[n] \in Seq(EntryKinds) /\ Len(Entries[n]) = Round(n)
        /\ Entries[n][Round(n)] = Entry(n, Round(n)) /\ Round(n) \in Nat
    BY EntriesFacts, RoundType
  <1>2. Entries \in [Nodes -> {Entries[m] : m \in Nodes}]
    BY DEF Entries
  <1>3. [Entries[n] EXCEPT ![Len(Entries[n])] = Entry(n, Round(n))] = Entries[n]
    BY <1>1
  <1>4. QED
    BY <1>2, <1>3

LEMMA QuietRefines ==
  ASSUME runs' = runs, task' = task, pc # "done", pc' # "done",
         stopping \in BOOLEAN, stopping' \in {stopping, TRUE}
  PROVE  [Ledger!LedgerNext]_(Ledger!ledgerVars)
  <1>1. Entries' = Entries
    BY RecordKept
  <1>2. CASE stopping' = stopping
    BY <1>1, <1>2 DEF Ledger!ledgerVars
  <1>3. CASE stopping' = TRUE
    BY <1>1, <1>3 DEF Ledger!LedgerNext, Ledger!CloseRun
  <1>4. QED
    BY <1>2, <1>3

LEMMA EndRefines ==
  ASSUME NodesAssumption, IInv, EndRun
  PROVE  Ledger!LedgerNext
  <1>1. Entries' = Entries
    BY RecordKept DEF EndRun, flightVars
  <1>2. Busy = {}
    <2>1. Cardinality(Busy) = 0
      BY DEF IInv, InflightIsBounded, EndRun, Drained
    <2>2. QED
      BY <2>1, BusyIsFinite, FS_EmptySet
  <1>3. ASSUME NEW n \in Nodes
        PROVE  Ledger!LastOf(Entries[n]) # "open"
    <2>1. task[n] = "none"
      BY <1>2 DEF Busy
    <2>2. Round(n) > 0 => Entry(n, Round(n)) # "open"
      BY <2>1 DEF Entry
    <2>3. QED
      BY <2>2, LastEntry, RoundType DEF IInv
  <1>4. stopping = TRUE /\ stopping' = stopping /\ (pc' = "done") = TRUE
    BY DEF EndRun, Drained, IInv, TypeOK
  <1>5. Ledger!End
    BY <1>1, <1>3, <1>4 DEF Ledger!End
  <1>6. QED
    BY <1>5 DEF Ledger!LedgerNext

\* A queued node's last entry allows another round.
LEMMA StartableEntry ==
  ASSUME TypeOK, NEW n \in Nodes, CanPrepare(n), task[n] = "none"
  PROVE  Ledger!LastOf(Entries[n]) \in {"none", "succeeded", "failed"}
  <1>1. Round(n) > 0 => Entry(n, Round(n)) \in {"succeeded", "failed"}
    <2>1. Round(n) > 0 => Round(n) # 0 /\ Current(n).status # "Pending"
      BY RoundType DEF RunRecord
    <2>2. Round(n) > 0 => \/ Current(n).status = "Succeeded"
                          \/ Current(n).status = "Failed" /\ Current(n).errorKind = "interaction"
      BY <2>1 DEF CanPrepare, Status
    <2>3. QED
      BY <2>2 DEF Entry, Current
  <1>2. Round(n) = 0 \/ Round(n) > 0
    <2>1. Round(n) \in Nat
      BY RoundType
    <2>2. QED
      BY <2>1
  <1>3. QED
    BY <1>1, <1>2, LastEntry

LEMMA StartRoundRefines ==
  ASSUME NodesAssumption, BindingAssumption, IInv, IInv',
         NEW n \in Nodes, StartRound(n)
  PROVE  Ledger!LedgerNext
  <1> DEFINE status == IF n \in Approvals THEN "WaitingHuman" ELSE "Running"
  <1>1. status \in {"Running", "WaitingHuman", "Failed"} /\ BeginRound(n, status, "none")
    BY DEF StartRound
  <1>2. /\ TypeOK /\ TypeOK' /\ ~stopping /\ CanPrepare(n) /\ task[n] = "none"
        /\ stopping' = stopping /\ pc = "dispatch" /\ pc' = "dispatch"
    BY DEF IInv, DispatchIsLive, QueuedIsStartable, StartRound, IsFirst, loopVars
  <1>3. /\ \A m \in Nodes : m # n => runs'[m] = runs[m]
        /\ Len(runs'[n]) = Len(runs[n]) + 1
        /\ \A r \in 1..Len(runs[n]) : runs'[n][r] = runs[n][r]
        /\ runs'[n][Len(runs[n]) + 1].status = status
    BY <1>1, <1>2, BeginRoundFacts
  <1>4. \A m \in Nodes : m # n => task'[m] = task[m]
    BY <1>2 DEF StartRound, TypeOK
  <1>5. task'[n] # "none"
    BY <1>2 DEF StartRound, TypeOK
  <1>6. Entry(n, Round(n))' = "open"
    BY <1>3, <1>5 DEF Entry, Round
  <1>7. Entries' = [Entries EXCEPT ![n] = Append(@, "open")]
    BY <1>2, <1>3, <1>4, <1>6, RecordGrows DEF EntryKinds
  <1>8. Ledger!LastOf(Entries[n]) \in {"none", "succeeded", "failed"}
    BY <1>2, StartableEntry
  <1>9. QED
    BY <1>2, <1>7, <1>8 DEF Ledger!LedgerNext, Ledger!Open

LEMMA TripConvergenceGuardRefines ==
  ASSUME NodesAssumption, BindingAssumption, IInv, IInv',
         NEW n \in Nodes, TripConvergenceGuard(n)
  PROVE  Ledger!LedgerNext
  <1>1. BeginRound(n, "Failed", "structural")
    BY DEF TripConvergenceGuard
  <1>2. /\ TypeOK /\ TypeOK' /\ ~stopping /\ CanPrepare(n) /\ task[n] = "none"
        /\ stopping' = TRUE /\ pc = "dispatch" /\ pc' = "decide" /\ task' = task
    BY DEF IInv, DispatchIsLive, QueuedIsStartable, TripConvergenceGuard, IsFirst, flightVars
  <1>3. /\ \A m \in Nodes : m # n => runs'[m] = runs[m]
        /\ Len(runs'[n]) = Len(runs[n]) + 1
        /\ \A r \in 1..Len(runs[n]) : runs'[n][r] = runs[n][r]
        /\ runs'[n][Len(runs[n]) + 1].status = "Failed"
        /\ runs'[n][Len(runs[n]) + 1].errorKind = "structural"
    BY <1>1, <1>2, BeginRoundFacts
  <1>4. Entry(n, Round(n))' = "dead"
    BY <1>2, <1>3 DEF Entry, Round
  <1>5. Entries' = [Entries EXCEPT ![n] = Append(@, "dead")]
    BY <1>2, <1>3, <1>4, RecordGrows DEF EntryKinds
  <1>6. Ledger!LastOf(Entries[n]) \in {"none", "succeeded", "failed"}
    BY <1>2, StartableEntry
  <1>7. QED
    BY <1>2, <1>5, <1>6 DEF Ledger!LedgerNext, Ledger!Open

\* A returned round closes its entry; only a structural failure may close the run with it.
LEMMA TakeResultRefines ==
  ASSUME IInv, IInv', NEW n \in Nodes, task[n] # "none", TakeResult(n),
         NEW run \in RunRecord, SetCurrent(n, run),
         \/ stopping' = stopping
         \/ stopping' = TRUE /\ run.status = "Failed" /\ run.errorKind = "structural"
  PROVE  Ledger!LedgerNext
  <1>1. /\ TypeOK /\ TypeOK' /\ Round(n) > 0 /\ Status(n) # "Succeeded"
        /\ pc = "select" /\ pc' = "top"
    BY DEF IInv, TaskHasRound, TakeResult
  <1>2. /\ \A m \in Nodes : Len(runs'[m]) = Len(runs[m])
        /\ runs'[n][Round(n)] = run
        /\ \A m \in Nodes : m # n => runs'[m] = runs[m]
        /\ \A r \in 1..Round(n) : r # Round(n) => runs'[n][r] = runs[n][r]
    BY <1>1, SetCurrentFacts
  <1>3. task'[n] = "none" /\ \A m \in Nodes : m # n => task'[m] = task[m]
    BY <1>1 DEF TakeResult, TypeOK
  <1> DEFINE kind == Entry(n, Round(n))'
  <1>4. kind \in {"succeeded", "failed", "dead"}
    BY <1>3 DEF Entry
  <1>5. run.status = "Failed" /\ run.errorKind = "structural" => kind = "dead"
    BY <1>2, <1>3 DEF Entry, Round
  <1>6. Entries' = [Entries EXCEPT ![n][Len(Entries[n])] = kind]
    <2>1. kind \in EntryKinds
      BY <1>4 DEF EntryKinds
    <2> HIDE DEF kind
    <2>2. QED
      BY <1>1, <1>2, <1>3, <2>1, RecordSettles DEF Round, kind
  <1>7. Ledger!LastOf(Entries[n]) = "open"
    <2>1. Entry(n, Round(n)) = "open"
      BY <1>1 DEF Entry, Status, Current
    <2>2. QED
      BY <1>1, <2>1, LastEntry
  <1>8. QED
    <2> HIDE DEF kind
    <2>1. stopping' \in {stopping, stopping \/ kind = "dead"}
      BY <1>1, <1>5 DEF TypeOK
    <2>2. Ledger!Settle(n)
      BY <1>1, <1>4, <1>6, <1>7, <2>1 DEF Ledger!Settle
    <2>3. QED
      BY <2>2 DEF Ledger!LedgerNext

LEMMA RoundReturnsRefines ==
  ASSUME IInv, IInv', NEW n \in Nodes, RoundReturns(n) \/ RoundFailsStructural(n)
  PROVE  Ledger!LedgerNext
  <1>1. task[n] # "none" /\ TakeResult(n)
    BY DEF RoundReturns, RoundSucceeds, RoundFailsInteraction, RoundFailsStructural, RoundCancelled
  <1>2. TypeOK /\ Round(n) > 0 /\ Current(n) \in RunRecord
    BY <1>1, RoundType DEF IInv, TaskHasRound
  <1>3. CASE RoundSucceeds(n)
    <2>1. PICK produced \in BOOLEAN : Succeed(n, produced)
      BY <1>3 DEF RoundSucceeds
    <2>2. PICK run \in RunRecord : SetCurrent(n, run)
      BY <1>2, <2>1, SucceedFacts
    <2>3. stopping' = stopping
      BY <1>3 DEF RoundSucceeds
    <2>4. QED
      BY <1>1, <2>2, <2>3, TakeResultRefines
  <1>4. CASE RoundFailsInteraction(n)
    <2> DEFINE run == [Current(n) EXCEPT !.status = "Failed", !.errorKind = "interaction"]
    <2>1. run \in RunRecord
      BY <1>2, OutcomeType
    <2>2. SetCurrent(n, run) /\ stopping' = stopping
      BY <1>4 DEF RoundFailsInteraction
    <2>3. QED
      BY <1>1, <2>1, <2>2, TakeResultRefines
  <1>5. CASE RoundFailsStructural(n)
    <2> DEFINE run == [Current(n) EXCEPT !.status = "Failed", !.errorKind = "structural"]
    <2>1. run \in RunRecord
      BY <1>2, OutcomeType
    <2>2. run.status = "Failed" /\ run.errorKind = "structural"
      BY <1>2 DEF RunRecord
    <2>3. SetCurrent(n, run) /\ (stopping' = stopping \/ stopping' = TRUE)
      BY <1>5 DEF RoundFailsStructural, Blame
    <2>4. QED
      <3> HIDE DEF run
      <3> QED BY <1>1, <2>1, <2>2, <2>3, TakeResultRefines
  <1>6. CASE RoundCancelled(n)
    <2> DEFINE run == [Current(n) EXCEPT !.status = IF @ = "Running" THEN "Failed" ELSE @,
                                        !.errorKind = "structural"]
    <2>1. run \in RunRecord
      BY <1>2, OutcomeType
    <2>2. SetCurrent(n, run) /\ stopping' = stopping
      BY <1>6 DEF RoundCancelled
    <2>3. QED
      <3> HIDE DEF run
      <3> QED BY <1>1, <2>1, <2>2, TakeResultRefines
  <1>7. QED
    BY <1>3, <1>4, <1>5, <1>6 DEF RoundReturns

LEMMA HumanInputGivenRefines ==
  ASSUME IInv, IInv', NEW n \in Nodes, HumanInputGiven(n)
  PROVE  Ledger!LedgerNext
  <1>1. TypeOK /\ Round(n) > 0 /\ task[n] # "none" /\ TakeResult(n) /\ stopping' = stopping
    BY DEF IInv, TaskHasRound, HumanInputGiven
  <1>2. Succeed(n, TRUE)
    BY DEF HumanInputGiven
  <1>3. PICK run \in RunRecord : SetCurrent(n, run)
    BY <1>1, <1>2, SucceedFacts
  <1>4. QED
    BY <1>1, <1>3, TakeResultRefines

\* A decision leaves its round open.
LEMMA ApprovalDecidedRefines ==
  ASSUME IInv, IInv', NEW n \in Nodes, ApprovalDecided(n)
  PROVE  [Ledger!LedgerNext]_(Ledger!ledgerVars)
  <1>1. /\ TypeOK /\ TypeOK' /\ Round(n) > 0 /\ task[n] # "none" /\ Current(n) \in RunRecord
        /\ Status(n) # "Succeeded" /\ pc = "select" /\ pc' = "top" /\ stopping' = stopping
    BY RoundType DEF IInv, TaskHasRound, ApprovalDecided
  <1>2. PICK decision \in {"approved", "rejected"} :
          SetCurrent(n, [Current(n) EXCEPT !.status = "Running", !.decision = decision])
    BY DEF ApprovalDecided
  <1> DEFINE run == [Current(n) EXCEPT !.status = "Running", !.decision = decision]
  <1>3. run \in RunRecord /\ run.status = "Running"
    <2>1. run \in RunRecord
      BY <1>1, OutcomeType
    <2>2. QED
      BY <1>1, <2>1 DEF RunRecord
  <1>4. /\ \A m \in Nodes : Len(runs'[m]) = Len(runs[m])
        /\ runs'[n][Round(n)] = run
        /\ \A m \in Nodes : m # n => runs'[m] = runs[m]
        /\ \A r \in 1..Round(n) : r # Round(n) => runs'[n][r] = runs[n][r]
    <2> HIDE DEF run
    <2> QED BY <1>1, <1>2, <1>3, SetCurrentFacts DEF run
  <1>5. task'[n] # "none" /\ \A m \in Nodes : m # n => task'[m] = task[m]
    BY <1>1 DEF ApprovalDecided, TypeOK
  <1>6. Entry(n, Round(n))' = "open" /\ Entry(n, Round(n)) = "open"
    <2> HIDE DEF run
    <2> QED BY <1>1, <1>3, <1>4, <1>5 DEF Entry, Round, Status, Current
  <1>7. Entries' = [Entries EXCEPT ![n][Len(Entries[n])] = "open"]
    BY <1>1, <1>4, <1>5, <1>6, RecordSettles DEF EntryKinds, Round
  <1>8. Entries' = Entries
    BY <1>1, <1>6, <1>7, RecordRewritten
  <1>9. QED
    BY <1>1, <1>8 DEF Ledger!ledgerVars

\* A failed advise prompt closes the run; a failure that could have been retried is final now.
LEMMA AdviceFailsRefines ==
  ASSUME IInv, IInv', NEW p \in advising, AdviceFails(p)
  PROVE  Ledger!LedgerNext
  <1> DEFINE n == p[1]
             run == [Current(n) EXCEPT !.errorKind = "structural"]
             kind == Entry(n, Round(n))'
  <1>1. /\ TypeOK /\ TypeOK' /\ n \in Nodes /\ Round(n) > 0 /\ Current(n) \in RunRecord
        /\ TakeAdvice(p)
    BY TakeAdviceFacts DEF IInv, AdviceFails
  <1>2. SetCurrent(n, run) /\ task' = task /\ stopping' = TRUE /\ pc = "select" /\ pc' = "top"
    BY DEF AdviceFails, TakeAdvice, Blame, flightVars
  <1>3. run \in RunRecord /\ run.status = Current(n).status /\ run.errorKind = "structural"
    <2>1. run \in RunRecord
      BY <1>1, OutcomeType
    <2>2. QED
      BY <1>1, <2>1 DEF RunRecord
  <1>4. /\ \A m \in Nodes : Len(runs'[m]) = Len(runs[m])
        /\ runs'[n][Round(n)] = run
        /\ \A m \in Nodes : m # n => runs'[m] = runs[m]
        /\ \A r \in 1..Round(n) : r # Round(n) => runs'[n][r] = runs[n][r]
    <2> HIDE DEF run, n
    <2> QED BY <1>1, <1>2, <1>3, SetCurrentFacts
  <1>5. \/ kind = Entry(n, Round(n))
        \/ kind = "dead" /\ Entry(n, Round(n)) = "failed"
    <2> HIDE DEF run, n
    <2> QED BY <1>1, <1>2, <1>3, <1>4 DEF Entry, Round, Current
  <1>6. Entries' = [Entries EXCEPT ![n][Len(Entries[n])] = kind]
    <2>1. kind \in EntryKinds
      BY DEF Entry, EntryKinds
    <2> HIDE DEF run, n, kind
    <2>2. kind = Entry(n, Round(n))'
      BY DEF kind, n
    <2>3. Round(n) = Len(runs[n])
      BY DEF Round
    <2>4. QED
      BY <1>1, <1>2, <1>4, <2>1, <2>2, <2>3, RecordSettles
  <1> HIDE DEF run, n, kind
  <1>7. CASE kind = Entry(n, Round(n))
    <2>1. Entries' = Entries
      BY <1>1, <1>6, <1>7, RecordRewritten
    <2>2. QED
      BY <1>2, <2>1 DEF Ledger!LedgerNext, Ledger!CloseRun
  <1>8. CASE kind = "dead" /\ Entry(n, Round(n)) = "failed"
    <2>1. Ledger!LastOf(Entries[n]) = "failed"
      BY <1>1, <1>8, LastEntry
    <2>2. QED
      BY <1>1, <1>2, <1>6, <1>8, <2>1 DEF Ledger!LedgerNext, Ledger!Bury
  <1>9. QED
    BY <1>5, <1>7, <1>8

LEMMA LedgerInitRefines == Init => Ledger!LedgerInit
  <1> SUFFICES ASSUME Init PROVE Ledger!LedgerInit
    OBVIOUS
  <1>1. \A n \in Nodes : Round(n) = 0
    BY DEF Init, Round
  <1>2. \A n \in Nodes : Entries[n] = <<>>
    BY <1>1 DEF Entries
  <1>3. Entries = [n \in Nodes |-> <<>>]
    BY <1>2 DEF Entries
  <1>4. QED
    BY <1>3 DEF Init, Ledger!LedgerInit

LEMMA CoordinateRefines ==
  ASSUME NodesAssumption, BindingAssumption, IInv, IInv', Coordinate
  PROVE  [Ledger!LedgerNext]_(Ledger!ledgerVars)
  <1>1. stopping \in BOOLEAN
    BY DEF IInv, TypeOK
  <1>2. CASE \E n \in Nodes : StartRound(n) \/ TripConvergenceGuard(n)
    BY <1>2, StartRoundRefines, TripConvergenceGuardRefines
  <1>3. CASE EndRun
    BY <1>3, EndRefines
  <1>4. CASE EnqueueReady
    BY <1>1, <1>4, QuietRefines DEF EnqueueReady, flightVars
  <1>5. CASE NoteStopping
    BY <1>1, <1>5, QuietRefines DEF NoteStopping, flightVars
  <1>6. CASE DispatchDone
    BY <1>1, <1>6, QuietRefines DEF DispatchDone, flightVars
  <1>7. CASE FailBlockedInput
    BY <1>1, <1>7, QuietRefines DEF FailBlockedInput, flightVars
  <1>8. CASE PromptNextInput
    BY <1>1, <1>8, QuietRefines DEF PromptNextInput, flightVars
  <1>9. CASE GoIdle
    BY <1>1, <1>9, QuietRefines DEF GoIdle, flightVars
  <1>10. CASE AwaitResult
    BY <1>1, <1>10, QuietRefines DEF AwaitResult, flightVars
  <1>11. CASE WakeOnCancel
    BY <1>1, <1>11, QuietRefines DEF WakeOnCancel, flightVars
  <1>12. QED
    BY <1>2, <1>3, <1>4, <1>5, <1>6, <1>7, <1>8, <1>9, <1>10, <1>11 DEF Coordinate

\* Every step of the scheduler is a step of the ledger, or none.
LEMMA LedgerStep ==
  ASSUME NodesAssumption, BindingAssumption, IInv, IInv', [Next]_vars
  PROVE  [Ledger!LedgerNext]_(Ledger!ledgerVars)
  <1>1. stopping \in BOOLEAN
    BY DEF IInv, TypeOK
  <1>2. CASE Coordinate
    BY <1>2, CoordinateRefines
  <1>3. CASE \E n \in Nodes : RoundReturns(n)
    BY <1>3, RoundReturnsRefines
  <1>4. ASSUME NEW n \in Nodes, HumanInputGiven(n) \/ ApprovalDecided(n)
        PROVE  [Ledger!LedgerNext]_(Ledger!ledgerVars)
    BY <1>4, HumanInputGivenRefines, ApprovalDecidedRefines
  <1>5. ASSUME NEW n \in Nodes, RoundFailsStructural(n)
        PROVE  [Ledger!LedgerNext]_(Ledger!ledgerVars)
    BY <1>5, RoundReturnsRefines
  <1>6. ASSUME NEW p \in advising, AdviceGiven(p) \/ AdviceSkipped(p) \/ AdviceFails(p)
        PROVE  [Ledger!LedgerNext]_(Ledger!ledgerVars)
    <2>1. CASE AdviceFails(p)
      BY <2>1, AdviceFailsRefines
    <2>2. CASE AdviceGiven(p) \/ AdviceSkipped(p)
      BY <1>1, <2>2, QuietRefines DEF AdviceGiven, AdviceSkipped, TakeAdvice, flightVars
    <2>3. QED
      BY <1>6, <2>1, <2>2
  <1>7. CASE PromptReturns
    BY <1>4, <1>5, <1>6, <1>7 DEF PromptReturns
  <1>8. CASE Cancel
    BY <1>1, <1>8, QuietRefines DEF Cancel, flightVars
  <1>9. CASE UNCHANGED vars
    <2>1. Entries' = Entries
      BY <1>9, RecordKept DEF vars, flightVars
    <2>2. QED
      BY <1>9, <2>1 DEF vars, loopVars, Ledger!ledgerVars
  <1>10. QED
    BY <1>2, <1>3, <1>7, <1>8, <1>9 DEF Next, Finished

\* For every workflow and every limit the scheduler keeps the promise of RunLedger: rounds are
\* archived for good and close once, a run that is stopping starts nothing, a structurally
\* failed node never runs again, and the run returns with no round open.
THEOREM Refinement == Spec => ImplementsRunLedger
  <1>1. Init => Ledger!LedgerInit
    BY LedgerInitRefines
  <1>2. IInv /\ IInv' /\ [Next]_vars => [Ledger!LedgerNext]_(Ledger!ledgerVars)
    BY LedgerStep, NodesAssumption, BindingAssumption
  <1>3. QED
    BY <1>1, <1>2, Inductive, PTL DEF Spec, ImplementsRunLedger, Ledger!LedgerSpec

-----------------------------------------------------------------------------
(* How a step changes the rounds.                                          *)

\* Of every node: rounds stay, keep what they took from their control predecessors and, once
\* they succeeded, their outcome; a round that is added has not succeeded.
Kept(d) ==
  /\ Round(d)' \in Nat /\ Round(d)' >= Round(d)
  /\ \A r \in 1..Round(d) :
       /\ runs'[d][r].control = runs[d][r].control
       /\ runs[d][r].status = "Succeeded" =>
            /\ runs'[d][r].status = "Succeeded"
            /\ runs'[d][r].decision = runs[d][r].decision
       /\ r # Round(d) => runs'[d][r] = runs[d][r]
  /\ \A r \in (Round(d) + 1)..Round(d)' : runs'[d][r].status # "Succeeded"

AllKept == \A d \in Nodes : Kept(d)

LEMMA QuietKeeps ==
  ASSUME TypeOK, runs' = runs
  PROVE  AllKept
  BY RoundType DEF AllKept, Kept, Round

\* An outcome of n's current round.
LEMMA OutcomeKeeps ==
  ASSUME TypeOK, NEW n \in Nodes, Round(n) > 0, NEW run \in RunRecord, SetCurrent(n, run),
         run.control = Current(n).control,
         Current(n).status = "Succeeded" =>
           run.status = "Succeeded" /\ run.decision = Current(n).decision
  PROVE  AllKept /\ \A d \in Nodes : Round(d)' = Round(d)
  <1>1. /\ \A m \in Nodes : Len(runs'[m]) = Len(runs[m])
        /\ runs'[n][Round(n)] = run
        /\ \A m \in Nodes : m # n => runs'[m] = runs[m]
        /\ \A r \in 1..Round(n) : r # Round(n) => runs'[n][r] = runs[n][r]
    BY SetCurrentFacts
  <1>2. \A d \in Nodes : Round(d) \in Nat /\ Round(d)' = Round(d)
    BY <1>1, RoundType DEF Round
  <1>3. Kept(n)
    BY <1>1, <1>2 DEF Kept, Current
  <1>4. ASSUME NEW d \in Nodes, d # n PROVE Kept(d)
    BY <1>1, <1>2, <1>4 DEF Kept
  <1> QED
    BY <1>2, <1>3, <1>4 DEF AllKept

\* What a success, a failure or a decision makes of a round.
LEMMA OutcomeFields ==
  ASSUME NEW run \in RunRecord
  PROVE  /\ \A version \in Nat :
              [run EXCEPT !.status = "Succeeded", !.output = version].control = run.control
         /\ \A kind \in {"interaction", "structural"} :
              [run EXCEPT !.status = "Failed", !.errorKind = kind].control = run.control
         /\ [run EXCEPT !.status = IF @ = "Running" THEN "Failed" ELSE @,
                        !.errorKind = "structural"].control = run.control
         /\ \A decision \in {"approved", "rejected"} :
              [run EXCEPT !.status = "Running", !.decision = decision].control = run.control
         /\ [run EXCEPT !.errorKind = "structural"].control = run.control
         /\ [run EXCEPT !.errorKind = "structural"].status = run.status
         /\ [run EXCEPT !.errorKind = "structural"].errorKind = "structural"
         /\ [run EXCEPT !.errorKind = "structural"].decision = run.decision
  BY DEF RunRecord

\* The results of a round's goroutine, and of a prompt about it.
LEMMA ResultKeeps ==
  ASSUME IInv, NEW n \in Nodes,
         RoundReturns(n) \/ RoundFailsStructural(n) \/ HumanInputGiven(n) \/ ApprovalDecided(n)
  PROVE  AllKept /\ (\A d \in Nodes : Round(d)' = Round(d)) /\ queued' = queued
  <1>1. /\ TypeOK /\ Round(n) > 0 /\ Current(n) \in RunRecord /\ Current(n).status # "Succeeded"
        /\ queued' = queued /\ outputVersion[n] \in Nat
    BY RoundType
    DEF IInv, TypeOK, TaskHasRound, Status, queueVars, RoundReturns, RoundSucceeds,
        RoundFailsInteraction, RoundFailsStructural, RoundCancelled, HumanInputGiven, ApprovalDecided
  <1>2. CASE RoundSucceeds(n) \/ HumanInputGiven(n)
    <2>1. PICK produced \in BOOLEAN : Succeed(n, produced)
      BY <1>2 DEF RoundSucceeds, HumanInputGiven
    <2>2. PICK version \in Nat :
            SetCurrent(n, [Current(n) EXCEPT !.status = "Succeeded", !.output = version])
      <3> DEFINE version == IF produced THEN outputVersion[n] + 1 ELSE 0
      <3>1. version \in Nat
        BY <1>1
      <3>2. SetCurrent(n, [Current(n) EXCEPT !.status = "Succeeded", !.output = version])
        BY <2>1 DEF Succeed
      <3> QED
        BY <3>1, <3>2
    <2> QED
      BY <1>1, <2>2, OutcomeType, OutcomeFields, OutcomeKeeps
  <1>3. CASE RoundFailsInteraction(n) \/ RoundFailsStructural(n)
    <2>1. PICK kind \in {"interaction", "structural"} :
            SetCurrent(n, [Current(n) EXCEPT !.status = "Failed", !.errorKind = kind])
      BY <1>3 DEF RoundFailsInteraction, RoundFailsStructural
    <2> QED
      BY <1>1, <2>1, OutcomeType, OutcomeFields, OutcomeKeeps
  <1>4. CASE RoundCancelled(n)
    <2>1. SetCurrent(n, [Current(n) EXCEPT
            !.status = IF @ = "Running" THEN "Failed" ELSE @, !.errorKind = "structural"])
      BY <1>4 DEF RoundCancelled
    <2> QED
      BY <1>1, <2>1, OutcomeType, OutcomeFields, OutcomeKeeps
  <1>5. CASE ApprovalDecided(n)
    <2>1. PICK decision \in {"approved", "rejected"} :
            SetCurrent(n, [Current(n) EXCEPT !.status = "Running", !.decision = decision])
      BY <1>5 DEF ApprovalDecided
    <2> QED
      BY <1>1, <2>1, OutcomeType, OutcomeFields, OutcomeKeeps
  <1> QED
    BY <1>2, <1>3, <1>4, <1>5 DEF RoundReturns

LEMMA AdviceKeeps ==
  ASSUME IInv, NEW p \in advising, AdviceGiven(p) \/ AdviceSkipped(p) \/ AdviceFails(p)
  PROVE  AllKept /\ (\A d \in Nodes : Round(d)' = Round(d)) /\ queued' = queued
  <1>1. TypeOK /\ queued' = queued /\ TakeAdvice(p)
    BY DEF IInv, AdviceGiven, AdviceSkipped, AdviceFails, queueVars
  <1>2. CASE AdviceGiven(p) \/ AdviceSkipped(p)
    <2>1. runs' = runs
      BY <1>2 DEF AdviceGiven, AdviceSkipped
    <2> QED
      BY <1>1, <2>1, QuietKeeps DEF Round
  <1>3. CASE AdviceFails(p)
    <2>1. /\ p[1] \in Nodes /\ Round(p[1]) > 0 /\ Current(p[1]) \in RunRecord
          /\ SetCurrent(p[1], [Current(p[1]) EXCEPT !.errorKind = "structural"])
      BY <1>1, <1>3, TakeAdviceFacts DEF AdviceFails
    <2> QED
      BY <1>1, <2>1, OutcomeType, OutcomeFields, OutcomeKeeps
  <1> QED
    BY <1>2, <1>3

\* A round that starts takes the completed round of each control predecessor.
LEMMA StartKeeps ==
  ASSUME BindingAssumption, IInv, NEW n \in Nodes, StartRound(n) \/ TripConvergenceGuard(n)
  PROVE  /\ AllKept
         /\ n \in queued /\ queued' = queued \ {n}
         /\ Round(n)' = Round(n) + 1
         /\ \A d \in DependsOn[n] : runs'[n][Round(n) + 1].control[d] = ControlCompletedRound(d)
         /\ \A m \in Nodes : m # n => runs'[m] = runs[m]
  <1>1. PICK status \in {"Running", "WaitingHuman", "Failed"}, kind \in {"none", "structural"} :
          BeginRound(n, status, kind)
    <2>1. CASE StartRound(n)
      <3>1. BeginRound(n, IF n \in Approvals THEN "WaitingHuman" ELSE "Running", "none")
        BY <2>1 DEF StartRound
      <3> QED
        BY <3>1
    <2>2. CASE TripConvergenceGuard(n)
      BY <2>2 DEF TripConvergenceGuard
    <2> QED
      BY <2>1, <2>2
  <1>2. TypeOK /\ n \in queued
    BY DEF IInv, StartRound, TripConvergenceGuard, IsFirst
  <1>3. /\ \A m \in Nodes : m # n => runs'[m] = runs[m]
        /\ Len(runs'[n]) = Len(runs[n]) + 1
        /\ \A r \in 1..Len(runs[n]) : runs'[n][r] = runs[n][r]
        /\ runs'[n][Len(runs[n]) + 1].status = status
        /\ queued' = queued \ {n}
    BY <1>1, <1>2, BeginRoundFacts
  <1>4. \A d \in Nodes : Round(d) \in Nat
    BY <1>2, RoundType
  <1>5. AllKept /\ Round(n)' = Round(n) + 1
    <2>1. Round(n)' = Round(n) + 1
      BY <1>3 DEF Round
    <2>2. Kept(n)
      BY <1>3, <1>4, <2>1 DEF Kept, Round
    <2>3. ASSUME NEW d \in Nodes, d # n PROVE Kept(d)
      BY <1>3, <1>4, <2>3 DEF Kept, Round
    <2> QED
      BY <2>1, <2>2, <2>3 DEF AllKept
  <1>6. runs'[n][Round(n) + 1].control =
          [d \in Nodes |-> IF d \in DependsOn[n] THEN ControlCompletedRound(d) ELSE 0]
    <2>1. runs[n] \in Seq(RunRecord) /\ runs \in [Nodes -> Seq(RunRecord)]
      BY <1>2 DEF TypeOK
    <2> DEFINE run == [status |-> status, errorKind |-> kind,
          inputs |-> [s \in Nodes |-> IF s \in Sources(n) THEN OutputOf(s) ELSE 0],
          control |-> [d \in Nodes |-> IF d \in DependsOn[n] THEN ControlCompletedRound(d) ELSE 0],
          advice |-> adviseRetry[n], output |-> 0, decision |-> "none"]
    <2>2. runs' = [runs EXCEPT ![n] = Append(@, run)]
      BY <1>1 DEF BeginRound
    <2>3. runs'[n][Round(n) + 1] = run
      <3> HIDE DEF run
      <3> QED BY <2>1, <2>2 DEF Round
    <2> QED
      BY <2>3
  <1>7. DependsOn[n] \subseteq Nodes
    BY DEF BindingAssumption
  <1> QED
    BY <1>2, <1>3, <1>5, <1>6, <1>7

LEMMA QuietSteps ==
  ASSUME IInv,
         \/ NoteStopping \/ DispatchDone \/ EndRun \/ FailBlockedInput
         \/ GoIdle \/ AwaitResult \/ WakeOnCancel \/ Cancel \/ UNCHANGED vars
  PROVE  /\ UNCHANGED <<runs, task, queued, machineRuns>>
         /\ runErr' \in Nodes \cup {runErr}
  BY DEF NoteStopping, DispatchDone, EndRun, FailBlockedInput, GoIdle, AwaitResult,
         WakeOnCancel, Cancel, vars, queueVars, flightVars, runVars
-----------------------------------------------------------------------------
(* Gates.                                                                  *)

\* d has approved, in a round that a successor would take.
GateOpen(d) == \E r \in 1..Round(d) : IsLatestApproved(d, r)

\* What is queued or has run found the gates of its approvals open, and gates stay open.
GatesStayOpen ==
  \A n \in Nodes : n \in queued \/ Round(n) > 0 =>
    \A d \in DependsOn[n] \cap Approvals : GateOpen(d)

GateInv == GatesStayOpen /\ OnlyApprovalOpensGate

\* A gate closes for nothing that later rounds of the approval bring.
LEMMA GateKept ==
  ASSUME TypeOK, NEW d \in Nodes, Kept(d), GateOpen(d)
  PROVE  GateOpen(d)'
<1> DEFINE Approved(r) == runs[d][r].status = "Succeeded" /\ runs[d][r].decision = "approved"
           StillApproved(r) == runs'[d][r].status = "Succeeded" /\ runs'[d][r].decision = "approved"
<1>1. Round(d) \in Nat /\ Round(d)' \in Nat /\ Round(d)' >= Round(d)
  BY RoundType DEF Kept
<1>2. PICK r \in 1..Round(d) : Approved(r) /\ \A q \in (r + 1)..Round(d) : ~Approved(q)
  BY DEF GateOpen, IsLatestApproved
<1>3. \A q \in (Round(d) + 1)..Round(d)' : ~StillApproved(q)
  BY DEF Kept
<1>4. \A q \in 1..Round(d) : Approved(q) => StillApproved(q)
  BY DEF Kept
<1>5. \A q \in 1..Round(d) : q # Round(d) => (StillApproved(q) <=> Approved(q))
  BY DEF Kept
<1> HIDE DEF Approved, StillApproved
<1>6. CASE StillApproved(Round(d))
  <2>1. Round(d) \in 1..Round(d)'
    BY <1>1, <1>2
  <2> QED
    BY <1>1, <1>3, <1>6, <2>1 DEF GateOpen, IsLatestApproved, StillApproved
<1>7. CASE ~StillApproved(Round(d))
  <2>1. r \in 1..Round(d)' /\ StillApproved(r)
    BY <1>1, <1>2, <1>4
  <2>2. \A q \in (r + 1)..Round(d)' : ~StillApproved(q)
    <3> SUFFICES ASSUME NEW q \in (r + 1)..Round(d)' PROVE ~StillApproved(q)
      OBVIOUS
    <3>1. q \in (Round(d) + 1)..Round(d)' \/ q \in (r + 1)..Round(d)
      BY <1>1, <1>2
    <3> QED
      <4>1. CASE q \in (Round(d) + 1)..Round(d)'
        BY <1>3, <4>1
      <4>2. CASE q \in (r + 1)..Round(d)
        <5>1. q \in 1..Round(d) /\ ~Approved(q)
          BY <1>1, <1>2, <4>2
        <5> QED
          BY <1>5, <1>7, <5>1
      <4> QED
        BY <3>1, <4>1, <4>2
  <2>3. IsLatestApproved(d, r)'
    BY <2>1, <2>2 DEF IsLatestApproved, StillApproved
  <2> QED
    BY <2>1, <2>3 DEF GateOpen
<1> QED
  BY <1>6, <1>7

\* The round a successor takes of an approval whose gate is open is one that approved.
LEMMA OpenGateApproved ==
  ASSUME NEW d \in Approvals
  PROVE  /\ GateOpen(d) => LET a == ControlCompletedRound(d) IN
              /\ a \in 1..Round(d)
              /\ runs[d][a].status = "Succeeded"
              /\ runs[d][a].decision = "approved"
         /\ ControlCompletedRound(d) # 0 => GateOpen(d)
  BY DEF GateOpen, ControlCompletedRound, IsLatestApproved

LEMMA GateInvInit == Init => GateInv
  BY DEF Init, GateInv, GatesStayOpen, OnlyApprovalOpensGate, Round

\* Steps that start no round.
LEMMA GateInvWithoutStart ==
  ASSUME NodesAssumption, BindingAssumption, TypeOK, GateInv, AllKept,
         \A n \in Nodes : Round(n)' = Round(n),
         \A n \in queued' : n \in queued \/ \A d \in DependsOn[n] \cap Approvals : GateOpen(d)
  PROVE  GateInv'
<1>1. \A d \in Nodes : Kept(d) /\ Round(d) \in Nat
  BY RoundType DEF AllKept
<1>2. \A n \in Nodes : DependsOn[n] \subseteq Nodes
  BY DEF BindingAssumption
<1>3. GatesStayOpen'
  <2> SUFFICES ASSUME NEW n \in Nodes, n \in queued' \/ Round(n)' > 0,
                      NEW d \in DependsOn[n] \cap Approvals
               PROVE  GateOpen(d)'
    BY DEF GatesStayOpen
  <2>1. GateOpen(d)
    BY DEF GateInv, GatesStayOpen
  <2> QED
    BY <1>1, <1>2, <2>1, GateKept
<1>4. OnlyApprovalOpensGate'
  <2> SUFFICES ASSUME NEW n \in Nodes, NEW r \in 1..Round(n)', NEW d \in DependsOn[n] \cap Approvals
               PROVE  LET a == runs'[n][r].control[d]
                      IN  /\ a \in 1..Round(d)'
                          /\ runs'[d][a].status = "Succeeded"
                          /\ runs'[d][a].decision = "approved"
    BY DEF OnlyApprovalOpensGate
  <2>1. r \in 1..Round(n) /\ runs'[n][r].control = runs[n][r].control
    BY <1>1 DEF Kept
  <2>2. LET a == runs[n][r].control[d]
        IN  /\ a \in 1..Round(d)
            /\ runs[d][a].status = "Succeeded"
            /\ runs[d][a].decision = "approved"
    BY SMTT(30), <2>1 DEF GateInv, OnlyApprovalOpensGate
  <2> QED
    BY <1>1, <1>2, <2>1, <2>2 DEF Kept
<1> QED
  BY <1>3, <1>4 DEF GateInv

LEMMA GateInvStart ==
  ASSUME NodesAssumption, BindingAssumption, IInv, GateInv,
         NEW n \in Nodes, StartRound(n) \/ TripConvergenceGuard(n)
  PROVE  GateInv'
<1>1. /\ AllKept
      /\ n \in queued /\ queued' = queued \ {n}
      /\ Round(n)' = Round(n) + 1
      /\ \A d \in DependsOn[n] : runs'[n][Round(n) + 1].control[d] = ControlCompletedRound(d)
      /\ \A m \in Nodes : m # n => runs'[m] = runs[m]
  BY StartKeeps
<1>2. TypeOK /\ \A d \in Nodes : Kept(d) /\ Round(d) \in Nat
  BY <1>1, RoundType DEF IInv, AllKept
<1>3. \A m \in Nodes : DependsOn[m] \subseteq Nodes
  BY DEF BindingAssumption
<1>4. \A d \in DependsOn[n] \cap Approvals : GateOpen(d)
  BY <1>1 DEF GateInv, GatesStayOpen
<1>5. GatesStayOpen'
  <2> SUFFICES ASSUME NEW m \in Nodes, m \in queued' \/ Round(m)' > 0,
                      NEW d \in DependsOn[m] \cap Approvals
               PROVE  GateOpen(d)'
    BY DEF GatesStayOpen
  <2>1. GateOpen(d)
    BY <1>1, <1>4 DEF GateInv, GatesStayOpen, Round
  <2> QED
    BY <1>2, <1>3, <2>1, GateKept
<1>6. OnlyApprovalOpensGate'
  <2> SUFFICES ASSUME NEW m \in Nodes, NEW r \in 1..Round(m)', NEW d \in DependsOn[m] \cap Approvals
               PROVE  LET a == runs'[m][r].control[d]
                      IN  /\ a \in 1..Round(d)'
                          /\ runs'[d][a].status = "Succeeded"
                          /\ runs'[d][a].decision = "approved"
    BY DEF OnlyApprovalOpensGate
  <2>1. d \in Nodes /\ Kept(d) /\ Round(d) \in Nat
    BY <1>2, <1>3
  <2>2. CASE r \in 1..Round(m)
    <3>1. runs'[m][r].control = runs[m][r].control
      BY <1>2, <2>2 DEF Kept
    <3>2. LET a == runs[m][r].control[d]
          IN  /\ a \in 1..Round(d)
              /\ runs[d][a].status = "Succeeded"
              /\ runs[d][a].decision = "approved"
      BY <2>2 DEF GateInv, OnlyApprovalOpensGate
    <3> QED
      BY <2>1, <3>1, <3>2 DEF Kept
  <2>3. CASE r \notin 1..Round(m)
    <3>1. m = n /\ r = Round(n) + 1
      BY <1>1, <1>2, <2>3 DEF Round
    <3>2. runs'[m][r].control[d] = ControlCompletedRound(d) /\ GateOpen(d)
      BY <1>1, <1>4, <3>1
    <3> QED
      BY <2>1, <3>2, OpenGateApproved DEF Kept
  <2> QED
    BY <2>2, <2>3
<1> QED
  BY <1>5, <1>6 DEF GateInv

LEMMA GateInvNext ==
  ASSUME NodesAssumption, BindingAssumption, IInv, GateInv, [Next]_vars
  PROVE  GateInv'
<1>1. TypeOK
  BY DEF IInv
<1>2. ASSUME NEW n \in Nodes, StartRound(n) \/ TripConvergenceGuard(n) PROVE GateInv'
  BY <1>2, GateInvStart
<1>3. CASE EnqueueReady
  <2>1. AllKept /\ \A n \in Nodes : Round(n)' = Round(n)
    BY <1>1, <1>3, QuietKeeps DEF EnqueueReady, Round
  <2>2. ASSUME NEW n \in queued', n \notin queued, NEW d \in DependsOn[n] \cap Approvals
        PROVE  GateOpen(d)
    <3>1. Ready(n)
      BY <1>3, <2>2 DEF EnqueueReady
    <3> QED
      BY <3>1, OpenGateApproved DEF Ready, InputsResolved
  <2> QED
    BY <1>1, <2>1, <2>2, GateInvWithoutStart
<1>4. CASE PromptNextInput
  <2>1. AllKept /\ \A n \in Nodes : Round(n)' = Round(n)
    BY <1>1, <1>4, QuietKeeps DEF PromptNextInput, Round
  <2>2. ASSUME NEW n \in queued', n \notin queued, NEW d \in DependsOn[n] \cap Approvals
        PROVE  GateOpen(d)
    <3>1. n \in Nodes /\ Status(n) = "Succeeded"
      BY <1>4, <2>2 DEF PromptNextInput, OpenInputs, NodesAssumption
    <3>2. Round(n) > 0
      BY <1>1, <3>1, RoundType DEF Status
    <3> QED
      BY <2>2, <3>1, <3>2 DEF GateInv, GatesStayOpen
  <2> QED
    BY <1>1, <2>1, <2>2, GateInvWithoutStart
<1>5. CASE \/ NoteStopping \/ DispatchDone \/ EndRun \/ FailBlockedInput
           \/ GoIdle \/ AwaitResult \/ WakeOnCancel \/ Cancel \/ UNCHANGED vars
  <2>1. runs' = runs /\ queued' = queued
    BY <1>5, QuietSteps
  <2>2. AllKept /\ \A n \in Nodes : Round(n)' = Round(n)
    BY <1>1, <2>1, QuietKeeps DEF Round
  <2> QED
    BY <1>1, <2>1, <2>2, GateInvWithoutStart
<1>6. ASSUME NEW n \in Nodes,
             RoundReturns(n) \/ RoundFailsStructural(n) \/ HumanInputGiven(n) \/ ApprovalDecided(n)
      PROVE  GateInv'
  BY <1>1, <1>6, ResultKeeps, GateInvWithoutStart
<1>7. ASSUME NEW p \in advising, AdviceGiven(p) \/ AdviceSkipped(p) \/ AdviceFails(p)
      PROVE  GateInv'
  BY <1>1, <1>7, AdviceKeeps, GateInvWithoutStart
<1> QED
  BY <1>2, <1>3, <1>4, <1>5, <1>6, <1>7 DEF Next, Coordinate, PromptReturns, Finished

\* For every workflow, whatever the order of results, rejections, advice and cancellation: a
\* round behind an approval was started by a round of it that succeeded and approved.
THEOREM GateCorrect == Spec => []OnlyApprovalOpensGate
<1>1. Init => GateInv
  BY GateInvInit
<1>2. IInv /\ GateInv /\ [Next]_vars => GateInv'
  BY GateInvNext, NodesAssumption, BindingAssumption
<1>3. GateInv => OnlyApprovalOpensGate
  BY DEF GateInv
<1> QED
  BY <1>1, <1>2, <1>3, Inductive, PTL DEF Spec
-----------------------------------------------------------------------------
(* The convergence limit.                                                  *)

\* A node past the limit is final: neither prepareRun nor a late advice takes it up again.
GuardedNode(n) ==
  /\ ~Machine(n) => machineRuns[n] = 0
  /\ machineRuns[n] > ConvergenceLimit =>
       runErr # NoErr /\ Status(n) = "Failed" /\ Current(n).errorKind = "structural" /\ task[n] = "none"

GuardInv == \A n \in Nodes : GuardedNode(n)

LEMMA GuardInvInit == Init => GuardInv
  BY LimitAssumption DEF Init, GuardInv, GuardedNode

\* What leaves a node and its counter alone keeps it guarded.
LEMMA UntouchedIsGuarded ==
  ASSUME NodesAssumption, NEW n \in Nodes, GuardedNode(n),
         runs'[n] = runs[n], task'[n] = task[n], machineRuns'[n] = machineRuns[n],
         runErr' \in Nodes \cup {runErr}
  PROVE  GuardedNode(n)'
  BY DEF NodesAssumption, GuardedNode, Status, Current, Round

LEMMA ResetIsGuarded ==
  ASSUME ResetConvergence
  PROVE  GuardInv'
  BY LimitAssumption DEF LimitAssumption, GuardInv, GuardedNode, ResetConvergence

LEMMA GuardInvStart ==
  ASSUME NodesAssumption, BindingAssumption, LimitAssumption, IInv, GuardInv,
         NEW n \in Nodes, StartRound(n) \/ TripConvergenceGuard(n)
  PROVE  GuardInv'
<1>1. TypeOK /\ GuardedNode(n) /\ n \in queued /\ ~stopping /\ task[n] = "none"
  BY DEF IInv, DispatchIsLive, QueuedIsStartable, GuardInv, StartRound, TripConvergenceGuard, IsFirst
<1>2. \A m \in Nodes : m # n => runs'[m] = runs[m]
  BY StartKeeps
<1>3. machineRuns' = [machineRuns EXCEPT ![n] = IF Machine(n) THEN @ + 1 ELSE @]
  BY DEF StartRound, TripConvergenceGuard, BeginRound
<1>4. machineRuns \in [Nodes -> Nat] /\ task \in [Nodes -> Tasks]
  BY <1>1 DEF TypeOK
<1>5. runErr' \in Nodes \cup {runErr}
  BY DEF StartRound, TripConvergenceGuard, runVars
<1>6. ASSUME NEW m \in Nodes, m # n PROVE GuardedNode(m)'
  <2>1. task'[m] = task[m]
    BY <1>4, <1>6 DEF StartRound, TripConvergenceGuard, flightVars
  <2>2. machineRuns'[m] = machineRuns[m]
    BY <1>3, <1>4, <1>6
  <2> QED
    BY <1>2, <1>5, <1>6, <2>1, <2>2, UntouchedIsGuarded DEF GuardInv
<1>7. CASE StartRound(n)
  <2>1. machineRuns'[n] <= ConvergenceLimit /\ (~Machine(n) => machineRuns'[n] = 0)
    BY <1>1, <1>3, <1>4, <1>7 DEF StartRound, GuardTrips, GuardedNode, LimitAssumption
  <2>2. GuardedNode(n)'
    BY <1>3, <1>4, <2>1 DEF GuardedNode, Machine, LimitAssumption
  <2> QED
    BY <1>6, <2>2 DEF GuardInv
<1>8. CASE TripConvergenceGuard(n)
  <2>1. BeginRound(n, "Failed", "structural") /\ runErr' = n /\ task' = task /\ Machine(n)
    BY <1>8 DEF TripConvergenceGuard, flightVars, GuardTrips
  <2>2. /\ Len(runs'[n]) = Len(runs[n]) + 1
        /\ runs'[n][Len(runs[n]) + 1].status = "Failed"
        /\ runs'[n][Len(runs[n]) + 1].errorKind = "structural"
        /\ Len(runs[n]) \in Nat
    BY <1>1, <2>1, BeginRoundFacts, RoundType DEF Round
  <2>3. Status(n)' = "Failed" /\ Current(n)'.errorKind = "structural"
    BY <2>2 DEF Status, Current, Round
  <2>4. GuardedNode(n)'
    BY <1>1, <2>1, <2>3 DEF GuardedNode, NodesAssumption, Machine
  <2> QED
    BY <1>6, <2>4 DEF GuardInv
<1> QED
  BY <1>7, <1>8

\* A node with a goroutine is not past the limit, so that its result may change it.
LEMMA GuardInvResult ==
  ASSUME NodesAssumption, LimitAssumption, IInv, GuardInv,
         NEW n \in Nodes, RoundReturns(n) \/ RoundFailsStructural(n)
  PROVE  GuardInv'
<1>1. /\ TypeOK /\ GuardedNode(n) /\ Round(n) > 0 /\ Current(n) \in RunRecord
      /\ task[n] # "none" /\ TakeResult(n) /\ machineRuns' = machineRuns
  BY RoundType
  DEF IInv, TaskHasRound, GuardInv, RoundReturns, RoundSucceeds, RoundFailsInteraction,
      RoundFailsStructural, RoundCancelled
<1>2. runErr' \in Nodes \cup {runErr}
  BY DEF RoundReturns, RoundSucceeds, RoundFailsInteraction, RoundFailsStructural,
         RoundCancelled, Blame, runVars
<1>3. machineRuns[n] \in Nat /\ ~(machineRuns[n] > ConvergenceLimit)
  BY <1>1 DEF GuardedNode, TypeOK
<1>4. GuardedNode(n)'
  BY <1>1, <1>3 DEF GuardedNode, Machine
<1>5. \A m \in Nodes : m # n => runs'[m] = runs[m] /\ task'[m] = task[m]
  <2>1. \A m \in Nodes : m # n => task'[m] = task[m]
    BY <1>1 DEF TakeResult, TypeOK
  <2>2. PICK run : SetCurrent(n, run)
    <3>1. CASE RoundSucceeds(n)
      BY <3>1 DEF RoundSucceeds, Succeed
    <3>2. CASE RoundFailsInteraction(n)
      BY <3>2 DEF RoundFailsInteraction
    <3>3. CASE RoundFailsStructural(n)
      BY <3>3 DEF RoundFailsStructural
    <3>4. CASE RoundCancelled(n)
      BY <3>4 DEF RoundCancelled
    <3> QED
      BY <3>1, <3>2, <3>3, <3>4 DEF RoundReturns
  <2>3. \A m \in Nodes : m # n => runs'[m] = runs[m]
    BY <1>1, <2>2 DEF SetCurrent, TypeOK
  <2> QED
    BY <2>1, <2>3
<1>6. ASSUME NEW m \in Nodes, m # n PROVE GuardedNode(m)'
  BY <1>1, <1>2, <1>5, <1>6, UntouchedIsGuarded DEF GuardInv
<1> QED
  BY <1>4, <1>6 DEF GuardInv

\* A failed advise prompt makes a failure final, and leaves it failed.
LEMMA GuardInvAdvice ==
  ASSUME NodesAssumption, LimitAssumption, IInv, GuardInv, NEW p \in advising, AdviceFails(p)
  PROVE  GuardInv'
<1> DEFINE n == p[1]
<1>1. /\ TypeOK /\ n \in Nodes /\ Round(n) > 0 /\ Current(n) \in RunRecord
      /\ SetCurrent(n, [Current(n) EXCEPT !.errorKind = "structural"])
      /\ task' = task /\ machineRuns' = machineRuns /\ runErr' = n
  BY TakeAdviceFacts DEF IInv, AdviceFails, Blame, flightVars
<1> DEFINE run == [Current(n) EXCEPT !.errorKind = "structural"]
<1>2. run \in RunRecord /\ run.status = Current(n).status /\ run.errorKind = "structural"
  BY <1>1, OutcomeType, OutcomeFields
<1> HIDE DEF n, run
<1>3. /\ Len(runs'[n]) = Len(runs[n]) /\ runs'[n][Round(n)] = run
      /\ \A m \in Nodes : m # n => runs'[m] = runs[m]
  BY <1>1, <1>2, SetCurrentFacts DEF run
<1>4. Status(n)' = Status(n) /\ Current(n)'.errorKind = "structural"
  BY <1>1, <1>2, <1>3 DEF Status, Current, Round
<1>5. GuardedNode(n)'
  BY <1>1, <1>4 DEF GuardInv, GuardedNode, NodesAssumption, Machine
<1>6. ASSUME NEW m \in Nodes, m # n PROVE GuardedNode(m)'
  BY <1>1, <1>3, <1>6, UntouchedIsGuarded DEF GuardInv
<1> QED
  BY <1>5, <1>6 DEF GuardInv

LEMMA GuardInvNext ==
  ASSUME NodesAssumption, BindingAssumption, LimitAssumption, IInv, GuardInv, [Next]_vars
  PROVE  GuardInv'
<1>1. CASE \/ NoteStopping \/ DispatchDone \/ EndRun \/ FailBlockedInput \/ GoIdle
           \/ AwaitResult \/ WakeOnCancel \/ Cancel \/ UNCHANGED vars
  BY <1>1, QuietSteps, UntouchedIsGuarded DEF GuardInv
<1>2. CASE EnqueueReady \/ PromptNextInput
  <2>1. UNCHANGED <<runs, task, machineRuns, runErr>>
    BY <1>2 DEF EnqueueReady, PromptNextInput, runVars, flightVars
  <2> QED
    BY <2>1, UntouchedIsGuarded DEF GuardInv
<1>3. ASSUME NEW n \in Nodes, StartRound(n) \/ TripConvergenceGuard(n) PROVE GuardInv'
  BY <1>3, GuardInvStart
<1>4. ASSUME NEW n \in Nodes, RoundReturns(n) \/ RoundFailsStructural(n) PROVE GuardInv'
  BY <1>4, GuardInvResult
<1>5. ASSUME NEW n \in Nodes, HumanInputGiven(n) \/ ApprovalDecided(n) PROVE GuardInv'
  BY <1>5, ResetIsGuarded DEF HumanInputGiven, ApprovalDecided
<1>6. ASSUME NEW p \in advising, AdviceGiven(p) \/ AdviceSkipped(p) \/ AdviceFails(p)
      PROVE  GuardInv'
  <2>1. CASE AdviceGiven(p)
    BY <2>1, ResetIsGuarded DEF AdviceGiven
  <2>2. CASE AdviceSkipped(p)
    <3>1. UNCHANGED <<runs, task, machineRuns, runErr>>
      BY <2>2 DEF AdviceSkipped, runVars, flightVars
    <3> QED
      BY <3>1, UntouchedIsGuarded DEF GuardInv
  <2>3. CASE AdviceFails(p)
    BY <2>3, GuardInvAdvice
  <2> QED
    BY <1>6, <2>1, <2>2, <2>3
<1> QED
  BY <1>1, <1>2, <1>3, <1>4, <1>5, <1>6 DEF Next, Coordinate, PromptReturns, Finished

\* For every workflow, cyclic or not, and every limit: the machine starts at most
\* ConvergenceLimit rounds of a node between two human events, and the round that would be
\* one too many fails the run for good.
THEOREM ConvergenceCorrect == Spec => []ConvergenceIsGuarded
<1>1. Init => GuardInv
  BY GuardInvInit
<1>2. IInv /\ GuardInv /\ [Next]_vars => GuardInv'
  BY GuardInvNext, NodesAssumption, BindingAssumption, LimitAssumption
<1>3. GuardInv => ConvergenceIsGuarded
  BY DEF GuardInv, GuardedNode, ConvergenceIsGuarded
<1> QED
  BY <1>1, <1>2, <1>3, Inductive, PTL DEF Spec
-----------------------------------------------------------------------------
(* Steps in which no round succeeds.                                       *)

\* d has the successes it had, with their outcome; an added round has none.
Same(d) ==
  /\ Round(d)' \in Nat /\ Round(d)' >= Round(d)
  /\ \A r \in 1..Round(d) :
       /\ runs'[d][r].status = "Succeeded" <=> runs[d][r].status = "Succeeded"
       /\ runs[d][r].status = "Succeeded" => runs'[d][r].decision = runs[d][r].decision
       /\ runs'[d][r].output = runs[d][r].output
  /\ \A r \in (Round(d) + 1)..Round(d)' :
       runs'[d][r].status # "Succeeded" /\ runs'[d][r].output = 0

\* n has the rounds it had, and its current one what it took.
Stays(n) ==
  /\ Round(n)' = Round(n)
  /\ Round(n) > 0 => /\ Current(n)'.inputs = Current(n).inputs
                     /\ Current(n)'.control = Current(n).control

\* What consumers ask of d is answered as before.
SameAnswers(d) ==
  /\ HasCompleted(d)' <=> HasCompleted(d)
  /\ ApprovalPassed(d)' <=> ApprovalPassed(d)
  /\ OutputOf(d)' = OutputOf(d)
  /\ ControlCompletedRound(d)' = ControlCompletedRound(d)

\* The newest of the rounds that satisfy a condition is unique.
LEMMA LatestIsUnique ==
  ASSUME TypeOK, NEW d \in Nodes
  PROVE  /\ \A r, q \in 1..Round(d) :
              IsLatestCompleted(d, r) /\ IsLatestCompleted(d, q) => r = q
         /\ \A r, q \in 1..Round(d) :
              IsLatestApproved(d, r) /\ IsLatestApproved(d, q) => r = q
<1>1. Round(d) \in Nat
  BY RoundType
<1>2. ASSUME NEW r \in 1..Round(d), NEW q \in 1..Round(d),
             IsLatestCompleted(d, r), IsLatestCompleted(d, q)
      PROVE  r = q
  <2>1. ~(r < q) /\ ~(q < r)
    BY <1>1, <1>2 DEF IsLatestCompleted
  <2> QED
    BY <1>1, <2>1
<1>3. ASSUME NEW r \in 1..Round(d), NEW q \in 1..Round(d),
             IsLatestApproved(d, r), IsLatestApproved(d, q)
      PROVE  r = q
  <2>1. ~(r < q) /\ ~(q < r)
    BY <1>1, <1>3 DEF IsLatestApproved
  <2> QED
    BY <1>1, <2>1
<1> QED
  BY <1>2, <1>3

LEMMA SameLatest ==
  ASSUME TypeOK, NEW d \in Nodes, Same(d)
  PROVE  /\ \A r : IsLatestCompleted(d, r)' <=> IsLatestCompleted(d, r)
         /\ \A r : IsLatestApproved(d, r)' <=> IsLatestApproved(d, r)
<1>1. Round(d) \in Nat /\ Round(d)' \in Nat /\ Round(d)' >= Round(d)
  BY RoundType DEF Same
<1>2. \A r \in 1..Round(d)' : r \in 1..Round(d) \/ r \in (Round(d) + 1)..Round(d)'
  BY <1>1
<1>3. \A r \in 1..Round(d)' :
        runs'[d][r].status = "Succeeded" <=> r \in 1..Round(d) /\ runs[d][r].status = "Succeeded"
  BY <1>1, <1>2 DEF Same
<1>4. \A r \in 1..Round(d) : r \in 1..Round(d)'
  BY <1>1
<1>5. ASSUME NEW r PROVE IsLatestCompleted(d, r)' <=> IsLatestCompleted(d, r)
  <2>1. ASSUME r \in 1..Round(d), runs[d][r].status = "Succeeded"
        PROVE  IsLatestCompleted(d, r)' <=> IsLatestCompleted(d, r)
    <3>1. \A q \in (r + 1)..Round(d) : q \in (r + 1)..Round(d)' /\ q \in 1..Round(d)'
      BY <1>1, <2>1
    <3>2. \A q \in (r + 1)..Round(d)' :
            /\ q \in 1..Round(d)'
            /\ q \in 1..Round(d) => q \in (r + 1)..Round(d)
      BY <1>1, <2>1
    <3> QED
      BY <1>3, <1>4, <2>1, <3>1, <3>2 DEF IsLatestCompleted
  <2> QED
    BY <1>3, <2>1 DEF IsLatestCompleted
<1>6. ASSUME NEW r PROVE IsLatestApproved(d, r)' <=> IsLatestApproved(d, r)
  <2>1. ASSUME NEW q \in 1..Round(d)
        PROVE  runs'[d][q].status = "Succeeded" /\ runs'[d][q].decision = "approved"
                 <=> runs[d][q].status = "Succeeded" /\ runs[d][q].decision = "approved"
    BY <2>1 DEF Same
  <2>2. ASSUME r \in 1..Round(d), runs[d][r].status = "Succeeded", runs[d][r].decision = "approved"
        PROVE  IsLatestApproved(d, r)' <=> IsLatestApproved(d, r)
    <3>1. \A q \in (r + 1)..Round(d) : q \in (r + 1)..Round(d)' /\ q \in 1..Round(d)'
      BY <1>1, <2>2
    <3>2. \A q \in (r + 1)..Round(d)' :
            /\ q \in 1..Round(d)'
            /\ q \in 1..Round(d) => q \in (r + 1)..Round(d)
      BY <1>1, <2>2
    <3> QED
      BY <1>3, <1>4, <2>1, <2>2, <3>1, <3>2 DEF IsLatestApproved
  <2> QED
    BY <1>3, <2>1, <2>2 DEF IsLatestApproved
<1> QED
  BY <1>5, <1>6

LEMMA SameMeansSameAnswers ==
  ASSUME TypeOK, NEW d \in Nodes, Same(d)
  PROVE  SameAnswers(d)
<1>1. /\ \A r : IsLatestCompleted(d, r)' <=> IsLatestCompleted(d, r)
      /\ \A r : IsLatestApproved(d, r)' <=> IsLatestApproved(d, r)
  BY SameLatest
<1>2. \A r : /\ IsLatestCompleted(d, r) => r \in 1..Round(d) /\ r \in 1..Round(d)'
             /\ IsLatestApproved(d, r) => r \in 1..Round(d) /\ r \in 1..Round(d)'
  BY RoundType DEF IsLatestCompleted, IsLatestApproved, Same
<1>3. HasCompleted(d)' <=> HasCompleted(d)
  BY <1>1, <1>2 DEF HasCompleted
<1>4. LatestCompletedRound(d)' = LatestCompletedRound(d)
  <2>1. CASE HasCompleted(d)
    <3>1. PICK r \in 1..Round(d) : IsLatestCompleted(d, r)
      BY <2>1 DEF HasCompleted
    <3>2. LatestCompletedRound(d) = r
      BY <2>1, <3>1, LatestIsUnique DEF LatestCompletedRound
    <3>3. \A q \in 1..Round(d)' : IsLatestCompleted(d, q)' <=> q = r
      BY <1>1, <1>2, <3>1, LatestIsUnique
    <3>4. LatestCompletedRound(d)' = r
      BY <1>2, <1>3, <2>1, <3>1, <3>3 DEF LatestCompletedRound
    <3> QED
      BY <3>2, <3>4
  <2>2. CASE ~HasCompleted(d)
    BY <1>3, <2>2 DEF LatestCompletedRound
  <2> QED
    BY <2>1, <2>2
<1>5. HasCompleted(d) =>
        LET r == LatestCompletedRound(d) IN
        r \in 1..Round(d) /\ runs[d][r].status = "Succeeded"
  BY DEF HasCompleted, LatestCompletedRound, IsLatestCompleted
<1>6. (ApprovalPassed(d)' <=> ApprovalPassed(d)) /\ OutputOf(d)' = OutputOf(d)
  BY <1>3, <1>4, <1>5 DEF ApprovalPassed, OutputOf, Same
<1>7. ControlCompletedRound(d)' = ControlCompletedRound(d)
  <2>1. CASE \E r \in 1..Round(d) : IsLatestApproved(d, r)
    <3>1. PICK r \in 1..Round(d) : IsLatestApproved(d, r)
      BY <2>1
    <3>2. (CHOOSE q \in 1..Round(d) : IsLatestApproved(d, q)) = r
      BY <3>1, LatestIsUnique
    <3>3. \A q \in 1..Round(d)' : IsLatestApproved(d, q)' <=> q = r
      BY <1>1, <1>2, <3>1, LatestIsUnique
    <3>4. r \in 1..Round(d)' /\ IsLatestApproved(d, r)'
      BY <1>1, <1>2, <3>1
    <3>5. (CHOOSE q \in 1..Round(d)' : IsLatestApproved(d, q)') = r
      BY <3>3, <3>4
    <3> QED
      BY <1>4, <3>1, <3>2, <3>4, <3>5 DEF ControlCompletedRound
  <2>2. CASE ~\E r \in 1..Round(d) : IsLatestApproved(d, r)
    BY <1>1, <1>2, <1>4, <2>2 DEF ControlCompletedRound
  <2> QED
    BY <2>1, <2>2
<1> QED
  BY <1>3, <1>6, <1>7 DEF SameAnswers
-----------------------------------------------------------------------------
(* What each step does to the rounds.                                      *)

LEMMA QuietIsSame ==
  ASSUME TypeOK, runs' = runs
  PROVE  \A d \in Nodes : Same(d) /\ Stays(d)
<1> SUFFICES ASSUME NEW d \in Nodes PROVE Same(d) /\ Stays(d)
  OBVIOUS
<1>1. Round(d) \in Nat /\ Round(d)' = Round(d)
  BY RoundType DEF Round
<1>2. (Round(d) + 1)..Round(d)' = {}
  BY <1>1
<1> QED
  BY <1>1, <1>2 DEF Same, Stays, Current

\* An outcome that is no success: the round keeps its output, and what it took.
LEMMA FailureIsSame ==
  ASSUME TypeOK, NEW n \in Nodes, Round(n) > 0, NEW run \in RunRecord, SetCurrent(n, run),
         run.control = Current(n).control, run.inputs = Current(n).inputs,
         run.output = Current(n).output,
         run.status = "Succeeded" <=> Current(n).status = "Succeeded",
         run.status = "Succeeded" => run.decision = Current(n).decision
  PROVE  \A d \in Nodes : Same(d) /\ Stays(d)
<1>1. /\ \A m \in Nodes : Len(runs'[m]) = Len(runs[m])
      /\ runs'[n][Round(n)] = run
      /\ \A m \in Nodes : m # n => runs'[m] = runs[m]
      /\ \A r \in 1..Round(n) : r # Round(n) => runs'[n][r] = runs[n][r]
  BY SetCurrentFacts
<1>2. \A d \in Nodes : /\ Round(d) \in Nat /\ Round(d)' = Round(d)
                       /\ (Round(d) + 1)..Round(d)' = {}
  <2> SUFFICES ASSUME NEW d \in Nodes
               PROVE  Round(d) \in Nat /\ Round(d)' = Round(d) /\ (Round(d) + 1)..Round(d)' = {}
    OBVIOUS
  <2>1. Round(d) \in Nat /\ Round(d)' = Round(d)
    BY <1>1, RoundType DEF Round
  <2> QED
    BY <2>1
<1>3. Same(n) /\ Stays(n)
  BY <1>1, <1>2 DEF Same, Stays, Current
<1>4. ASSUME NEW d \in Nodes, d # n PROVE Same(d) /\ Stays(d)
  BY <1>1, <1>2, <1>4 DEF Same, Stays, Current
<1> QED
  BY <1>3, <1>4

LEMMA FailureFields ==
  ASSUME NEW run \in RunRecord, run.status # "Succeeded"
  PROVE  /\ \A kind \in {"interaction", "structural"} :
              LET new == [run EXCEPT !.status = "Failed", !.errorKind = kind] IN
              /\ new.inputs = run.inputs /\ new.output = run.output
              /\ new.status # "Succeeded"
         /\ LET new == [run EXCEPT !.status = IF @ = "Running" THEN "Failed" ELSE @,
                                   !.errorKind = "structural"] IN
              /\ new.inputs = run.inputs /\ new.output = run.output
              /\ new.status # "Succeeded"
         /\ \A decision \in {"approved", "rejected"} :
              LET new == [run EXCEPT !.status = "Running", !.decision = decision] IN
              /\ new.inputs = run.inputs /\ new.output = run.output
              /\ new.status # "Succeeded"
  BY DEF RunRecord

\* What an advice that failed, and a success, leave of the record.
LEMMA RecordFields ==
  ASSUME NEW run \in RunRecord
  PROVE  /\ [run EXCEPT !.errorKind = "structural"].inputs = run.inputs
         /\ [run EXCEPT !.errorKind = "structural"].output = run.output
         /\ \A version \in Nat :
              LET new == [run EXCEPT !.status = "Succeeded", !.output = version] IN
              /\ new.status = "Succeeded" /\ new.output = version
              /\ new.inputs = run.inputs
  BY DEF RunRecord

Unsuccessful(n) ==
  RoundFailsInteraction(n) \/ RoundFailsStructural(n) \/ RoundCancelled(n) \/ ApprovalDecided(n)

LEMMA UnsuccessfulIsSame ==
  ASSUME IInv, NEW n \in Nodes, Unsuccessful(n)
  PROVE  /\ \A d \in Nodes : Same(d) /\ Stays(d)
         /\ UNCHANGED <<consumedInputs, consumedControl, outputVersion>> /\ pc' = "top"
<1>1. /\ TypeOK /\ Round(n) > 0 /\ Current(n) \in RunRecord /\ Current(n).status # "Succeeded"
      /\ UNCHANGED <<consumedInputs, consumedControl, outputVersion>> /\ pc' = "top"
  BY RoundType
  DEF IInv, TaskHasRound, Status, Unsuccessful, RoundFailsInteraction, RoundFailsStructural,
      RoundCancelled, ApprovalDecided, TakeResult, inputVars
<1>2. CASE RoundFailsInteraction(n) \/ RoundFailsStructural(n)
  <2>1. PICK kind \in {"interaction", "structural"} :
          SetCurrent(n, [Current(n) EXCEPT !.status = "Failed", !.errorKind = kind])
    BY <1>2 DEF RoundFailsInteraction, RoundFailsStructural
  <2> DEFINE run == [Current(n) EXCEPT !.status = "Failed", !.errorKind = kind]
  <2>2. /\ run \in RunRecord /\ run.control = Current(n).control /\ run.inputs = Current(n).inputs
        /\ run.output = Current(n).output /\ run.status # "Succeeded"
    BY <1>1, OutcomeType, OutcomeFields, FailureFields
  <2> HIDE DEF run
  <2> QED
    BY <1>1, <2>1, <2>2, FailureIsSame DEF run
<1>3. CASE RoundCancelled(n)
  <2> DEFINE run == [Current(n) EXCEPT !.status = IF @ = "Running" THEN "Failed" ELSE @,
                                      !.errorKind = "structural"]
  <2>1. SetCurrent(n, run)
    BY <1>3 DEF RoundCancelled
  <2>2. /\ run \in RunRecord /\ run.control = Current(n).control /\ run.inputs = Current(n).inputs
        /\ run.output = Current(n).output /\ run.status # "Succeeded"
    BY <1>1, OutcomeType, OutcomeFields, FailureFields
  <2> HIDE DEF run
  <2> QED
    BY <1>1, <2>1, <2>2, FailureIsSame
<1>4. CASE ApprovalDecided(n)
  <2>1. PICK decision \in {"approved", "rejected"} :
          SetCurrent(n, [Current(n) EXCEPT !.status = "Running", !.decision = decision])
    BY <1>4 DEF ApprovalDecided
  <2> DEFINE run == [Current(n) EXCEPT !.status = "Running", !.decision = decision]
  <2>2. /\ run \in RunRecord /\ run.control = Current(n).control /\ run.inputs = Current(n).inputs
        /\ run.output = Current(n).output /\ run.status # "Succeeded"
    BY <1>1, OutcomeType, OutcomeFields, FailureFields
  <2> HIDE DEF run
  <2> QED
    BY <1>1, <2>1, <2>2, FailureIsSame DEF run
<1> QED
  BY <1>1, <1>2, <1>3, <1>4 DEF Unsuccessful

LEMMA AdviceIsSame ==
  ASSUME IInv, NEW p \in advising, AdviceGiven(p) \/ AdviceSkipped(p) \/ AdviceFails(p)
  PROVE  /\ \A d \in Nodes : Same(d) /\ Stays(d)
         /\ UNCHANGED <<consumedInputs, consumedControl, outputVersion>> /\ pc' = "top"
<1>1. /\ TypeOK /\ TakeAdvice(p) /\ pc' = "top"
      /\ UNCHANGED <<consumedInputs, consumedControl, outputVersion>>
  BY DEF IInv, AdviceGiven, AdviceSkipped, AdviceFails, TakeAdvice, inputVars
<1>2. CASE AdviceGiven(p) \/ AdviceSkipped(p)
  <2>1. runs' = runs
    BY <1>2 DEF AdviceGiven, AdviceSkipped
  <2> QED
    BY <1>1, <2>1, QuietIsSame
<1>3. CASE AdviceFails(p)
  <2> DEFINE run == [Current(p[1]) EXCEPT !.errorKind = "structural"]
  <2>1. /\ p[1] \in Nodes /\ Round(p[1]) > 0 /\ Current(p[1]) \in RunRecord
        /\ SetCurrent(p[1], run)
    BY <1>1, <1>3, TakeAdviceFacts DEF AdviceFails
  <2>2. /\ run \in RunRecord /\ run.control = Current(p[1]).control
        /\ run.inputs = Current(p[1]).inputs /\ run.output = Current(p[1]).output
        /\ run.status = Current(p[1]).status /\ run.decision = Current(p[1]).decision
    BY <2>1, OutcomeType, OutcomeFields, RecordFields
  <2> HIDE DEF run
  <2> QED
    BY <1>1, <2>1, <2>2, FailureIsSame
<1> QED
  BY <1>1, <1>2, <1>3

Starts(n) == StartRound(n) \/ TripConvergenceGuard(n)

\* A round that starts takes what its sources say now.
LEMMA StartIsSame ==
  ASSUME BindingAssumption, IInv, NEW n \in Nodes, Starts(n)
  PROVE  /\ \A d \in Nodes : Same(d)
         /\ \A m \in Nodes : m # n => Stays(m)
         /\ Round(n)' > 0
         /\ Current(n)'.inputs = [s \in Nodes |-> IF s \in Sources(n) THEN OutputOf(s) ELSE 0]
         /\ Current(n)'.control =
              [d \in Nodes |-> IF d \in DependsOn[n] THEN ControlCompletedRound(d) ELSE 0]
         /\ UNCHANGED outputVersion
<1>1. PICK status \in {"Running", "WaitingHuman", "Failed"}, kind \in {"none", "structural"} :
        BeginRound(n, status, kind)
  <2>1. CASE StartRound(n)
    <3>1. BeginRound(n, IF n \in Approvals THEN "WaitingHuman" ELSE "Running", "none")
      BY <2>1 DEF StartRound
    <3> QED
      BY <3>1
  <2>2. CASE TripConvergenceGuard(n)
    BY <2>2 DEF TripConvergenceGuard
  <2> QED
    BY <2>1, <2>2 DEF Starts
<1> DEFINE run == [status |-> status, errorKind |-> kind,
      inputs |-> [s \in Nodes |-> IF s \in Sources(n) THEN OutputOf(s) ELSE 0],
      control |-> [d \in Nodes |-> IF d \in DependsOn[n] THEN ControlCompletedRound(d) ELSE 0],
      advice |-> adviseRetry[n], output |-> 0, decision |-> "none"]
<1>2. /\ TypeOK /\ outputVersion' = outputVersion
      /\ runs' = [runs EXCEPT ![n] = Append(@, run)]
  BY <1>1 DEF IInv, Starts, StartRound, TripConvergenceGuard, BeginRound
<1>3. /\ run.status # "Succeeded" /\ run.output = 0
      /\ run.inputs = [s \in Nodes |-> IF s \in Sources(n) THEN OutputOf(s) ELSE 0]
      /\ run.control = [d \in Nodes |-> IF d \in DependsOn[n] THEN ControlCompletedRound(d) ELSE 0]
  OBVIOUS
<1> HIDE DEF run
<1>4. runs[n] \in Seq(RunRecord) /\ runs \in [Nodes -> Seq(RunRecord)]
  BY <1>2 DEF TypeOK
<1>5. /\ \A m \in Nodes : m # n => runs'[m] = runs[m]
      /\ Len(runs'[n]) = Len(runs[n]) + 1
      /\ \A r \in 1..Len(runs[n]) : runs'[n][r] = runs[n][r]
      /\ runs'[n][Len(runs[n]) + 1] = run
  BY <1>2, <1>4
<1>6. \A d \in Nodes : Round(d) \in Nat
  BY <1>2, RoundType
<1>7. Round(n)' = Round(n) + 1 /\ Current(n)' = run
  BY <1>5 DEF Round, Current
<1>8. Same(n)
  BY <1>3, <1>5, <1>6, <1>7 DEF Same, Round
<1>9. ASSUME NEW m \in Nodes, m # n PROVE Same(m) /\ Stays(m)
  <2>1. Round(m)' = Round(m)
    BY <1>5, <1>9 DEF Round
  <2>2. (Round(m) + 1)..Round(m)' = {}
    BY <1>6, <2>1
  <2> QED
    BY <1>5, <1>6, <1>9, <2>1, <2>2 DEF Same, Stays, Current
<1> QED
  BY <1>2, <1>3, <1>6, <1>7, <1>8, <1>9

Succeeds(n) == RoundSucceeds(n) \/ HumanInputGiven(n)

\* A success has no output, or the next version of its node.
LEMMA SuccessIsNew ==
  ASSUME IInv, NEW n \in Nodes, Succeeds(n)
  PROVE  /\ \A d \in Nodes : d # n => Same(d)
         /\ \A m \in Nodes : Stays(m)
         /\ UNCHANGED <<consumedInputs, consumedControl>> /\ pc' = "top"
         /\ outputVersion' \in [Nodes -> Nat]
         /\ \A d \in Nodes : outputVersion'[d] >= outputVersion[d]
         /\ Round(n) > 0
         /\ \A r \in 1..Round(n) : r # Round(n) => runs'[n][r] = runs[n][r]
         /\ Current(n)'.status = "Succeeded"
         /\ \/ Current(n)'.output = 0
            \/ Current(n)'.output = outputVersion[n] + 1 /\ outputVersion'[n] = outputVersion[n] + 1
<1>1. /\ TypeOK /\ Round(n) > 0 /\ Current(n) \in RunRecord
      /\ UNCHANGED <<consumedInputs, consumedControl>> /\ pc' = "top"
      /\ outputVersion \in [Nodes -> Nat]
  BY RoundType
  DEF IInv, TypeOK, TaskHasRound, Succeeds, RoundSucceeds, HumanInputGiven, TakeResult, inputVars
<1>2. PICK produced \in BOOLEAN : Succeed(n, produced)
  BY DEF Succeeds, RoundSucceeds, HumanInputGiven
<1> DEFINE version == IF produced THEN outputVersion[n] + 1 ELSE 0
           run == [Current(n) EXCEPT !.status = "Succeeded", !.output = version]
<1>3. outputVersion' = [outputVersion EXCEPT ![n] = IF produced THEN @ + 1 ELSE @]
  BY <1>2 DEF Succeed
<1>4. /\ outputVersion' \in [Nodes -> Nat] /\ version \in Nat
      /\ \A d \in Nodes : outputVersion'[d] >= outputVersion[d]
      /\ \/ version = 0
         \/ version = outputVersion[n] + 1 /\ outputVersion'[n] = outputVersion[n] + 1
  <2>1. CASE produced
    <3>1. version = outputVersion[n] + 1
      BY <2>1
    <3>2. outputVersion' = [outputVersion EXCEPT ![n] = @ + 1]
      BY <1>3, <2>1
    <3> HIDE DEF version
    <3> QED
      BY <1>1, <3>1, <3>2
  <2>2. CASE ~produced
    <3>1. version = 0
      BY <2>2
    <3>2. outputVersion' = outputVersion
      BY <1>1, <1>3, <2>2
    <3> HIDE DEF version
    <3> QED
      BY <1>1, <3>1, <3>2
  <2> QED
    BY <2>1, <2>2
<1>6. SetCurrent(n, run)
  BY <1>2 DEF Succeed
<1> HIDE DEF version
<1>5. /\ run \in RunRecord /\ run.status = "Succeeded" /\ run.output = version
      /\ run.inputs = Current(n).inputs /\ run.control = Current(n).control
  <2>1. run \in RunRecord /\ run.control = Current(n).control
    BY <1>1, <1>4, OutcomeType, OutcomeFields
  <2>2. run.status = "Succeeded" /\ run.output = version /\ run.inputs = Current(n).inputs
    BY <1>1, <1>4, RecordFields
  <2> QED
    BY <2>1, <2>2
<1> HIDE DEF run
<1>7. /\ \A m \in Nodes : Len(runs'[m]) = Len(runs[m])
      /\ runs'[n][Round(n)] = run
      /\ \A m \in Nodes : m # n => runs'[m] = runs[m]
      /\ \A r \in 1..Round(n) : r # Round(n) => runs'[n][r] = runs[n][r]
  BY <1>1, <1>5, <1>6, SetCurrentFacts
<1>8. \A d \in Nodes : Round(d) \in Nat /\ Round(d)' = Round(d)
  BY <1>1, <1>7, RoundType DEF Round
<1>9. Current(n)' = run
  BY <1>7, <1>8 DEF Current
<1>10. \A m \in Nodes : Stays(m)
  BY <1>5, <1>7, <1>8, <1>9 DEF Stays, Current
<1>11. ASSUME NEW d \in Nodes, d # n PROVE Same(d)
  <2>1. (Round(d) + 1)..Round(d)' = {}
    BY <1>8
  <2> QED
    BY <1>7, <1>8, <1>11, <2>1 DEF Same
<1> QED
  BY <1>1, <1>4, <1>5, <1>7, <1>9, <1>10, <1>11
-----------------------------------------------------------------------------
(* The answers of a node whose round succeeded.                            *)

\* The answers, with the uniqueness that makes them answers.
Answers ==
  \A d \in Nodes :
    /\ Round(d) \in Nat /\ OutputOf(d) \in Nat /\ ControlCompletedRound(d) \in Nat
    /\ ControlCompletedRound(d) <= Round(d)
    /\ \A r, q \in 1..Round(d) : IsLatestCompleted(d, r) /\ IsLatestCompleted(d, q) => r = q
    /\ \A r, q \in 1..Round(d) : IsLatestApproved(d, r) /\ IsLatestApproved(d, q) => r = q

LEMMA AnswersHold == TypeOK => Answers
<1> SUFFICES ASSUME TypeOK, NEW d \in Nodes
             PROVE  /\ Round(d) \in Nat /\ OutputOf(d) \in Nat /\ ControlCompletedRound(d) \in Nat
                    /\ ControlCompletedRound(d) <= Round(d)
                    /\ \A r, q \in 1..Round(d) :
                         IsLatestCompleted(d, r) /\ IsLatestCompleted(d, q) => r = q
                    /\ \A r, q \in 1..Round(d) :
                         IsLatestApproved(d, r) /\ IsLatestApproved(d, q) => r = q
  BY DEF Answers
<1>1. Round(d) \in Nat /\ OutputOf(d) \in Nat /\ ControlCompletedRound(d) \in Nat
  BY RoundType, OutputOfType, ControlCompletedType
<1>2. ControlCompletedRound(d) <= Round(d)
  <2>1. CASE d \notin Approvals
    BY <1>1, <2>1, LatestCompletedType DEF ControlCompletedRound, LatestCompletedRound
  <2>2. CASE d \in Approvals
    BY <1>1, <2>2 DEF ControlCompletedRound
  <2> QED
    BY <2>1, <2>2
<1> QED
  BY <1>1, <1>2, LatestIsUnique

LEMMA AnswersNext == TypeOK' => Answers'
<1>1. TypeOK => Answers
  BY AnswersHold
<1> QED
  BY <1>1, PTL

LEMMA SuccessAnswers ==
  ASSUME IInv, TypeOK', NEW n \in Nodes, Succeeds(n)
  PROVE  /\ OutputOf(n)' = 0 \/ OutputOf(n)' = outputVersion[n] + 1
         /\ ControlCompletedRound(n)' >= ControlCompletedRound(n)
<1>1. /\ Answers /\ Answers' /\ Round(n)' = Round(n) /\ Round(n) > 0 /\ Round(n) \in Nat
      /\ Current(n)' = runs'[n][Round(n)] /\ Current(n)'.status = "Succeeded"
      /\ \A r \in 1..Round(n) : r # Round(n) => runs'[n][r] = runs[n][r]
      /\ Current(n)'.output = 0 \/ Current(n)'.output = outputVersion[n] + 1
  BY AnswersHold, AnswersNext, SuccessIsNew DEF IInv, Answers, Stays, Current
<1>2. Current(n).status # "Succeeded"
  BY <1>1 DEF IInv, TaskHasRound, Status, Succeeds, RoundSucceeds, HumanInputGiven
<1>3. Round(n) \in 1..Round(n)' /\ IsLatestCompleted(n, Round(n))'
  BY <1>1 DEF IsLatestCompleted
<1>4. HasCompleted(n)'
  BY <1>1, <1>3 DEF HasCompleted, IsLatestCompleted
<1>5. LatestCompletedRound(n)' = Round(n)
  <2>1. \A q \in 1..Round(n)' : IsLatestCompleted(n, q)' <=> q = Round(n)
    BY <1>1, <1>3 DEF Answers
  <2> QED
    BY <1>3, <1>4, <2>1 DEF LatestCompletedRound
<1>6. OutputOf(n)' = 0 \/ OutputOf(n)' = outputVersion[n] + 1
  BY <1>1, <1>4, <1>5 DEF OutputOf
<1>7. ControlCompletedRound(n)' >= ControlCompletedRound(n)
  <2>1. CASE n \notin Approvals
    BY <1>1, <1>5, <2>1 DEF ControlCompletedRound, Answers
  <2>2. CASE n \in Approvals /\ ~\E r \in 1..Round(n) : IsLatestApproved(n, r)
    <3>1. ControlCompletedRound(n) = 0
      BY <2>2 DEF ControlCompletedRound
    <3> QED
      BY <1>1, <3>1 DEF Answers
  <2>3. CASE n \in Approvals /\ \E r \in 1..Round(n) : IsLatestApproved(n, r)
    <3>1. PICK r \in 1..Round(n) : IsLatestApproved(n, r)
      BY <2>3
    <3>2. ControlCompletedRound(n) = r
      BY <1>1, <2>3, <3>1 DEF ControlCompletedRound, Answers
    <3>3. PICK q \in 1..Round(n) : q >= r /\ IsLatestApproved(n, q)'
      <4>1. CASE Current(n)'.decision = "approved"
        <5>1. IsLatestApproved(n, Round(n))'
          BY <1>1, <4>1 DEF IsLatestApproved
        <5> QED
          BY <1>1, <3>1, <5>1
      <4>2. CASE Current(n)'.decision # "approved"
        <5>1. r # Round(n) /\ runs'[n][r] = runs[n][r]
          BY <1>1, <1>2, <3>1 DEF IsLatestApproved, Current
        <5>2. \A x \in (r + 1)..Round(n) :
                ~(runs'[n][x].status = "Succeeded" /\ runs'[n][x].decision = "approved")
          <6> SUFFICES ASSUME NEW x \in (r + 1)..Round(n)
                       PROVE  ~(runs'[n][x].status = "Succeeded" /\ runs'[n][x].decision = "approved")
            OBVIOUS
          <6>1. x \in 1..Round(n)
            BY <1>1, <3>1
          <6>2. CASE x = Round(n)
            BY <1>1, <4>2, <6>2
          <6>3. CASE x # Round(n)
            BY <1>1, <3>1, <6>1, <6>3 DEF IsLatestApproved
          <6> QED
            BY <6>2, <6>3
        <5>3. IsLatestApproved(n, r)'
          BY <1>1, <3>1, <5>1, <5>2 DEF IsLatestApproved
        <5> QED
          BY <1>1, <3>1, <5>3
      <4> QED
        BY <4>1, <4>2
    <3>4. ControlCompletedRound(n)' = q
      <4>1. q \in 1..Round(n)' /\ \A x \in 1..Round(n)' : IsLatestApproved(n, x)' <=> x = q
        BY <1>1, <3>3 DEF Answers
      <4> QED
        BY <2>3, <4>1 DEF ControlCompletedRound
    <3> QED
      BY <1>1, <3>1, <3>2, <3>3, <3>4
  <2> QED
    BY <2>1, <2>2, <2>3
<1> QED
  BY <1>6, <1>7
-----------------------------------------------------------------------------
(* What a node consumed, against what its current round took.              *)

\* Every output is one of the versions its node counted.
OutputsAreCounted ==
  \A d \in Nodes : \A r \in 1..Round(d) : runs[d][r].output <= outputVersion[d]

\* The current round of n took what n consumed last, as far as the sources still offer it,
\* and no source takes an answer back.
Taken(n) ==
  /\ \A s \in Nodes : consumedInputs[n][s] <= outputVersion[s]
  /\ Round(n) > 0 =>
       /\ \A s \in Sources(n) :
            OutputOf(s) # 0 /\ OutputOf(s) = consumedInputs[n][s] => Current(n).inputs[s] = OutputOf(s)
       /\ \A d \in DependsOn[n] :
            /\ Current(n).control[d] = consumedControl[n][d]
            /\ consumedControl[n][d] <= ControlCompletedRound(d)

TakenInv == OutputsAreCounted /\ \A n \in Nodes : Taken(n)

LEMMA TakenInvInit == Init => TakenInv
  BY DEF Init, TakenInv, OutputsAreCounted, Taken, Round

LEMMA OutputIsCounted ==
  ASSUME TypeOK, OutputsAreCounted, NEW d \in Nodes
  PROVE  OutputOf(d) <= outputVersion[d]
<1>1. outputVersion[d] \in Nat
  BY DEF TypeOK
<1> QED
  BY <1>1, LatestCompletedType DEF OutputsAreCounted, OutputOf

\* A node that starts nothing, while its sources answer as before.
LEMMA TakenKept ==
  ASSUME BindingAssumption, NEW n \in Nodes, Taken(n), Stays(n),
         \A d \in Nodes : SameAnswers(d),
         consumedInputs'[n] = consumedInputs[n], consumedControl'[n] = consumedControl[n],
         outputVersion' = outputVersion
  PROVE  Taken(n)'
<1>1. Sources(n) \subseteq Nodes /\ DependsOn[n] \subseteq Nodes
  BY DEF BindingAssumption, Sources
<1>2. Sources(n)' = Sources(n)
  BY DEF Sources
<1> QED
  BY <1>1, <1>2 DEF Taken, Stays, SameAnswers

LEMMA CountedKept ==
  ASSUME TypeOK, OutputsAreCounted, \A d \in Nodes : Same(d), outputVersion' = outputVersion
  PROVE  OutputsAreCounted'
<1> SUFFICES ASSUME NEW d \in Nodes, NEW r \in 1..Round(d)'
             PROVE  runs'[d][r].output <= outputVersion[d]
  BY DEF OutputsAreCounted
<1>1. /\ Round(d) \in Nat /\ Round(d)' \in Nat /\ Round(d)' >= Round(d)
      /\ outputVersion[d] \in Nat
  BY RoundType DEF Same, TypeOK
<1>2. CASE r \in 1..Round(d)
  BY <1>2 DEF Same, OutputsAreCounted
<1>3. CASE r \in (Round(d) + 1)..Round(d)'
  BY <1>1, <1>3 DEF Same
<1> QED
  BY <1>1, <1>2, <1>3

\* The steps that start nothing and in which no round succeeds.
LEMMA TakenInvKept ==
  ASSUME BindingAssumption, TypeOK, TakenInv, \A d \in Nodes : Same(d) /\ Stays(d),
         UNCHANGED <<consumedInputs, consumedControl, outputVersion>>
  PROVE  TakenInv'
BY SameMeansSameAnswers, TakenKept, CountedKept DEF TakenInv

LEMMA TakenInvStart ==
  ASSUME BindingAssumption, IInv, TakenInv, NEW n \in Nodes, Starts(n)
  PROVE  TakenInv'
<1>1. TypeOK /\ \A d \in Nodes : Same(d) /\ SameAnswers(d)
  BY StartIsSame, SameMeansSameAnswers DEF IInv
<1>2. OutputsAreCounted'
  BY <1>1, CountedKept, StartIsSame DEF TakenInv
<1>3. /\ consumedInputs \in [Nodes -> [Nodes -> Nat]]
      /\ consumedControl \in [Nodes -> [Nodes -> Nat]]
      /\ outputVersion \in [Nodes -> Nat]
  BY <1>1 DEF TypeOK
<1>4. /\ consumedInputs' = [consumedInputs EXCEPT ![n] =
           [s \in Nodes |-> IF s \in Sources(n) /\ OutputOf(s) # 0 THEN OutputOf(s) ELSE @[s]]]
      /\ consumedControl' = [consumedControl EXCEPT ![n] =
           [d \in Nodes |-> IF d \in DependsOn[n] THEN ControlCompletedRound(d) ELSE @[d]]]
  BY DEF Starts, StartRound, TripConvergenceGuard, BeginRound
<1>5. ASSUME NEW m \in Nodes, m # n PROVE Taken(m)'
  <2>1. consumedInputs'[m] = consumedInputs[m] /\ consumedControl'[m] = consumedControl[m]
    BY <1>3, <1>4, <1>5
  <2> QED
    BY <1>1, <1>5, <2>1, StartIsSame, TakenKept DEF TakenInv
<1>6. Sources(n) \subseteq Nodes /\ DependsOn[n] \subseteq Nodes /\ Sources(n)' = Sources(n)
  BY DEF BindingAssumption, Sources
<1>7. \A s \in Nodes :
        consumedInputs'[n][s] = IF s \in Sources(n) /\ OutputOf(s) # 0
                                THEN OutputOf(s) ELSE consumedInputs[n][s]
  BY <1>3, <1>4
<1>8. \A d \in DependsOn[n] : consumedControl'[n][d] = ControlCompletedRound(d)
  BY <1>3, <1>4, <1>6
<1>9. \A s \in Nodes : consumedInputs'[n][s] <= outputVersion'[s]
  <2>1. \A s \in Nodes : OutputOf(s) <= outputVersion[s] /\ consumedInputs[n][s] <= outputVersion[s]
    BY <1>1, OutputIsCounted DEF TakenInv, Taken
  <2>2. outputVersion' = outputVersion
    BY StartIsSame
  <2> QED
    BY <1>7, <2>1, <2>2
<1>10. \A s \in Sources(n) : Current(n)'.inputs[s] = OutputOf(s)'
  <2>1. Current(n)'.inputs = [s \in Nodes |-> IF s \in Sources(n) THEN OutputOf(s) ELSE 0]
    BY StartIsSame
  <2> QED
    BY <1>1, <1>6, <2>1 DEF SameAnswers
<1>11. \A d \in DependsOn[n] : /\ Current(n)'.control[d] = consumedControl'[n][d]
                               /\ consumedControl'[n][d] <= ControlCompletedRound(d)'
  <2>1. Current(n)'.control =
          [d \in Nodes |-> IF d \in DependsOn[n] THEN ControlCompletedRound(d) ELSE 0]
    BY StartIsSame
  <2>2. \A d \in DependsOn[n] : ControlCompletedRound(d) \in Nat
    BY <1>1, <1>6, ControlCompletedType
  <2> QED
    BY <1>1, <1>6, <1>8, <2>1, <2>2 DEF SameAnswers
<1>12. Taken(n)'
  BY <1>6, <1>9, <1>10, <1>11 DEF Taken
<1> QED
  BY <1>2, <1>5, <1>12 DEF TakenInv

LEMMA TakenInvSuccess ==
  ASSUME BindingAssumption, IInv, TypeOK', TakenInv, NEW n \in Nodes, Succeeds(n)
  PROVE  TakenInv'
<1>1. /\ TypeOK /\ outputVersion \in [Nodes -> Nat] /\ outputVersion' \in [Nodes -> Nat]
      /\ \A d \in Nodes : outputVersion'[d] >= outputVersion[d]
      /\ consumedInputs' = consumedInputs /\ consumedControl' = consumedControl
      /\ \A m \in Nodes : Stays(m)
      /\ consumedInputs \in [Nodes -> [Nodes -> Nat]]
      /\ consumedControl \in [Nodes -> [Nodes -> Nat]]
  BY SuccessIsNew DEF IInv, TypeOK
<1>2. \A d \in Nodes : d # n => Same(d) /\ SameAnswers(d)
  BY <1>1, SuccessIsNew, SameMeansSameAnswers
<1>3. OutputsAreCounted'
  <2> SUFFICES ASSUME NEW d \in Nodes, NEW r \in 1..Round(d)'
               PROVE  runs'[d][r].output <= outputVersion'[d]
    BY DEF OutputsAreCounted
  <2>1. r \in 1..Round(d) /\ Round(d)' = Round(d)
    BY <1>1 DEF Stays
  <2>2. /\ runs[d][r] \in RunRecord /\ runs[d][r].output \in Nat
        /\ runs[d][r].output <= outputVersion[d]
    BY <1>1, <2>1, RoundType DEF TakenInv, OutputsAreCounted, RunRecord
  <2>3. CASE d # n \/ r # Round(n)
    <3>1. runs'[d][r].output = runs[d][r].output
      BY <1>2, <2>1, <2>3, SuccessIsNew DEF Same
    <3> QED
      BY <1>1, <2>2, <3>1
  <2>4. CASE d = n /\ r = Round(n)
    <3>1. runs'[d][r] = Current(n)'
      BY <2>1, <2>4 DEF Current
    <3>2. runs'[d][r].output = 0 \/ runs'[d][r].output = outputVersion'[d]
      BY <2>4, <3>1, SuccessIsNew
    <3> QED
      BY <1>1, <3>2
  <2> QED
    BY <2>3, <2>4
<1>4. ASSUME NEW m \in Nodes PROVE Taken(m)'
  <2>1. Sources(m) \subseteq Nodes /\ DependsOn[m] \subseteq Nodes /\ Sources(m)' = Sources(m)
    BY DEF BindingAssumption, Sources
  <2>2. \A s \in Nodes : consumedInputs'[m][s] <= outputVersion'[s]
    BY <1>1 DEF TakenInv, Taken
  <2>3. \A s \in Nodes : s # n \/ OutputOf(s)' = 0 \/ OutputOf(s)' # consumedInputs[m][s]
    <3>1. consumedInputs[m][n] <= outputVersion[n] /\ consumedInputs[m][n] \in Nat
          /\ outputVersion[n] \in Nat
      BY <1>1 DEF TakenInv, Taken
    <3>2. OutputOf(n)' = 0 \/ OutputOf(n)' = outputVersion[n] + 1
      BY SuccessAnswers
    <3> QED
      BY <3>1, <3>2
  <2>4. \A d \in Nodes : ControlCompletedRound(d)' >= ControlCompletedRound(d)
    BY <1>1, <1>2, SuccessAnswers, ControlCompletedType DEF SameAnswers
  <2>5. \A d \in Nodes : ControlCompletedRound(d) \in Nat /\ ControlCompletedRound(d)' \in Nat
    BY <1>1, AnswersHold, AnswersNext DEF Answers
  <2>6. ASSUME Round(m)' > 0
        PROVE  /\ \A s \in Sources(m) : OutputOf(s)' # 0 /\ OutputOf(s)' = consumedInputs'[m][s]
                                          => Current(m)'.inputs[s] = OutputOf(s)'
               /\ \A d \in DependsOn[m] : /\ Current(m)'.control[d] = consumedControl'[m][d]
                                          /\ consumedControl'[m][d] <= ControlCompletedRound(d)'
    <3>1. Round(m) > 0 /\ Current(m)'.inputs = Current(m).inputs
          /\ Current(m)'.control = Current(m).control
      BY <1>1, <2>6 DEF Stays
    <3>2. \A s \in Sources(m) : OutputOf(s)' # 0 /\ OutputOf(s)' = consumedInputs'[m][s]
                                  => Current(m)'.inputs[s] = OutputOf(s)'
      BY <1>1, <1>2, <2>1, <2>3, <3>1 DEF TakenInv, Taken, SameAnswers
    <3>3. \A d \in DependsOn[m] : /\ Current(m).control[d] = consumedControl[m][d]
                                  /\ consumedControl[m][d] <= ControlCompletedRound(d)
                                  /\ consumedControl[m][d] \in Nat
      BY <1>1, <2>1, <3>1 DEF TakenInv, Taken
    <3> QED
      BY <1>1, <2>1, <2>4, <2>5, <3>1, <3>2, <3>3
  <2> QED
    BY <2>1, <2>2, <2>6 DEF Taken
<1> QED
  BY <1>3, <1>4 DEF TakenInv

LEMMA TakenInvNext ==
  ASSUME NodesAssumption, BindingAssumption, IInv, TypeOK', TakenInv, [Next]_vars
  PROVE  TakenInv'
<1>1. TypeOK
  BY DEF IInv
<1>2. CASE \/ EnqueueReady \/ NoteStopping \/ DispatchDone \/ EndRun \/ FailBlockedInput
           \/ PromptNextInput \/ GoIdle \/ AwaitResult \/ WakeOnCancel \/ Cancel \/ UNCHANGED vars
  <2>1. UNCHANGED <<runs, consumedInputs, consumedControl, outputVersion>>
    BY <1>2 DEF EnqueueReady, NoteStopping, DispatchDone, EndRun, FailBlockedInput,
                PromptNextInput, GoIdle, AwaitResult, WakeOnCancel, Cancel, vars, inputVars
  <2> QED
    BY <1>1, <2>1, QuietIsSame, TakenInvKept
<1>3. ASSUME NEW n \in Nodes, StartRound(n) \/ TripConvergenceGuard(n) PROVE TakenInv'
  BY <1>3, TakenInvStart DEF Starts
<1>4. ASSUME NEW n \in Nodes,
             RoundReturns(n) \/ RoundFailsStructural(n) \/ HumanInputGiven(n) \/ ApprovalDecided(n)
      PROVE  TakenInv'
  <2>1. CASE Succeeds(n)
    BY <2>1, TakenInvSuccess
  <2>2. CASE Unsuccessful(n)
    BY <1>1, <2>2, UnsuccessfulIsSame, TakenInvKept
  <2> QED
    BY <1>4, <2>1, <2>2 DEF RoundReturns, Succeeds, Unsuccessful
<1>5. ASSUME NEW p \in advising, AdviceGiven(p) \/ AdviceSkipped(p) \/ AdviceFails(p)
      PROVE  TakenInv'
  BY <1>1, <1>5, AdviceIsSame, TakenInvKept
<1> QED
  BY <1>2, <1>3, <1>4, <1>5 DEF Next, Coordinate, PromptReturns, Finished
-----------------------------------------------------------------------------
(* The ready list misses nothing.                                          *)

\* Past the top of the loop every ready node is queued; the list is left only when it is empty
\* or the run is at its parallelism; and a run idles only when nothing is ready.
QueueInv ==
  /\ pc \in {"dispatch", "decide", "select"} /\ ~stopping => \A n \in Nodes : Ready(n) => n \in queued
  /\ pc = "decide" /\ ~stopping => queued = {} \/ inflight >= Parallelism
  /\ pc = "idle" => \A n \in Nodes : ~Ready(n)

LEMMA ReadyKept ==
  ASSUME BindingAssumption, NEW n \in Nodes, \A d \in Nodes : SameAnswers(d),
         runs'[n] = runs[n], consumedInputs'[n] = consumedInputs[n],
         consumedControl'[n] = consumedControl[n], adviseRetry'[n] = adviseRetry[n],
         n \in dirty' <=> n \in dirty
  PROVE  Ready(n)' <=> Ready(n)
<1>1. /\ Requires[n] \subseteq Nodes /\ Accepts[n] \subseteq Nodes
      /\ AdviseFrom[n] \subseteq Nodes /\ DependsOn[n] \subseteq Nodes
  BY DEF BindingAssumption
<1>2. Round(n)' = Round(n) /\ Current(n)' = Current(n)
  BY DEF Round, Current
<1>3. (CanPrepare(n)' <=> CanPrepare(n)) /\ Status(n)' = Status(n)
  BY <1>2 DEF CanPrepare, Status
<1>4. InputsResolved(n)' <=> InputsResolved(n)
  BY <1>1 DEF InputsResolved, SameAnswers
<1>5. InputTriggered(n)' <=> InputTriggered(n)
  <2>1. \A s \in Nodes : NewVersion(n, s)' <=> NewVersion(n, s)
    BY DEF NewVersion, SameAnswers
  <2> QED
    BY <1>1, <2>1 DEF InputTriggered, SameAnswers
<1>6. ControlTriggered(n)' <=> ControlTriggered(n)
  BY <1>1 DEF ControlTriggered, SameAnswers
<1> QED
  BY <1>3, <1>4, <1>5, <1>6 DEF Ready

\* A step that touches nothing of what readiness is made of.
LEMMA QuietReady ==
  ASSUME BindingAssumption, TypeOK,
         UNCHANGED <<runs, consumedInputs, consumedControl, adviseRetry, dirty>>
  PROVE  \A n \in Nodes : Ready(n)' <=> Ready(n)
BY QuietIsSame, SameMeansSameAnswers, ReadyKept

LEMMA QueueInvEnqueue ==
  ASSUME BindingAssumption, IInv, EnqueueReady
  PROVE  QueueInv'
<1> DEFINE joining == {n \in Nodes \ queued : Ready(n)}
<1>1. /\ TypeOK /\ pc' = "dispatch" /\ queued' = queued \cup joining
      /\ dirty' = dirty \cup {n \in joining : Status(n) # "Pending" /\ InputTriggered(n)}
      /\ UNCHANGED <<runs, consumedInputs, consumedControl, adviseRetry>>
  BY DEF IInv, EnqueueReady, inputVars, adviseVars
<1>2. \A d \in Nodes : SameAnswers(d)
  BY <1>1, QuietIsSame, SameMeansSameAnswers
<1>3. ASSUME NEW n \in Nodes, Ready(n)' PROVE n \in queued'
  <2>1. CASE n \in joining
    BY <1>1, <2>1
  <2>2. CASE n \notin joining
    <3>1. n \in dirty' <=> n \in dirty
      BY <1>1, <2>2
    <3>2. Ready(n)
      BY <1>1, <1>2, <1>3, <3>1, ReadyKept
    <3> QED
      BY <1>1, <2>2, <3>2
  <2> QED
    BY <2>1, <2>2
<1> QED
  BY <1>1, <1>3 DEF QueueInv

\* The node that starts a round is ready no more; the others are as ready as they were.
LEMMA QueueInvStart ==
  ASSUME BindingAssumption, IInv, QueueInv, NEW n \in Nodes, StartRound(n)
  PROVE  QueueInv'
<1>1. /\ TypeOK /\ pc = "dispatch" /\ pc' = "dispatch" /\ stopping' = stopping
      /\ queued' = queued \ {n} /\ dirty' = dirty \ {n}
      /\ BeginRound(n, IF n \in Approvals THEN "WaitingHuman" ELSE "Running", "none")
  BY DEF IInv, StartRound, BeginRound, loopVars
<1>2. \A d \in Nodes : SameAnswers(d)
  BY <1>1, StartIsSame, SameMeansSameAnswers DEF Starts
<1>3. ASSUME NEW m \in Nodes, m # n PROVE Ready(m)' <=> Ready(m)
  <2>1. runs'[m] = runs[m]
    BY <1>1, <1>3, StartKeeps
  <2>2. /\ consumedInputs'[m] = consumedInputs[m] /\ consumedControl'[m] = consumedControl[m]
        /\ adviseRetry'[m] = adviseRetry[m]
    BY <1>1, <1>3 DEF BeginRound, TypeOK
  <2>3. m \in dirty' <=> m \in dirty
    BY <1>1, <1>3
  <2> QED
    BY <1>2, <2>1, <2>2, <2>3, ReadyKept
<1>4. ~Ready(n)'
  <2>1. PICK status \in {"Running", "WaitingHuman"} : BeginRound(n, status, "none")
    BY <1>1
  <2>2. /\ Len(runs'[n]) = Len(runs[n]) + 1 /\ Len(runs[n]) \in Nat
        /\ runs'[n][Len(runs[n]) + 1].status = status
    BY <1>1, <2>1, BeginRoundFacts, RoundType DEF Round
  <2>3. Status(n)' = status
    BY <2>2 DEF Status, Current, Round
  <2> QED
    BY <2>3 DEF Ready, CanPrepare
<1> QED
  BY <1>1, <1>3, <1>4 DEF QueueInv

LEMMA QueueInvNext ==
  ASSUME NodesAssumption, BindingAssumption, LimitAssumption, IInv, QueueInv, [Next]_vars
  PROVE  QueueInv'
<1>1. TypeOK
  BY DEF IInv
<1>2. CASE EnqueueReady
  BY <1>2, QueueInvEnqueue
<1>3. CASE \/ NoteStopping \/ EndRun \/ FailBlockedInput \/ PromptNextInput
           \/ WakeOnCancel \/ \E n \in Nodes : TripConvergenceGuard(n)
  BY <1>3 DEF NoteStopping, EndRun, FailBlockedInput, PromptNextInput,
              WakeOnCancel, TripConvergenceGuard, QueueInv
<1>4. ASSUME NEW n \in Nodes, StartRound(n) PROVE QueueInv'
  BY <1>4, QueueInvStart
<1>5. CASE DispatchDone \/ GoIdle \/ AwaitResult \/ Cancel \/ UNCHANGED vars
  <2>1. UNCHANGED <<runs, consumedInputs, consumedControl, adviseRetry, dirty, queued, inflight,
                    stopping>>
    BY <1>5 DEF DispatchDone, GoIdle, AwaitResult, Cancel, vars, loopVars, queueVars, flightVars, adviseVars,
                inputVars
  <2>2. \A n \in Nodes : Ready(n)' <=> Ready(n)
    BY <1>1, <2>1, QuietReady
  <2>3. CASE DispatchDone
    BY <2>1, <2>2, <2>3 DEF DispatchDone, QueueInv
  <2>4. CASE GoIdle
    <3>1. \A n \in Nodes : ~Ready(n)
      BY <2>4, LimitAssumption DEF GoIdle, Settled, QueueInv, LimitAssumption
    <3> QED
      BY <2>2, <2>4, <3>1 DEF GoIdle, QueueInv
  <2>5. CASE AwaitResult
    BY <2>1, <2>2, <2>5 DEF AwaitResult, QueueInv
  <2>6. CASE Cancel \/ UNCHANGED vars
    <3>1. pc' = pc
      BY <2>6 DEF Cancel, vars, loopVars
    <3> QED
      BY <2>1, <2>2, <3>1 DEF QueueInv
  <2> QED
    BY <1>5, <2>3, <2>4, <2>5, <2>6
<1>6. ASSUME NEW n \in Nodes,
             RoundReturns(n) \/ RoundFailsStructural(n) \/ HumanInputGiven(n) \/ ApprovalDecided(n)
      PROVE  QueueInv'
  <2>1. pc' = "top"
    BY <1>6 DEF RoundReturns, RoundSucceeds, RoundFailsInteraction, RoundFailsStructural,
                RoundCancelled, HumanInputGiven, ApprovalDecided, TakeResult
  <2> QED
    BY <2>1 DEF QueueInv
<1>7. ASSUME NEW p \in advising, AdviceGiven(p) \/ AdviceSkipped(p) \/ AdviceFails(p)
      PROVE  QueueInv'
  <2>1. pc' = "top"
    BY <1>7 DEF AdviceGiven, AdviceSkipped, AdviceFails, TakeAdvice
  <2> QED
    BY <2>1 DEF QueueInv
<1> QED
  BY <1>2, <1>3, <1>4, <1>5, <1>6, <1>7 DEF Next, Coordinate, PromptReturns, Finished

FreshInv == TakenInv /\ QueueInv

\* For every workflow, cyclic or not, and every order of results: a run that idles has used the
\* newest version of every input and the newest completed round of every control predecessor.
THEOREM FreshCorrect == Spec => []SettledMeansFresh
<1>1. Init => FreshInv
  BY TakenInvInit DEF Init, FreshInv, QueueInv
<1>2. IInv /\ IInv' /\ FreshInv /\ [Next]_vars => FreshInv'
  BY TakenInvNext, QueueInvNext, NodesAssumption, BindingAssumption, LimitAssumption
  DEF FreshInv, IInv
<1>3. IInv /\ FreshInv => SettledMeansFresh
  <2> SUFFICES ASSUME IInv, FreshInv, pc = "idle", NEW n \in Nodes \ HumanInputs,
                      CanPrepare(n), InputsResolved(n)
               PROVE  /\ Round(n) > 0
                      /\ \A s \in Requires[n] \cup Accepts[n] :
                           OutputOf(s) = 0 \/ ApprovalPassed(s) \/ Current(n).inputs[s] = OutputOf(s)
                      /\ \A d \in DependsOn[n] : Current(n).control[d] = ControlCompletedRound(d)
    BY DEF SettledMeansFresh
  <2>1. /\ Status(n) # "Pending" /\ ~InputTriggered(n) /\ ~ControlTriggered(n)
        /\ TypeOK /\ Taken(n) /\ n \in Nodes
    BY DEF FreshInv, QueueInv, Ready, TakenInv, IInv
  <2>2. Round(n) > 0
    BY <2>1, RoundType DEF Status
  <2>3. ASSUME NEW s \in Requires[n] \cup Accepts[n]
        PROVE  OutputOf(s) = 0 \/ ApprovalPassed(s) \/ Current(n).inputs[s] = OutputOf(s)
    BY <2>1, <2>2 DEF InputTriggered, NewVersion, Taken, Sources
  <2>4. ASSUME NEW d \in DependsOn[n]
        PROVE  Current(n).control[d] = ControlCompletedRound(d)
    <3>1. d \in Nodes /\ consumedControl[n][d] \in Nat /\ ControlCompletedRound(d) \in Nat
      <4>1. d \in Nodes
        BY <2>1, BindingAssumption DEF BindingAssumption
      <4>2. consumedControl[n][d] \in Nat
        BY <2>1, <4>1 DEF TypeOK
      <4> QED
        BY <2>1, <4>1, <4>2, ControlCompletedType
    <3>2. ~(ControlCompletedRound(d) > consumedControl[n][d])
      BY <2>1 DEF ControlTriggered
    <3>3. /\ Current(n).control[d] = consumedControl[n][d]
          /\ consumedControl[n][d] <= ControlCompletedRound(d)
      BY <2>1, <2>2 DEF Taken
    <3> QED
      BY <3>1, <3>2, <3>3
  <2> QED
    BY <2>2, <2>3, <2>4
<1> QED
  BY <1>1, <1>2, <1>3, Inductive, PTL DEF Spec
-----------------------------------------------------------------------------
(* No round without a reason: the reason a node was queued for still holds *)
(* when its turn comes, or was withdrawn by its source meanwhile.          *)

\* The rounds of d keep what they took, and those that succeeded their output.
Took(d) ==
  \A r \in 1..Round(d) :
    /\ runs'[d][r].inputs = runs[d][r].inputs
    /\ runs'[d][r].control = runs[d][r].control
    /\ runs'[d][r].advice = runs[d][r].advice
    /\ runs[d][r].status = "Succeeded" =>
         runs'[d][r].status = "Succeeded" /\ runs'[d][r].output = runs[d][r].output

LEMMA OutcomeTook ==
  ASSUME TypeOK, NEW n \in Nodes, Round(n) > 0, NEW run \in RunRecord, SetCurrent(n, run),
         run.inputs = Current(n).inputs, run.control = Current(n).control,
         run.advice = Current(n).advice,
         Current(n).status = "Succeeded" =>
           run.status = "Succeeded" /\ run.output = Current(n).output
  PROVE  /\ \A d \in Nodes : Took(d) /\ Round(d)' = Round(d)
         /\ \A m \in Nodes : m # n => runs'[m] = runs[m]
<1>1. /\ \A m \in Nodes : Len(runs'[m]) = Len(runs[m])
      /\ runs'[n][Round(n)] = run
      /\ \A m \in Nodes : m # n => runs'[m] = runs[m]
      /\ \A r \in 1..Round(n) : r # Round(n) => runs'[n][r] = runs[n][r]
  BY SetCurrentFacts
<1>2. Took(n)
  BY <1>1 DEF Took, Current
<1>3. ASSUME NEW d \in Nodes, d # n PROVE Took(d)
  BY <1>1, <1>3 DEF Took
<1> QED
  BY <1>1, <1>2, <1>3 DEF Round

\* What the outcomes of a round leave of its record.
LEMMA OutcomeTakes ==
  ASSUME NEW run \in RunRecord
  PROVE  /\ \A version \in Nat :
              LET new == [run EXCEPT !.status = "Succeeded", !.output = version] IN
              new.inputs = run.inputs /\ new.control = run.control /\ new.advice = run.advice
         /\ \A kind \in {"interaction", "structural"} :
              LET new == [run EXCEPT !.status = "Failed", !.errorKind = kind] IN
              new.inputs = run.inputs /\ new.control = run.control /\ new.advice = run.advice
         /\ LET new == [run EXCEPT !.status = IF @ = "Running" THEN "Failed" ELSE @,
                                   !.errorKind = "structural"] IN
              new.inputs = run.inputs /\ new.control = run.control /\ new.advice = run.advice
         /\ \A decision \in {"approved", "rejected"} :
              LET new == [run EXCEPT !.status = "Running", !.decision = decision] IN
              new.inputs = run.inputs /\ new.control = run.control /\ new.advice = run.advice
         /\ LET new == [run EXCEPT !.errorKind = "structural"] IN
              /\ new.inputs = run.inputs /\ new.control = run.control /\ new.advice = run.advice
              /\ new.status = run.status /\ new.output = run.output
  BY DEF RunRecord

LEMMA ResultTook ==
  ASSUME IInv, NEW n \in Nodes, Succeeds(n) \/ Unsuccessful(n)
  PROVE  /\ \A d \in Nodes : Took(d) /\ Round(d)' = Round(d)
         /\ \A m \in Nodes : m # n => runs'[m] = runs[m]
<1>1. /\ TypeOK /\ Round(n) > 0 /\ Current(n) \in RunRecord /\ Current(n).status # "Succeeded"
      /\ outputVersion[n] \in Nat
  BY RoundType
  DEF IInv, TypeOK, TaskHasRound, Status, Succeeds, Unsuccessful, RoundSucceeds,
      RoundFailsInteraction, RoundFailsStructural, RoundCancelled, HumanInputGiven, ApprovalDecided
<1>2. CASE Succeeds(n)
  <2>1. PICK version \in Nat :
          SetCurrent(n, [Current(n) EXCEPT !.status = "Succeeded", !.output = version])
    <3>1. PICK produced \in BOOLEAN : Succeed(n, produced)
      BY <1>2 DEF Succeeds, RoundSucceeds, HumanInputGiven
    <3> DEFINE version == IF produced THEN outputVersion[n] + 1 ELSE 0
    <3>2. version \in Nat
      BY <1>1
    <3>3. SetCurrent(n, [Current(n) EXCEPT !.status = "Succeeded", !.output = version])
      BY <3>1 DEF Succeed
    <3> QED
      BY <3>2, <3>3
  <2> QED
    BY <1>1, <2>1, OutcomeType, OutcomeTakes, OutcomeTook
<1>3. CASE RoundFailsInteraction(n) \/ RoundFailsStructural(n)
  <2>1. PICK kind \in {"interaction", "structural"} :
          SetCurrent(n, [Current(n) EXCEPT !.status = "Failed", !.errorKind = kind])
    BY <1>3 DEF RoundFailsInteraction, RoundFailsStructural
  <2> QED
    BY <1>1, <2>1, OutcomeType, OutcomeTakes, OutcomeTook
<1>4. CASE RoundCancelled(n)
  <2>1. SetCurrent(n, [Current(n) EXCEPT
          !.status = IF @ = "Running" THEN "Failed" ELSE @, !.errorKind = "structural"])
    BY <1>4 DEF RoundCancelled
  <2> QED
    BY <1>1, <2>1, OutcomeType, OutcomeTakes, OutcomeTook
<1>5. CASE ApprovalDecided(n)
  <2>1. PICK decision \in {"approved", "rejected"} :
          SetCurrent(n, [Current(n) EXCEPT !.status = "Running", !.decision = decision])
    BY <1>5 DEF ApprovalDecided
  <2> QED
    BY <1>1, <2>1, OutcomeType, OutcomeTakes, OutcomeTook
<1> QED
  BY <1>2, <1>3, <1>4, <1>5 DEF Unsuccessful

LEMMA AdviceTook ==
  ASSUME IInv, NEW p \in advising, AdviceGiven(p) \/ AdviceSkipped(p) \/ AdviceFails(p)
  PROVE  \A d \in Nodes : Took(d) /\ Round(d)' = Round(d)
<1>1. TypeOK /\ TakeAdvice(p)
  BY DEF IInv, AdviceGiven, AdviceSkipped, AdviceFails
<1>2. CASE AdviceGiven(p) \/ AdviceSkipped(p)
  BY <1>2 DEF AdviceGiven, AdviceSkipped, Took, Round
<1>3. CASE AdviceFails(p)
  <2>1. /\ p[1] \in Nodes /\ Round(p[1]) > 0 /\ Current(p[1]) \in RunRecord
        /\ SetCurrent(p[1], [Current(p[1]) EXCEPT !.errorKind = "structural"])
    BY <1>1, <1>3, TakeAdviceFacts DEF AdviceFails
  <2> QED
    BY <1>1, <2>1, OutcomeType, OutcomeTakes, OutcomeTook
<1> QED
  BY <1>2, <1>3

\* A round that starts: of the others nothing changes, and it takes what its sources say.
LEMMA StartTook ==
  ASSUME BindingAssumption, IInv, NEW n \in Nodes, Starts(n)
  PROVE  /\ \A d \in Nodes : Took(d)
         /\ n \in queued /\ queued' = queued \ {n} /\ dirty' = dirty \ {n}
         /\ Round(n)' = Round(n) + 1
         /\ \A m \in Nodes : m # n =>
              /\ Round(m)' = Round(m) /\ adviseRetry'[m] = adviseRetry[m]
              /\ consumedInputs'[m] = consumedInputs[m] /\ consumedControl'[m] = consumedControl[m]
         /\ \A s \in Nodes :
              /\ runs'[n][Round(n) + 1].inputs[s] = IF s \in Sources(n) THEN OutputOf(s) ELSE 0
              /\ consumedInputs'[n][s] = IF s \in Sources(n) /\ OutputOf(s) # 0
                                         THEN OutputOf(s) ELSE consumedInputs[n][s]
              /\ s \in DependsOn[n] =>
                   runs'[n][Round(n) + 1].control[s] = ControlCompletedRound(s)
         /\ runs'[n][Round(n) + 1].advice = adviseRetry[n]
<1>1. PICK status \in {"Running", "WaitingHuman", "Failed"}, kind \in {"none", "structural"} :
        BeginRound(n, status, kind)
  <2>1. CASE StartRound(n)
    <3>1. BeginRound(n, IF n \in Approvals THEN "WaitingHuman" ELSE "Running", "none")
      BY <2>1 DEF StartRound
    <3> QED
      BY <3>1
  <2>2. CASE TripConvergenceGuard(n)
    BY <2>2 DEF TripConvergenceGuard
  <2> QED
    BY <2>1, <2>2 DEF Starts
<1> DEFINE run == [status |-> status, errorKind |-> kind,
      inputs |-> [s \in Nodes |-> IF s \in Sources(n) THEN OutputOf(s) ELSE 0],
      control |-> [d \in Nodes |-> IF d \in DependsOn[n] THEN ControlCompletedRound(d) ELSE 0],
      advice |-> adviseRetry[n], output |-> 0, decision |-> "none"]
<1>2. /\ TypeOK /\ n \in queued /\ queued' = queued \ {n} /\ dirty' = dirty \ {n}
      /\ runs' = [runs EXCEPT ![n] = Append(@, run)]
      /\ adviseRetry' = [adviseRetry EXCEPT ![n] = 0]
      /\ consumedInputs' = [consumedInputs EXCEPT ![n] =
           [s \in Nodes |-> IF s \in Sources(n) /\ OutputOf(s) # 0 THEN OutputOf(s) ELSE @[s]]]
      /\ consumedControl' = [consumedControl EXCEPT ![n] =
           [d \in Nodes |-> IF d \in DependsOn[n] THEN ControlCompletedRound(d) ELSE @[d]]]
  BY <1>1 DEF IInv, Starts, StartRound, TripConvergenceGuard, BeginRound, IsFirst
<1>3. /\ run.advice = adviseRetry[n]
      /\ run.inputs = [s \in Nodes |-> IF s \in Sources(n) THEN OutputOf(s) ELSE 0]
      /\ run.control = [d \in Nodes |-> IF d \in DependsOn[n] THEN ControlCompletedRound(d) ELSE 0]
  OBVIOUS
<1> HIDE DEF run
<1>4. /\ runs[n] \in Seq(RunRecord) /\ runs \in [Nodes -> Seq(RunRecord)]
      /\ adviseRetry \in [Nodes -> Nat]
      /\ consumedInputs \in [Nodes -> [Nodes -> Nat]]
      /\ consumedControl \in [Nodes -> [Nodes -> Nat]]
  BY <1>2 DEF TypeOK
<1>5. /\ \A m \in Nodes : m # n => runs'[m] = runs[m]
      /\ Len(runs'[n]) = Len(runs[n]) + 1
      /\ \A r \in 1..Len(runs[n]) : runs'[n][r] = runs[n][r]
      /\ runs'[n][Len(runs[n]) + 1] = run
  BY <1>2, <1>4
<1>6. \A m \in Nodes : m # n =>
        /\ Round(m)' = Round(m) /\ adviseRetry'[m] = adviseRetry[m]
        /\ consumedInputs'[m] = consumedInputs[m] /\ consumedControl'[m] = consumedControl[m]
  BY <1>2, <1>4, <1>5 DEF Round
<1>7. \A s \in Nodes : consumedInputs'[n][s] = IF s \in Sources(n) /\ OutputOf(s) # 0
                                               THEN OutputOf(s) ELSE consumedInputs[n][s]
  BY <1>2, <1>4
<1>8. \A d \in Nodes : Took(d)
  <2>1. Took(n)
    BY <1>5 DEF Took, Round
  <2>2. ASSUME NEW d \in Nodes, d # n PROVE Took(d)
    BY <1>5, <2>2 DEF Took
  <2> QED
    BY <2>1, <2>2
<1>9. runs'[n][Round(n) + 1] = run /\ Round(n)' = Round(n) + 1
  BY <1>5 DEF Round
<1>10. \A s \in Nodes :
         /\ runs'[n][Round(n) + 1].inputs[s] = IF s \in Sources(n) THEN OutputOf(s) ELSE 0
         /\ s \in DependsOn[n] => runs'[n][Round(n) + 1].control[s] = ControlCompletedRound(s)
  BY <1>3, <1>9
<1> QED
  BY <1>2, <1>3, <1>6, <1>7, <1>8, <1>9, <1>10
-----------------------------------------------------------------------------
\* A source that succeeded has a newest completed round; what it offers is its newest version,
\* or nothing if its executor may leave the output out.
SourcesInv ==
  /\ \A s \in Nodes : \A r \in 1..Round(s) : runs[s][r].status = "Succeeded" =>
       HasCompleted(s) /\ (runs[s][r].output = 0 => s \in MayOmit)
  /\ \A s \in Nodes : OutputOf(s) \in {0, outputVersion[s]}

LEMMA SourcesInvKept ==
  ASSUME TypeOK, SourcesInv, \A d \in Nodes : Same(d), UNCHANGED outputVersion
  PROVE  SourcesInv'
<1>1. \A d \in Nodes : SameAnswers(d)
  BY SameMeansSameAnswers
<1>2. \A s \in Nodes : OutputOf(s)' \in {0, outputVersion'[s]}
  BY <1>1 DEF SameAnswers, SourcesInv
<1>3. ASSUME NEW s \in Nodes, NEW r \in 1..Round(s)', runs'[s][r].status = "Succeeded"
      PROVE  HasCompleted(s)' /\ (runs'[s][r].output = 0 => s \in MayOmit)
  <2>1. Round(s) \in Nat /\ Round(s)' \in Nat
    BY RoundType DEF Same
  <2>2. r \in 1..Round(s)
    BY <1>3, <2>1 DEF Same
  <2>3. runs[s][r].status = "Succeeded" /\ runs'[s][r].output = runs[s][r].output
    BY <1>3, <2>2 DEF Same
  <2> QED
    BY <1>1, <2>2, <2>3 DEF SameAnswers, SourcesInv
<1> QED
  BY <1>2, <1>3 DEF SourcesInv

LEMMA SourcesInvSuccess ==
  ASSUME NodesAssumption, IInv, TypeOK', SourcesInv, NEW n \in Nodes, Succeeds(n)
  PROVE  SourcesInv'
<1>1. PICK produced \in {TRUE} \cup {n \notin MayOmit} : Succeed(n, produced)
  BY DEF Succeeds, RoundSucceeds, HumanInputGiven
<1>2. /\ TypeOK /\ outputVersion \in [Nodes -> Nat]
      /\ outputVersion' = [outputVersion EXCEPT ![n] = IF produced THEN @ + 1 ELSE @]
  BY <1>1 DEF IInv, TypeOK, Succeed
<1>3. /\ Round(n) > 0 /\ Round(n) \in Nat /\ Round(n)' = Round(n)
      /\ Current(n)' = runs'[n][Round(n)] /\ Current(n)'.status = "Succeeded"
      /\ \A r \in 1..Round(n) : r # Round(n) => runs'[n][r] = runs[n][r]
      /\ Current(n)'.output = 0 \/ outputVersion'[n] = outputVersion[n] + 1
      /\ \A d \in Nodes : d # n => SameAnswers(d)
  BY <1>2, SuccessIsNew, RoundType, SameMeansSameAnswers DEF Stays, Current
<1>4. HasCompleted(n)'
  <2>1. Round(n) \in 1..Round(n)' /\ IsLatestCompleted(n, Round(n))'
    BY <1>3 DEF IsLatestCompleted
  <2> QED
    BY <1>3, <2>1 DEF HasCompleted, IsLatestCompleted
<1>5. Current(n)'.output = 0 => n \in MayOmit
  <2>1. SUFFICES ASSUME n \notin MayOmit PROVE Current(n)'.output # 0
    OBVIOUS
  <2>2. produced = TRUE
    BY <1>1, <2>1
  <2>3. Succeed(n, TRUE)
    BY <1>1, <2>2
  <2> DEFINE version == outputVersion[n] + 1
             run == [Current(n) EXCEPT !.status = "Succeeded", !.output = version]
  <2>4. SetCurrent(n, run)
    BY <2>3 DEF Succeed
  <2>5. version \in Nat /\ version # 0 /\ Current(n) \in RunRecord
    BY <1>2, <1>3, RoundType
  <2> HIDE DEF version
  <2>6. run \in RunRecord /\ run.output = version
    BY <2>5, OutcomeType, RecordFields
  <2> HIDE DEF run
  <2>7. runs'[n][Round(n)] = run
    BY <1>2, <1>3, <2>4, <2>6, SetCurrentFacts
  <2> QED
    BY <1>3, <2>5, <2>6, <2>7
<1>6. ASSUME NEW s \in Nodes PROVE OutputOf(s)' \in {0, outputVersion'[s]}
  <2>1. CASE s # n
    BY <1>2, <1>3, <2>1 DEF SameAnswers, SourcesInv
  <2>2. CASE s = n
    <3>1. OutputOf(n)' = 0 \/ OutputOf(n)' = Current(n)'.output
      <4>1. IsLatestCompleted(n, Round(n))' /\ Round(n) \in 1..Round(n)'
        BY <1>3 DEF IsLatestCompleted
      <4>2. \A q \in 1..Round(n)' : IsLatestCompleted(n, q)' <=> q = Round(n)
        <5>1. Answers'
          BY AnswersNext
        <5> QED
          BY <1>3, <4>1, <5>1 DEF Answers
      <4>3. LatestCompletedRound(n)' = Round(n)
        BY <1>4, <4>1, <4>2 DEF LatestCompletedRound
      <4> QED
        BY <1>3, <1>4, <4>3 DEF OutputOf
    <3>2. Current(n)'.output = 0 \/ Current(n)'.output = outputVersion'[n]
      BY SuccessIsNew
    <3> QED
      BY <2>2, <3>1, <3>2
  <2> QED
    BY <2>1, <2>2
<1>7. ASSUME NEW s \in Nodes, NEW r \in 1..Round(s)', runs'[s][r].status = "Succeeded"
      PROVE  HasCompleted(s)' /\ (runs'[s][r].output = 0 => s \in MayOmit)
  <2>1. CASE s # n
    <3>1. Same(s) /\ Stays(s)
      BY <2>1, SuccessIsNew
    <3>2. r \in 1..Round(s)
      BY <3>1 DEF Stays
    <3> QED
      BY <1>3, <1>7, <2>1, <3>1, <3>2 DEF Same, SameAnswers, SourcesInv
  <2>2. CASE s = n /\ r # Round(n)
    <3>1. r \in 1..Round(n) /\ runs'[n][r] = runs[n][r]
      BY <1>3, <1>7, <2>2
    <3> QED
      BY <1>4, <1>7, <2>2, <3>1 DEF SourcesInv
  <2>3. CASE s = n /\ r = Round(n)
    BY <1>3, <1>4, <1>5, <2>3
  <2> QED
    BY <2>1, <2>2, <2>3
<1> QED
  BY <1>6, <1>7 DEF SourcesInv
-----------------------------------------------------------------------------
\* s has offered an output with a version above v.
Offered(s, v) ==
  \E r \in 1..Round(s) : runs[s][r].status = "Succeeded" /\ runs[s][r].output > v

LEMMA OfferedKept ==
  ASSUME NEW s \in Nodes, Took(s), Round(s)' >= Round(s), Round(s) \in Nat, Round(s)' \in Nat
  PROVE  \A v : Offered(s, v) => Offered(s, v)'
<1> SUFFICES ASSUME NEW v, Offered(s, v) PROVE Offered(s, v)'
  OBVIOUS
<1>1. PICK r \in 1..Round(s) : runs[s][r].status = "Succeeded" /\ runs[s][r].output > v
  BY DEF Offered
<1>2. r \in 1..Round(s)' /\ runs'[s][r].status = "Succeeded" /\ runs'[s][r].output > v
  BY <1>1 DEF Took
<1> QED
  BY <1>2 DEF Offered

\* What a source offers now is above what it took from it only if it is new.
LEMMA NewIsOffered ==
  ASSUME TypeOK, SourcesInv, NEW s \in Nodes, NEW v \in Nat, v <= outputVersion[s],
         OutputOf(s) # 0, OutputOf(s) # v
  PROVE  Offered(s, v)
<1>1. HasCompleted(s) /\ OutputOf(s) = runs[s][LatestCompletedRound(s)].output
  BY DEF OutputOf
<1>2. /\ LatestCompletedRound(s) \in 1..Round(s)
      /\ runs[s][LatestCompletedRound(s)].status = "Succeeded"
  BY <1>1 DEF HasCompleted, LatestCompletedRound, IsLatestCompleted
<1>3. OutputOf(s) > v
  BY DEF SourcesInv, TypeOK
<1> QED
  BY <1>1, <1>2, <1>3 DEF Offered

\* What was offered is still there in a newer version, or its source took it back.
LEMMA OfferedOrTakenBack ==
  ASSUME TypeOK, TakenInv, SourcesInv, NEW s \in Nodes, NEW v \in Nat, Offered(s, v)
  PROVE  \/ OutputOf(s) # 0 /\ OutputOf(s) > v
         \/ /\ OutputOf(s) = 0 /\ s \in MayOmit
            /\ \E offered, after \in 1..Round(s) :
                 /\ offered < after
                 /\ runs[s][offered].status = "Succeeded" /\ runs[s][offered].output > v
                 /\ runs[s][after].status = "Succeeded" /\ runs[s][after].output = 0
<1>1. PICK r \in 1..Round(s) : runs[s][r].status = "Succeeded" /\ runs[s][r].output > v
  BY DEF Offered
<1>2. /\ Round(s) \in Nat /\ runs[s][r].output \in Nat
      /\ outputVersion[s] \in Nat /\ runs[s][r].output <= outputVersion[s]
  BY <1>1, RoundType DEF TypeOK, TakenInv, OutputsAreCounted, RunRecord
<1>3. HasCompleted(s)
  BY <1>1 DEF SourcesInv
<1>4. PICK last \in 1..Round(s) : IsLatestCompleted(s, last) /\ OutputOf(s) = runs[s][last].output
  BY <1>3 DEF HasCompleted, LatestCompletedRound, OutputOf
<1>5. CASE OutputOf(s) # 0
  BY <1>1, <1>2, <1>5 DEF SourcesInv
<1>6. CASE OutputOf(s) = 0
  <2>1. runs[s][last].status = "Succeeded" /\ runs[s][last].output = 0 /\ s \in MayOmit
    BY <1>4, <1>6 DEF IsLatestCompleted, SourcesInv
  <2>2. r < last
    <3>1. r # last
      BY <1>1, <1>2, <2>1
    <3>2. ~(r > last)
      BY <1>1, <1>2, <1>4 DEF IsLatestCompleted
    <3> QED
      BY <1>2, <3>1, <3>2
  <2> QED
    BY <1>1, <1>6, <2>1, <2>2
<1> QED
  BY <1>5, <1>6
-----------------------------------------------------------------------------
\* Why the next round of n will not be a spurious one.
HasReason(n) ==
  \/ adviseRetry[n] # 0
  \/ \E d \in DependsOn[n] : ControlCompletedRound(d) > consumedControl[n][d]
  \/ \E s \in Sources(n) : Offered(s, consumedInputs[n][s])

\* Round r of n did not come from nothing: one disjunct of NoSpuriousRound.
Justified(n, r) ==
  \/ \E s \in Sources(n) : runs[n][r].inputs[s] \notin {0, runs[n][r - 1].inputs[s]}
  \/ \E d \in DependsOn[n] : runs[n][r].control[d] > runs[n][r - 1].control[d]
  \/ runs[n][r].advice # 0
  \/ \E s \in Sources(n) \cap MayOmit : Withdrawn(n, r, s)

\* Round r of n has its required inputs, or their sources took them back.
Complete(n, r) ==
  \A s \in Requires[n] : runs[n][r].inputs[s] = 0 =>
    /\ s \in MayOmit
    /\ \E offered, after \in 1..Round(s) :
         /\ offered < after
         /\ runs[s][offered].status = "Succeeded" /\ runs[s][offered].output > 0
         /\ runs[s][after].status = "Succeeded" /\ runs[s][after].output = 0

\* Every required input of n was there once, and every control predecessor completed.
InputsOffered(n) ==
  /\ \A s \in Requires[n] : Offered(s, 0)
  /\ \A d \in DependsOn[n] : ControlCompletedRound(d) # 0

\* What is known of a node: no round took more than was consumed since, a queued node has a
\* reason, and its required inputs were there once.
Reasoned(n) ==
  /\ \A r \in 1..Round(n) : \A s \in Sources(n) : runs[n][r].inputs[s] <= consumedInputs[n][s]
  /\ n \in queued /\ n \notin HumanInputs /\ Round(n) > 0 => HasReason(n)
  /\ n \in queued \/ Round(n) > 0 => InputsOffered(n)
  /\ n \notin HumanInputs => \A r \in 2..Round(n) : Justified(n, r)
  /\ \A r \in 1..Round(n) : Complete(n, r)

ReasonInv == dirty \subseteq queued /\ \A n \in Nodes : Reasoned(n)

\* A step that keeps what rounds took and what was offered.
Grows(s) ==
  /\ Took(s) /\ Round(s) \in Nat /\ Round(s)' \in Nat /\ Round(s)' >= Round(s)
  /\ ControlCompletedRound(s) \in Nat /\ ControlCompletedRound(s)' \in Nat
  /\ ControlCompletedRound(s)' >= ControlCompletedRound(s)

\* Rounds that are justified and complete stay so.
LEMMA PastRoundsKept ==
  ASSUME BindingAssumption, TypeOK, NEW n \in Nodes, \A s \in Nodes : Grows(s),
         NEW r \in 1..Round(n)
  PROVE  /\ Complete(n, r) => Complete(n, r)'
         /\ r > 1 /\ Justified(n, r) => Justified(n, r)'
<1>1. /\ Sources(n) \subseteq Nodes /\ Requires[n] \subseteq Nodes /\ DependsOn[n] \subseteq Nodes
      /\ Sources(n)' = Sources(n)
  BY DEF BindingAssumption, Sources
<1>2. /\ Round(n) \in Nat /\ r \in Nat
      /\ runs'[n][r].inputs = runs[n][r].inputs /\ runs'[n][r].control = runs[n][r].control
      /\ runs'[n][r].advice = runs[n][r].advice
  BY RoundType DEF Grows, Took
<1>3. ASSUME NEW s \in Nodes, NEW i \in 1..Round(s)
      PROVE  /\ i \in 1..Round(s)'
             /\ runs[s][i].status = "Succeeded" =>
                  runs'[s][i].status = "Succeeded" /\ runs'[s][i].output = runs[s][i].output
  BY <1>3 DEF Grows, Took
<1>4. Complete(n, r) => Complete(n, r)'
  <2> SUFFICES ASSUME Complete(n, r), NEW s \in Requires[n], runs'[n][r].inputs[s] = 0
               PROVE  /\ s \in MayOmit
                      /\ \E offered, after \in 1..Round(s)' :
                           /\ offered < after
                           /\ runs'[s][offered].status = "Succeeded" /\ runs'[s][offered].output > 0
                           /\ runs'[s][after].status = "Succeeded" /\ runs'[s][after].output = 0
    BY DEF Complete
  <2>1. PICK offered \in 1..Round(s), after \in 1..Round(s) :
          /\ offered < after
          /\ runs[s][offered].status = "Succeeded" /\ runs[s][offered].output > 0
          /\ runs[s][after].status = "Succeeded" /\ runs[s][after].output = 0
    BY <1>2 DEF Complete
  <2> QED
    BY <1>1, <1>2, <1>3, <2>1 DEF Complete
<1>5. ASSUME r > 1, Justified(n, r) PROVE Justified(n, r)'
  <2>1. \A q \in 1..r : runs'[n][q].inputs = runs[n][q].inputs
    BY <1>2 DEF Grows, Took
  <2>2. /\ runs'[n][r - 1].inputs = runs[n][r - 1].inputs
        /\ runs'[n][r - 1].control = runs[n][r - 1].control
    <3>1. r - 1 \in 1..Round(n)
      BY <1>2, <1>5
    <3> QED
      BY <3>1 DEF Grows, Took
  <2>3. ASSUME NEW s \in Sources(n), Withdrawn(n, r, s) PROVE Withdrawn(n, r, s)'
    <3>1. PICK offered \in 1..Round(s), after \in 1..Round(s) :
            /\ offered < after
            /\ runs[s][offered].status = "Succeeded" /\ runs[s][after].status = "Succeeded"
            /\ runs[s][after].output = 0
            /\ \A q \in 1..(r - 1) : runs[s][offered].output > runs[n][q].inputs[s]
      BY <2>3 DEF Withdrawn
    <3>2. \A q \in 1..(r - 1) : runs'[n][q].inputs = runs[n][q].inputs
      BY <1>2, <2>1
    <3>3. \A q \in 1..(r - 1) : runs'[s][offered].output > runs'[n][q].inputs[s]
      BY <1>1, <1>3, <3>1, <3>2
    <3>4. runs'[n][r].inputs[s] = 0
      BY <1>2, <2>3 DEF Withdrawn
    <3> QED
      BY <1>1, <1>3, <3>1, <3>3, <3>4 DEF Withdrawn
  <2> QED
    BY <1>1, <1>2, <1>5, <2>2, <2>3 DEF Justified
<1> QED
  BY <1>4, <1>5

\* A node that starts nothing, when its queueing has its reason.
LEMMA ReasonedKept ==
  ASSUME BindingAssumption, TypeOK, NEW n \in Nodes, Reasoned(n), \A s \in Nodes : Grows(s),
         Round(n)' = Round(n),
         consumedInputs'[n] = consumedInputs[n], consumedControl'[n] = consumedControl[n],
         adviseRetry'[n] = adviseRetry[n] \/ adviseRetry'[n] # 0,
         n \in queued' /\ n \notin HumanInputs /\ Round(n) > 0 => HasReason(n),
         n \in queued' \/ Round(n) > 0 => InputsOffered(n)
  PROVE  Reasoned(n)'
<1>1. /\ Sources(n) \subseteq Nodes /\ Requires[n] \subseteq Nodes /\ DependsOn[n] \subseteq Nodes
      /\ Sources(n)' = Sources(n)
  BY DEF BindingAssumption, Sources
<1>2. Round(n) \in Nat /\ \A r \in 2..Round(n) : r \in 1..Round(n) /\ r > 1
  BY RoundType
<1>3. \A s \in Nodes : \A v : Offered(s, v) => Offered(s, v)'
  BY OfferedKept DEF Grows
<1>4. \A r \in 1..Round(n)' : \A s \in Sources(n)' : runs'[n][r].inputs[s] <= consumedInputs'[n][s]
  BY <1>1 DEF Reasoned, Grows, Took
<1>5. HasReason(n) => HasReason(n)'
  <2>1. CASE adviseRetry[n] # 0
    BY <2>1 DEF HasReason
  <2>2. ASSUME NEW d \in DependsOn[n], ControlCompletedRound(d) > consumedControl[n][d]
        PROVE  HasReason(n)'
    <3>1. consumedControl[n][d] \in Nat
      BY <1>1 DEF TypeOK
    <3>2. ControlCompletedRound(d)' > consumedControl'[n][d]
      BY <1>1, <2>2, <3>1 DEF Grows
    <3> QED
      BY <3>2 DEF HasReason
  <2>3. ASSUME NEW s \in Sources(n), Offered(s, consumedInputs[n][s]) PROVE HasReason(n)'
    <3>1. Offered(s, consumedInputs[n][s])'
      <4>1. consumedInputs'[n][s] = consumedInputs[n][s]
        OBVIOUS
      <4>2. PICK r \in 1..Round(s) :
              runs[s][r].status = "Succeeded" /\ runs[s][r].output > consumedInputs[n][s]
        BY <2>3 DEF Offered
      <4>3. /\ r \in 1..Round(s)' /\ runs'[s][r].status = "Succeeded"
            /\ runs'[s][r].output > consumedInputs'[n][s]
        BY <1>1, <4>1, <4>2 DEF Grows, Took
      <4> QED
        BY <4>3 DEF Offered
    <3> QED
      BY <1>1, <3>1 DEF HasReason
  <2> QED
    BY <2>1, <2>2, <2>3 DEF HasReason
<1>6. n \in queued' \/ Round(n)' > 0 => InputsOffered(n)'
  BY <1>1, <1>3 DEF InputsOffered, Grows
<1>7. n \notin HumanInputs => \A r \in 2..Round(n)' : Justified(n, r)'
  BY <1>2, PastRoundsKept DEF Reasoned
<1>8. \A r \in 1..Round(n)' : Complete(n, r)'
  BY <1>2, PastRoundsKept DEF Reasoned
<1> QED
  BY <1>4, <1>5, <1>6, <1>7, <1>8 DEF Reasoned

\* The node that starts a round.
LEMMA StartReasoned ==
  ASSUME BindingAssumption, IInv, TypeOK', TakenInv, SourcesInv, NEW n \in Nodes, Reasoned(n),
         Starts(n), \A s \in Nodes : Grows(s)
  PROVE  Reasoned(n)'
<1>0. PICK new \in Nat : new = Round(n) + 1
  BY RoundType DEF IInv
<1>1. /\ TypeOK /\ n \in queued /\ queued' = queued \ {n} /\ Round(n)' = new
      /\ Sources(n) \subseteq Nodes /\ Requires[n] \subseteq Sources(n) /\ DependsOn[n] \subseteq Nodes
      /\ Sources(n)' = Sources(n)
      /\ Round(n) \in Nat /\ new \in 1..Round(n)'
  BY <1>0, StartTook, RoundType DEF IInv, BindingAssumption, Sources
<1>2. \A s \in Nodes :
        /\ runs'[n][new].inputs[s] = IF s \in Sources(n) THEN OutputOf(s) ELSE 0
        /\ consumedInputs'[n][s] = IF s \in Sources(n) /\ OutputOf(s) # 0
                                   THEN OutputOf(s) ELSE consumedInputs[n][s]
        /\ s \in DependsOn[n] => runs'[n][new].control[s] = ControlCompletedRound(s)
  BY <1>0, StartTook
<1>3. runs'[n][new].advice = adviseRetry[n]
  BY <1>0, StartTook
<1>4. \A r \in 1..Round(n) : /\ runs'[n][r].inputs = runs[n][r].inputs
                             /\ runs'[n][r].control = runs[n][r].control
  BY DEF Grows, Took
<1>5. ASSUME NEW s \in Nodes
      PROVE  /\ consumedInputs[n][s] \in Nat /\ OutputOf(s) \in Nat /\ outputVersion[s] \in Nat
             /\ consumedInputs[n][s] <= outputVersion[s]
             /\ OutputOf(s) \in {0, outputVersion[s]}
             /\ \A r \in 1..Round(n) : runs[n][r].inputs[s] \in Nat
  <2>1. consumedInputs[n][s] \in Nat /\ OutputOf(s) \in Nat /\ outputVersion[s] \in Nat
    <3>1. /\ consumedInputs \in [Nodes -> [Nodes -> Nat]] /\ outputVersion \in [Nodes -> Nat]
          /\ OutputOf(s) \in Nat
      BY <1>1, OutputOfType DEF TypeOK
    <3> QED
      BY <3>1
  <2>2. consumedInputs[n][s] <= outputVersion[s] /\ OutputOf(s) \in {0, outputVersion[s]}
    BY DEF TakenInv, Taken, SourcesInv
  <2>3. \A r \in 1..Round(n) : runs[n][r].inputs[s] \in Nat
    BY <1>1, RoundType DEF RunRecord
  <2> QED
    BY <2>1, <2>2, <2>3
<1>6. \A s \in Sources(n) :
        /\ consumedInputs'[n][s] >= consumedInputs[n][s]
        /\ runs'[n][new].inputs[s] <= consumedInputs'[n][s]
  BY <1>1, <1>2, <1>5
<1>7. \A r \in 1..Round(n)' : \A s \in Sources(n)' : runs'[n][r].inputs[s] <= consumedInputs'[n][s]
  <2> SUFFICES ASSUME NEW r \in 1..Round(n)', NEW s \in Sources(n)
               PROVE  runs'[n][r].inputs[s] <= consumedInputs'[n][s]
    BY <1>1
  <2>1. CASE r = new
    BY <1>6, <2>1
  <2>2. CASE r # new
    <3>1. r \in 1..Round(n)
      BY <1>0, <1>1, <2>2
    <3>2. /\ runs[n][r].inputs[s] <= consumedInputs[n][s] /\ runs[n][r].inputs[s] \in Nat
          /\ consumedInputs[n][s] \in Nat
      BY <1>1, <1>5, <3>1 DEF Reasoned
    <3>3. consumedInputs'[n][s] \in Nat
      BY <1>1 DEF TypeOK
    <3> QED
      BY <1>4, <1>6, <3>1, <3>2, <3>3
  <2> QED
    BY <2>1, <2>2
<1>8. ASSUME NEW s \in Nodes, NEW i \in 1..Round(s), runs[s][i].status = "Succeeded"
      PROVE  /\ i \in 1..Round(s)' /\ runs'[s][i].status = "Succeeded"
             /\ runs'[s][i].output = runs[s][i].output
  BY <1>8 DEF Grows, Took
<1>9. InputsOffered(n) /\ InputsOffered(n)'
  BY <1>1, OfferedKept DEF Reasoned, InputsOffered, Grows
<1>10. Complete(n, new)'
  <2> SUFFICES ASSUME NEW s \in Requires[n], runs'[n][new].inputs[s] = 0
               PROVE  /\ s \in MayOmit
                      /\ \E offered, after \in 1..Round(s)' :
                           /\ offered < after
                           /\ runs'[s][offered].status = "Succeeded" /\ runs'[s][offered].output > 0
                           /\ runs'[s][after].status = "Succeeded" /\ runs'[s][after].output = 0
    BY DEF Complete
  <2>1. OutputOf(s) = 0 /\ s \in Nodes
    BY <1>1, <1>2
  <2>2. /\ s \in MayOmit
        /\ \E offered, after \in 1..Round(s) :
             /\ offered < after
             /\ runs[s][offered].status = "Succeeded" /\ runs[s][offered].output > 0
             /\ runs[s][after].status = "Succeeded" /\ runs[s][after].output = 0
    BY <1>1, <1>9, <2>1, OfferedOrTakenBack DEF InputsOffered
  <2> QED
    BY <1>8, <2>1, <2>2
<1>11. ASSUME n \notin HumanInputs, Round(n) > 0 PROVE Justified(n, new)'
  <2>1. new - 1 = Round(n) /\ Round(n) \in 1..Round(n) /\ new \in 2..Round(n)'
    BY <1>0, <1>1, <1>11
  <2>2. CASE adviseRetry[n] # 0
    BY <1>3, <2>2 DEF Justified
  <2>3. ASSUME NEW d \in DependsOn[n], ControlCompletedRound(d) > consumedControl[n][d]
        PROVE  Justified(n, new)'
    <3>1. runs'[n][new - 1].control[d] = consumedControl[n][d]
      BY <1>1, <1>4, <1>11, <2>1 DEF TakenInv, Taken, Current
    <3>2. runs'[n][new].control[d] > runs'[n][new - 1].control[d]
      BY <1>1, <1>2, <2>3, <3>1
    <3> QED
      BY <3>2 DEF Justified
  <2>4. ASSUME NEW s \in Sources(n), Offered(s, consumedInputs[n][s]) PROVE Justified(n, new)'
    <3> DEFINE consumed == consumedInputs[n][s]
    <3>1. /\ s \in Nodes /\ consumed \in Nat
          /\ \A q \in 1..Round(n) : /\ runs'[n][q].inputs[s] <= consumed
                                    /\ runs'[n][q].inputs[s] \in Nat
      BY <1>1, <1>4, <1>5 DEF Reasoned
    <3> HIDE DEF consumed
    <3>2. CASE OutputOf(s) # 0 /\ OutputOf(s) > consumed
      <4>1. runs'[n][new].inputs[s] = OutputOf(s)
        BY <1>2, <3>1
      <4>2. runs'[n][new].inputs[s] \notin {0, runs'[n][new - 1].inputs[s]}
        BY <1>5, <2>1, <3>1, <3>2, <4>1
      <4> QED
        BY <1>1, <4>2 DEF Justified
    <3>3. CASE OutputOf(s) = 0 /\ s \in MayOmit
      <4>1. runs'[n][new].inputs[s] = 0
        BY <1>2, <3>1, <3>3
      <4>2. PICK offered \in 1..Round(s), after \in 1..Round(s) :
              /\ offered < after
              /\ runs[s][offered].status = "Succeeded" /\ runs[s][offered].output > consumed
              /\ runs[s][after].status = "Succeeded" /\ runs[s][after].output = 0
        BY <1>1, <2>4, <3>1, <3>3, OfferedOrTakenBack DEF consumed
      <4>3. /\ offered \in 1..Round(s)' /\ after \in 1..Round(s)'
            /\ runs'[s][offered].status = "Succeeded" /\ runs'[s][offered].output > consumed
            /\ runs'[s][after].status = "Succeeded" /\ runs'[s][after].output = 0
            /\ runs'[s][offered].output \in Nat
        <5>1. runs[s][offered].output \in Nat
          BY <1>1, <3>1, RoundType DEF RunRecord
        <5> QED
          BY <1>8, <3>1, <4>2, <5>1
      <4>4. \A q \in 1..(new - 1) : runs'[s][offered].output > runs'[n][q].inputs[s]
        BY <2>1, <3>1, <4>3
      <4>5. Withdrawn(n, new, s)'
        BY <4>1, <4>2, <4>3, <4>4 DEF Withdrawn
      <4> QED
        BY <1>1, <3>3, <4>5 DEF Justified
    <3> QED
      BY <1>1, <2>4, <3>1, <3>2, <3>3, OfferedOrTakenBack DEF consumed
  <2> QED
    BY <1>1, <1>11, <2>2, <2>3, <2>4 DEF Reasoned, HasReason
<1>12. \A r \in 1..Round(n)' : Complete(n, r)'
  <2> SUFFICES ASSUME NEW r \in 1..Round(n)' PROVE Complete(n, r)'
    OBVIOUS
  <2>1. r = new \/ r \in 1..Round(n)
    BY <1>0, <1>1
  <2> QED
    BY <1>1, <1>10, <2>1, PastRoundsKept DEF Reasoned
<1>13. n \notin HumanInputs => \A r \in 2..Round(n)' : Justified(n, r)'
  <2> SUFFICES ASSUME n \notin HumanInputs, NEW r \in 2..Round(n)' PROVE Justified(n, r)'
    OBVIOUS
  <2>1. \/ r = new /\ Round(n) > 0
        \/ r \in 1..Round(n) /\ r > 1 /\ r \in 2..Round(n)
    BY <1>0, <1>1
  <2> QED
    BY <1>1, <1>11, <2>1, PastRoundsKept DEF Reasoned
<1> QED
  BY <1>1, <1>7, <1>9, <1>12, <1>13 DEF Reasoned

\* What the steps that start nothing do to every node.
LEMMA SettledGrows ==
  ASSUME TypeOK, TypeOK', \A s \in Nodes : Took(s) /\ Round(s)' = Round(s) /\ SameAnswers(s)
  PROVE  \A s \in Nodes : Grows(s)
<1> SUFFICES ASSUME NEW s \in Nodes PROVE Grows(s)
  OBVIOUS
<1>1. /\ Round(s) \in Nat /\ Round(s)' = Round(s)
      /\ ControlCompletedRound(s) \in Nat /\ ControlCompletedRound(s)' = ControlCompletedRound(s)
  BY RoundType, ControlCompletedType DEF SameAnswers
<1> QED
  BY <1>1 DEF Grows

\* A result of a round or of a prompt, of whatever kind.
LEMMA ReasonInvResult ==
  ASSUME BindingAssumption, TypeOK, ReasonInv, \A s \in Nodes : Grows(s) /\ Round(s)' = Round(s),
         UNCHANGED <<consumedInputs, consumedControl, queued, dirty>>,
         \A n \in Nodes : adviseRetry'[n] = adviseRetry[n] \/ adviseRetry'[n] # 0
  PROVE  ReasonInv'
<1>1. \A n \in Nodes : Reasoned(n)'
  BY ReasonedKept DEF ReasonInv, Reasoned
<1> QED
  BY <1>1 DEF ReasonInv

LEMMA ReasonInvStart ==
  ASSUME BindingAssumption, IInv, TypeOK', TakenInv, SourcesInv, ReasonInv, NEW n \in Nodes,
         Starts(n)
  PROVE  ReasonInv'
<1>1. /\ TypeOK /\ queued' = queued \ {n} /\ dirty' = dirty \ {n}
      /\ \A m \in Nodes : m # n =>
           /\ Round(m)' = Round(m) /\ adviseRetry'[m] = adviseRetry[m]
           /\ consumedInputs'[m] = consumedInputs[m] /\ consumedControl'[m] = consumedControl[m]
  BY StartTook DEF IInv
<1>2. ASSUME NEW s \in Nodes PROVE Grows(s)
  <2>1. Took(s) /\ SameAnswers(s)
    BY <1>1, StartTook, StartIsSame, SameMeansSameAnswers
  <2>2. /\ Round(s) \in Nat /\ Round(s)' \in Nat /\ Round(s)' >= Round(s)
        /\ ControlCompletedRound(s) \in Nat
    BY <1>1, RoundType, StartIsSame, ControlCompletedType DEF Same
  <2> QED
    BY <2>1, <2>2 DEF Grows, SameAnswers
<1>3. Reasoned(n)'
  BY <1>2, StartReasoned DEF ReasonInv
<1>4. ASSUME NEW m \in Nodes, m # n PROVE Reasoned(m)'
  BY <1>1, <1>2, <1>4, ReasonedKept DEF ReasonInv, Reasoned
<1> QED
  BY <1>1, <1>3, <1>4 DEF ReasonInv

\* A node that joins the list is ready, and a ready node that ran has a reason.
LEMMA ReadyHasReason ==
  ASSUME BindingAssumption, TypeOK, TakenInv, SourcesInv, NEW n \in Nodes \ dirty, Ready(n),
         Round(n) > 0
  PROVE  HasReason(n)
<1>1. /\ Sources(n) = Requires[n] \cup Accepts[n] \cup AdviseFrom[n] /\ Sources(n) \subseteq Nodes
      /\ consumedInputs \in [Nodes -> [Nodes -> Nat]]
  BY DEF BindingAssumption, Sources, TypeOK
<1>2. Status(n) # "Pending"
  BY SMTT(30), RoundType DEF Status, RunRecord
<1>3. ASSUME NEW s \in Sources(n), NewVersion(n, s) PROVE HasReason(n)
  <2>1. /\ s \in Nodes /\ consumedInputs[n][s] \in Nat /\ consumedInputs[n][s] <= outputVersion[s]
        /\ OutputOf(s) # 0 /\ OutputOf(s) # consumedInputs[n][s]
    BY <1>1, <1>3 DEF NewVersion, TakenInv, Taken
  <2>2. Offered(s, consumedInputs[n][s])
    BY <2>1, NewIsOffered
  <2> QED
    BY <2>2 DEF HasReason
<1>4. ASSUME InputTriggered(n) PROVE HasReason(n)
  BY <1>1, <1>3, <1>4 DEF InputTriggered, HasReason
<1>5. ASSUME ControlTriggered(n) PROVE HasReason(n)
  BY <1>5 DEF ControlTriggered, HasReason
<1> QED
  BY <1>2, <1>4, <1>5 DEF Ready

LEMMA ResolvedIsOffered ==
  ASSUME BindingAssumption, TypeOK, SourcesInv, NEW n \in Nodes, InputsResolved(n)
  PROVE  InputsOffered(n)
<1> SUFFICES ASSUME NEW s \in Requires[n] PROVE Offered(s, 0)
  BY DEF InputsOffered, InputsResolved
<1>1. s \in Nodes /\ OutputOf(s) # 0 /\ outputVersion[s] \in Nat
  BY DEF BindingAssumption, InputsResolved, TypeOK
<1>2. 0 \in Nat /\ 0 <= outputVersion[s]
  BY <1>1
<1> QED
  BY <1>1, <1>2, NewIsOffered

LEMMA ReasonInvEnqueue ==
  ASSUME BindingAssumption, IInv, TypeOK', TakenInv, SourcesInv, ReasonInv, EnqueueReady
  PROVE  ReasonInv'
<1> DEFINE joining == {n \in Nodes \ queued : Ready(n)}
<1>1. /\ TypeOK /\ queued' = queued \cup joining
      /\ dirty' = dirty \cup {n \in joining : Status(n) # "Pending" /\ InputTriggered(n)}
      /\ UNCHANGED <<runs, consumedInputs, consumedControl, adviseRetry>>
  BY DEF IInv, EnqueueReady, inputVars, adviseVars
<1>2. \A s \in Nodes : Grows(s)
  BY <1>1, QuietIsSame, SameMeansSameAnswers, SettledGrows DEF Took, Stays
<1>3. ASSUME NEW n \in Nodes PROVE Reasoned(n)'
  <2>1. Round(n)' = Round(n)
    BY <1>1 DEF Round
  <2>2. ASSUME n \in queued', n \notin HumanInputs, Round(n) > 0 PROVE HasReason(n)
    <3>1. CASE n \in queued
      BY <2>2, <3>1 DEF ReasonInv, Reasoned
    <3>2. CASE n \in joining
      BY <1>1, <2>2, <3>2, ReadyHasReason DEF ReasonInv
    <3> QED
      BY <1>1, <2>2, <3>1, <3>2
  <2>3. ASSUME n \in queued' \/ Round(n) > 0 PROVE InputsOffered(n)
    <3>1. CASE n \in queued \/ Round(n) > 0
      BY <3>1 DEF ReasonInv, Reasoned
    <3>2. CASE n \in joining
      BY <1>1, <3>2, ResolvedIsOffered DEF Ready
    <3> QED
      BY <1>1, <2>3, <3>1, <3>2
  <2> QED
    BY <1>1, <1>2, <2>1, <2>2, <2>3, ReasonedKept DEF ReasonInv
<1>4. dirty' \subseteq queued'
  BY <1>1 DEF ReasonInv
<1> QED
  BY <1>3, <1>4 DEF ReasonInv

LEMMA ReasonInvNext ==
  ASSUME NodesAssumption, BindingAssumption, IInv, TypeOK', TakenInv, SourcesInv, ReasonInv,
         [Next]_vars
  PROVE  SourcesInv' /\ ReasonInv'
<1>1. TypeOK
  BY DEF IInv
<1>2. CASE \/ NoteStopping \/ DispatchDone \/ EndRun \/ FailBlockedInput
           \/ GoIdle \/ AwaitResult \/ WakeOnCancel \/ Cancel \/ UNCHANGED vars
  <2>1. UNCHANGED <<runs, consumedInputs, consumedControl, outputVersion, adviseRetry,
                    queued, dirty>>
    BY <1>2 DEF NoteStopping, DispatchDone, EndRun, FailBlockedInput,
                GoIdle, AwaitResult, WakeOnCancel, Cancel, vars, inputVars, adviseVars, queueVars
  <2>2. \A s \in Nodes : Grows(s) /\ Round(s)' = Round(s)
    BY <1>1, <2>1, QuietIsSame, SameMeansSameAnswers, SettledGrows DEF Took, Stays
  <2> QED
    BY <1>1, <2>1, <2>2, QuietIsSame, SourcesInvKept, ReasonInvResult
<1>3. CASE EnqueueReady
  <2>1. UNCHANGED <<runs, outputVersion>>
    BY <1>3 DEF EnqueueReady
  <2> QED
    BY <1>1, <1>3, <2>1, QuietIsSame, SourcesInvKept, ReasonInvEnqueue
<1>4. CASE PromptNextInput
  <2>1. PICK n \in OpenInputs : queued' = queued \cup {n}
    BY <1>4 DEF PromptNextInput
  <2>2. /\ n \in HumanInputs /\ n \in Nodes /\ Round(n) > 0
        /\ UNCHANGED <<runs, consumedInputs, consumedControl, outputVersion, adviseRetry, dirty>>
    BY <1>1, <1>4, <2>1, NodesAssumption, RoundType
    DEF OpenInputs, PromptNextInput, Status, NodesAssumption, inputVars, adviseVars
  <2>3. \A s \in Nodes : Grows(s) /\ Round(s)' = Round(s)
    BY <1>1, <2>2, QuietIsSame, SameMeansSameAnswers, SettledGrows DEF Took, Stays
  <2>4. ASSUME NEW m \in Nodes PROVE Reasoned(m)'
    <3>1. m \in queued' => m \in queued \/ (m \in HumanInputs /\ Round(m) > 0)
      BY <2>1, <2>2
    <3> QED
      BY <1>1, <2>2, <2>3, <3>1, ReasonedKept DEF ReasonInv, Reasoned
  <2>5. dirty' \subseteq queued'
    BY <2>1, <2>2 DEF ReasonInv
  <2> QED
    BY <1>1, <2>2, <2>4, <2>5, QuietIsSame, SourcesInvKept DEF ReasonInv
<1>5. ASSUME NEW n \in Nodes, Starts(n) PROVE SourcesInv' /\ ReasonInv'
  BY <1>1, <1>5, StartIsSame, SourcesInvKept, ReasonInvStart
<1>6. ASSUME NEW n \in Nodes,
             RoundReturns(n) \/ RoundFailsStructural(n) \/ HumanInputGiven(n) \/ ApprovalDecided(n)
      PROVE  SourcesInv' /\ ReasonInv'
  <2>1. UNCHANGED <<queued, dirty, consumedInputs, consumedControl, adviseRetry>>
    BY <1>6 DEF RoundReturns, RoundSucceeds, RoundFailsInteraction, RoundFailsStructural,
                RoundCancelled, HumanInputGiven, ApprovalDecided, queueVars, inputVars, adviseVars
  <2>2. Succeeds(n) \/ Unsuccessful(n)
    BY <1>6 DEF RoundReturns, Succeeds, Unsuccessful
  <2>3. \A s \in Nodes : Took(s) /\ Round(s)' = Round(s)
    BY <2>2, ResultTook
  <2>4. CASE Unsuccessful(n)
    <3>1. (\A s \in Nodes : Same(s)) /\ UNCHANGED outputVersion
      BY <2>4, UnsuccessfulIsSame
    <3>2. \A s \in Nodes : Grows(s)
      BY <1>1, <2>3, <3>1, SameMeansSameAnswers, SettledGrows
    <3> QED
      BY <1>1, <2>1, <2>3, <3>1, <3>2, SourcesInvKept, ReasonInvResult
  <2>5. CASE Succeeds(n)
    <3>1. \A s \in Nodes : ControlCompletedRound(s)' >= ControlCompletedRound(s)
      <4> SUFFICES ASSUME NEW s \in Nodes
                   PROVE  ControlCompletedRound(s)' >= ControlCompletedRound(s)
        OBVIOUS
      <4>1. CASE s = n
        BY <2>5, <4>1, SuccessAnswers
      <4>2. CASE s # n
        BY <1>1, <2>5, <4>2, SuccessIsNew, SameMeansSameAnswers, ControlCompletedType DEF SameAnswers
      <4> QED
        BY <4>1, <4>2
    <3>2. \A s \in Nodes : Grows(s)
      BY <1>1, <2>3, <3>1, RoundType, AnswersHold, AnswersNext DEF Grows, Answers
    <3>3. SourcesInv'
      BY <2>5, SourcesInvSuccess
    <3> QED
      BY <1>1, <2>1, <2>3, <3>2, <3>3, ReasonInvResult
  <2> QED
    BY <2>2, <2>4, <2>5
<1>7. ASSUME NEW p \in advising, AdviceGiven(p) \/ AdviceSkipped(p) \/ AdviceFails(p)
      PROVE  SourcesInv' /\ ReasonInv'
  <2>1. \A s \in Nodes : Took(s) /\ Round(s)' = Round(s) /\ Same(s)
    BY <1>7, AdviceTook, AdviceIsSame
  <2>2. UNCHANGED <<queued, dirty, consumedInputs, consumedControl, outputVersion>>
    BY <1>7, AdviceIsSame DEF AdviceGiven, AdviceSkipped, AdviceFails, queueVars
  <2>3. \A m \in Nodes : adviseRetry'[m] = adviseRetry[m] \/ adviseRetry'[m] # 0
    <3>1. /\ adviseRetry \in [Nodes -> Nat] /\ p[2] # 0
          /\ \/ adviseRetry' = adviseRetry
             \/ adviseRetry' = [adviseRetry EXCEPT ![p[1]] = p[2]]
      <4>1. p[2] \in 1..Round(p[1])
        BY DEF IInv, AdviceIsAboutAnOldRound
      <4>2. p[2] # 0
        BY <4>1
      <4> QED
        BY <1>1, <1>7, <4>2 DEF TypeOK, AdviceGiven, AdviceSkipped, AdviceFails
    <3> QED
      BY <3>1
  <2>4. \A s \in Nodes : Grows(s)
    BY <1>1, <2>1, SameMeansSameAnswers, SettledGrows
  <2> QED
    BY <1>1, <2>1, <2>2, <2>3, <2>4, SourcesInvKept, ReasonInvResult
<1> QED
  BY <1>2, <1>3, <1>4, <1>5, <1>6, <1>7 DEF Next, Coordinate, PromptReturns, Finished, Starts

LEMMA ReasonInductive == Spec => []ReasonInv
<1>1. Init => TakenInv /\ SourcesInv /\ ReasonInv
  BY TakenInvInit DEF Init, SourcesInv, ReasonInv, Reasoned, OutputOf, HasCompleted, Round
<1>2. IInv /\ IInv' /\ TakenInv /\ SourcesInv /\ ReasonInv /\ [Next]_vars
        => TakenInv' /\ SourcesInv' /\ ReasonInv'
  BY TakenInvNext, ReasonInvNext, NodesAssumption, BindingAssumption DEF IInv
<1> QED
  BY <1>1, <1>2, Inductive, PTL DEF Spec

\* A settled workflow makes no round for nothing: what a round was queued for is in its inputs,
\* in its control predecessors or in its advice, or was taken back by its source meanwhile.
THEOREM NoRoundForNothing == Spec => []NoSpuriousRound
<1>1. ReasonInv => NoSpuriousRound
  BY DEF ReasonInv, Reasoned, Justified, NoSpuriousRound
<1> QED
  BY <1>1, ReasonInductive, PTL

\* A round lacks a required input only if its source had made it and left it out of a later
\* round: readiness is not looked at again while a node waits in the list (engine.go:189-197).
RequiredInputsAreThere == \A n \in Nodes : \A r \in 1..Round(n) : Complete(n, r)

THEOREM RequiredInputsCorrect == Spec => []RequiredInputsAreThere
<1>1. ReasonInv => RequiredInputsAreThere
  BY DEF ReasonInv, Reasoned, RequiredInputsAreThere
<1> QED
  BY <1>1, ReasonInductive, PTL
-----------------------------------------------------------------------------
(* Advice is used.                                                         *)

\* Advice is for agents that ran; while a run lives, a node at rest may be started again.
LiveInv ==
  /\ runErr # NoErr => stopping
  /\ pc = "idle" => ~stopping /\ inflight = 0
  /\ \A p \in advising : p[1] \in Agents
  /\ \A n \in Nodes : adviseRetry[n] # 0 => n \in Agents /\ Round(n) > 0
  /\ \A n \in Nodes : Round(n) > 0 /\ task[n] = "none" =>
       CanPrepare(n) \/ stopping \/ (ctxDone /\ pc = "top")

LEMMA LiveInvInit == Init => LiveInv
  BY DEF Init, LiveInv, Round

\* The steps that leave the rounds, the tasks and the advice alone.
LEMMA LiveInvQuiet ==
  ASSUME LiveInv, UNCHANGED <<runs, task, advising, adviseRetry>>,
         \/ EnqueueReady \/ NoteStopping \/ DispatchDone \/ EndRun \/ FailBlockedInput
         \/ PromptNextInput \/ GoIdle \/ AwaitResult \/ WakeOnCancel \/ Cancel \/ UNCHANGED vars
  PROVE  LiveInv'
<1>1. \A n \in Nodes : Round(n)' = Round(n) /\ (CanPrepare(n)' <=> CanPrepare(n))
  BY DEF Round, CanPrepare, Status, Current
<1>2. /\ runErr' # NoErr => stopping'
      /\ pc' = "idle" => ~stopping' /\ inflight' = 0
      /\ stopping => stopping'
      /\ ctxDone /\ pc = "top" => stopping' \/ (ctxDone' /\ pc' = "top")
  BY DEF LiveInv, EnqueueReady, NoteStopping, DispatchDone, EndRun, FailBlockedInput,
         PromptNextInput, GoIdle, AwaitResult, WakeOnCancel, Cancel, vars, Settled, Drained,
         runVars, flightVars, loopVars
<1> QED
  BY <1>1, <1>2 DEF LiveInv

LEMMA LiveInvStart ==
  ASSUME BindingAssumption, IInv, LiveInv, NEW n \in Nodes, Starts(n)
  PROVE  LiveInv'
<1>1. /\ TypeOK /\ Round(n)' = Round(n) + 1 /\ Round(n) \in Nat
      /\ \A m \in Nodes : m # n => runs'[m] = runs[m] /\ adviseRetry'[m] = adviseRetry[m]
  BY StartTook, StartKeeps, RoundType DEF IInv, Starts
<1>2. /\ adviseRetry' = [adviseRetry EXCEPT ![n] = 0] /\ advising' = advising
      /\ pc = "dispatch" /\ pc' # "idle" /\ ctxDone' = ctxDone /\ (stopping => stopping')
      /\ adviseRetry \in [Nodes -> Nat] /\ task \in [Nodes -> Tasks]
  BY <1>1 DEF Starts, StartRound, TripConvergenceGuard, BeginRound, loopVars, TypeOK
<1>3. \A m \in Nodes : m # n => Round(m)' = Round(m) /\ (CanPrepare(m)' <=> CanPrepare(m))
  BY <1>1 DEF Round, CanPrepare, Status, Current
<1>4. CASE StartRound(n)
  <2>1. /\ task' = [task EXCEPT ![n] = IF Machine(n) THEN "round" ELSE "prompt"]
        /\ runErr' = runErr /\ stopping' = stopping
    BY <1>4 DEF StartRound, runVars, loopVars
  <2>2. task'[n] # "none" /\ \A m \in Nodes : m # n => task'[m] = task[m]
    BY <1>2, <2>1
  <2> QED
    BY <1>1, <1>2, <1>3, <2>1, <2>2 DEF LiveInv
<1>5. CASE TripConvergenceGuard(n)
  <2>1. stopping' = TRUE
    BY <1>5 DEF TripConvergenceGuard
  <2> QED
    BY <1>1, <1>2, <1>3, <2>1 DEF LiveInv
<1> QED
  BY <1>4, <1>5 DEF Starts

\* A round's result: a failure that is final stops the run, or its context is gone.
LEMMA LiveInvResult ==
  ASSUME NodesAssumption, IInv, LiveInv, NEW n \in Nodes, Succeeds(n) \/ Unsuccessful(n)
  PROVE  LiveInv'
<1>1. /\ TypeOK /\ Round(n) > 0 /\ Round(n) \in Nat /\ Current(n) \in RunRecord
      /\ task \in [Nodes -> Tasks] /\ n # NoErr
      /\ \A d \in Nodes : Round(d)' = Round(d)
      /\ \A m \in Nodes : m # n => runs'[m] = runs[m]
  BY RoundType, ResultTook
  DEF IInv, TypeOK, TaskHasRound, Succeeds, Unsuccessful, RoundSucceeds, NodesAssumption,
      RoundFailsInteraction, RoundFailsStructural, RoundCancelled, HumanInputGiven, ApprovalDecided
<1>2. \A m \in Nodes : m # n => CanPrepare(m)' <=> CanPrepare(m)
  BY <1>1 DEF CanPrepare, Status, Current
<1>3. /\ pc' = "top" /\ ctxDone' = ctxDone /\ adviseRetry' = adviseRetry
      /\ stopping => stopping'
      /\ runErr' # NoErr => stopping'
      /\ \A p \in advising' : p[1] \in Agents
      /\ \A m \in Nodes : m # n => task'[m] = task[m]
  <2>1. CASE Succeeds(n) \/ RoundCancelled(n)
    BY <1>1, <2>1 DEF LiveInv, Succeeds, RoundSucceeds, HumanInputGiven, RoundCancelled, TakeResult,
                      runVars, adviseVars
  <2>2. CASE RoundFailsInteraction(n)
    BY <1>1, <2>2 DEF LiveInv, RoundFailsInteraction, TakeResult, runVars
  <2>3. CASE RoundFailsStructural(n)
    BY <1>1, <2>3 DEF LiveInv, RoundFailsStructural, Blame, TakeResult, runVars, adviseVars
  <2>4. CASE ApprovalDecided(n)
    BY <1>1, <2>4 DEF LiveInv, ApprovalDecided, runVars, adviseVars
  <2> QED
    BY <2>1, <2>2, <2>3, <2>4 DEF Unsuccessful
<1>4. task'[n] # "none" \/ CanPrepare(n)' \/ stopping' \/ ctxDone'
  <2>1. CASE Succeeds(n)
    <3>1. Current(n)'.status = "Succeeded"
      BY <2>1, SuccessIsNew
    <3> QED
      BY <1>1, <3>1 DEF CanPrepare, Status
  <2>2. CASE RoundFailsInteraction(n)
    <3> DEFINE run == [Current(n) EXCEPT !.status = "Failed", !.errorKind = "interaction"]
    <3>1. SetCurrent(n, run)
      BY <2>2 DEF RoundFailsInteraction
    <3>2. run \in RunRecord
      BY <1>1, OutcomeType
    <3>3. run.status = "Failed" /\ run.errorKind = "interaction"
      <4> DEFINE old == Current(n)
      <4>1. old \in RunRecord
        BY <1>1
      <4> HIDE DEF old
      <4>2. LET new == [old EXCEPT !.status = "Failed", !.errorKind = "interaction"]
            IN  new.status = "Failed" /\ new.errorKind = "interaction"
        BY <4>1 DEF RunRecord
      <4> QED
        BY <4>2 DEF old
    <3> HIDE DEF run
    <3>4. Current(n)' = run
      BY <1>1, <3>1, <3>2, SetCurrentFacts DEF Current
    <3> QED
      BY <1>1, <3>3, <3>4 DEF CanPrepare, Status
  <2>3. CASE RoundFailsStructural(n)
    BY <2>3 DEF RoundFailsStructural, Blame, LiveInv
  <2>4. CASE RoundCancelled(n)
    BY <2>4 DEF RoundCancelled
  <2>5. CASE ApprovalDecided(n)
    BY <1>1, <2>5 DEF ApprovalDecided
  <2> QED
    BY <2>1, <2>2, <2>3, <2>4, <2>5 DEF Unsuccessful
<1> QED
  BY <1>1, <1>2, <1>3, <1>4 DEF LiveInv

LEMMA LiveInvAdvice ==
  ASSUME IInv, LiveInv, NEW p \in advising, AdviceGiven(p) \/ AdviceSkipped(p) \/ AdviceFails(p)
  PROVE  LiveInv'
<1>1. /\ TypeOK /\ pc' = "top" /\ advising' \subseteq advising /\ p[1] \in Nodes /\ p[1] \in Agents
      /\ Round(p[1]) > 0 /\ \A d \in Nodes : Round(d)' = Round(d)
  BY AdviceTook, TakeAdviceFacts DEF IInv, LiveInv, AdviceGiven, AdviceSkipped, AdviceFails
<1>2. /\ task' = task /\ ctxDone' = ctxDone /\ (stopping => stopping')
      /\ runErr' # NoErr => stopping'
  BY DEF LiveInv, AdviceGiven, AdviceSkipped, AdviceFails, Blame, flightVars, runVars
<1>3. \A n \in Nodes : adviseRetry'[n] # 0 => n \in Agents /\ Round(n) > 0
  <2>1. \/ adviseRetry' = adviseRetry
        \/ adviseRetry' = [adviseRetry EXCEPT ![p[1]] = p[2]]
    BY DEF AdviceGiven, AdviceSkipped, AdviceFails
  <2>2. adviseRetry \in [Nodes -> Nat]
    BY <1>1 DEF TypeOK
  <2> QED
    BY <1>1, <2>1, <2>2 DEF LiveInv
<1>4. CASE AdviceGiven(p) \/ AdviceSkipped(p)
  <2>1. runs' = runs
    BY <1>4 DEF AdviceGiven, AdviceSkipped
  <2>2. \A n \in Nodes : CanPrepare(n)' <=> CanPrepare(n)
    BY <2>1 DEF CanPrepare, Status, Current, Round
  <2> QED
    BY <1>1, <1>2, <1>3, <2>2 DEF LiveInv
<1>5. CASE AdviceFails(p)
  <2>1. stopping'
    BY <1>5 DEF AdviceFails, Blame
  <2> QED
    BY <1>1, <1>2, <1>3, <2>1 DEF LiveInv
<1> QED
  BY <1>4, <1>5

LEMMA LiveInvNext ==
  ASSUME NodesAssumption, BindingAssumption, IInv, LiveInv, [Next]_vars
  PROVE  LiveInv'
<1>1. CASE \/ EnqueueReady \/ NoteStopping \/ DispatchDone \/ EndRun \/ FailBlockedInput
           \/ PromptNextInput \/ GoIdle \/ AwaitResult \/ WakeOnCancel \/ Cancel \/ UNCHANGED vars
  <2>1. UNCHANGED <<runs, task, advising, adviseRetry>>
    BY <1>1 DEF EnqueueReady, NoteStopping, DispatchDone, EndRun, FailBlockedInput,
                PromptNextInput, GoIdle, AwaitResult, WakeOnCancel, Cancel, vars,
                adviseVars, flightVars
  <2> QED
    BY <1>1, <2>1, LiveInvQuiet
<1>2. ASSUME NEW n \in Nodes, Starts(n) PROVE LiveInv'
  BY <1>2, LiveInvStart
<1>3. ASSUME NEW n \in Nodes,
             RoundReturns(n) \/ RoundFailsStructural(n) \/ HumanInputGiven(n) \/ ApprovalDecided(n)
      PROVE  LiveInv'
  <2>1. Succeeds(n) \/ Unsuccessful(n)
    BY <1>3 DEF RoundReturns, Succeeds, Unsuccessful
  <2> QED
    BY <2>1, LiveInvResult
<1>4. ASSUME NEW p \in advising, AdviceGiven(p) \/ AdviceSkipped(p) \/ AdviceFails(p)
      PROVE  LiveInv'
  BY <1>4, LiveInvAdvice
<1> QED
  BY <1>1, <1>2, <1>3, <1>4 DEF Next, Coordinate, PromptReturns, Finished, Starts

\* The agents' advise inputs come from no approval, and their required inputs cannot be left out.
AdviceIsSafe ==
  \A n \in Agents : AdviseFrom[n] \cap Approvals = {} /\ Requires[n] \cap MayOmit = {}

\* Retry advice is never forgotten in a workflow where AdviceIsSafe: no other late result, in any
\* order, keeps the node it was given for from starting the round.  Both halves are needed: an
\* advise input whose approval has passed is skipped (configuration EngineAdviceLost), and an agent
\* whose required input was left out since it failed waits for the next one with its advice.
THEOREM AdviceCorrect == AdviceIsSafe /\ Spec => []AdviceIsUsed
<1> SUFFICES ASSUME AdviceIsSafe PROVE Spec => []AdviceIsUsed
  OBVIOUS
<1>1. Init => LiveInv /\ FreshInv /\ SourcesInv /\ ReasonInv
  BY LiveInvInit, TakenInvInit
  DEF Init, SourcesInv, ReasonInv, Reasoned, OutputOf, HasCompleted, Round, FreshInv, QueueInv
<1>2. IInv /\ IInv' /\ LiveInv /\ FreshInv /\ SourcesInv /\ ReasonInv /\ [Next]_vars
        => LiveInv' /\ FreshInv' /\ SourcesInv' /\ ReasonInv'
  BY LiveInvNext, TakenInvNext, QueueInvNext, ReasonInvNext,
     NodesAssumption, BindingAssumption, LimitAssumption DEF IInv, FreshInv
<1>3. IInv /\ LiveInv /\ FreshInv /\ SourcesInv /\ ReasonInv => AdviceIsUsed
  <2> SUFFICES ASSUME IInv, LiveInv, FreshInv, SourcesInv, ReasonInv, pc = "idle",
                      NEW n \in Nodes, adviseRetry[n] # 0
               PROVE  FALSE
    BY DEF AdviceIsUsed
  <2>1. /\ TypeOK /\ TakenInv /\ n \in Agents /\ Round(n) > 0 /\ ~stopping /\ inflight = 0
        /\ InputsOffered(n) /\ ~Ready(n)
    BY DEF IInv, LiveInv, FreshInv, QueueInv, ReasonInv, Reasoned
  <2>2. task[n] = "none"
    <3>1. Cardinality(Busy) = 0 /\ Busy \subseteq Nodes
      BY <2>1 DEF IInv, InflightIsBounded, Busy
    <3>2. Busy = {}
      BY <3>1, FS_EmptySet, FS_Subset, NodesAssumption DEF NodesAssumption
    <3> QED
      BY <3>2 DEF Busy
  <2>3. CanPrepare(n)
    BY <2>1, <2>2 DEF LiveInv
  <2>4. InputsResolved(n)
    <3>1. ASSUME NEW s \in Requires[n] PROVE OutputOf(s) # 0
      <4>1. s \in Nodes /\ s \notin MayOmit /\ Offered(s, 0)
        BY <2>1, BindingAssumption DEF BindingAssumption, AdviceIsSafe, InputsOffered
      <4>2. 0 \in Nat
        OBVIOUS
      <4> QED
        BY <2>1, <4>1, <4>2, OfferedOrTakenBack
    <3> QED
      BY <2>1, <3>1 DEF InputsResolved, InputsOffered
  <2>5. InputTriggered(n)
    BY <2>1 DEF InputTriggered, AdviceIsSafe, ApprovalPassed
  <2>6. n \notin HumanInputs /\ Status(n) # "Pending"
    BY <2>1, NodesAssumption, RoundType DEF NodesAssumption, Status, RunRecord
  <2> QED
    BY <2>1, <2>3, <2>4, <2>5, <2>6 DEF Ready
<1> QED
  BY <1>1, <1>2, <1>3, Inductive, PTL DEF Spec
-----------------------------------------------------------------------------
(* Rejections are reworked, unless an approval is out while a node that    *)
(* takes it is at work.                                                    *)

\* An approval always makes its output (builtins.go:65-77), the nodes that take one have required
\* inputs that are never left out, and a port has one binding.
ReworkIsPossible ==
  /\ Approvals \cap MayOmit = {}
  /\ \A n \in Nodes \ HumanInputs : Sources(n) \cap Approvals # {} => Requires[n] \cap MayOmit = {}
  /\ \A n \in Nodes : \A a, b \in AdviseFrom[n] : a = b

\* A rejecting version of s that is newer than what n consumed.
Unseen(n, s) ==
  /\ consumedInputs[n][s] # 0
  /\ \E r \in 1..Round(s) : /\ runs[s][r].status = "Succeeded" /\ runs[s][r].decision = "rejected"
                            /\ runs[s][r].output > consumedInputs[n][s]

\* Nothing will be started any more.
Closing == stopping \/ (ctxDone /\ pc = "top")

\* While a run lives, nobody is asked to judge what a node at work is about to replace.
AskedAlone ==
  ~Closing => \A n \in Nodes \ HumanInputs : \A s \in Sources(n) \cap Approvals :
                task[s] = "none" \/ task[n] = "none" \/ n = s

\* n is at rest and in the list, or will join it before s can be asked again.
WillRework(n, s) ==
  /\ task[n] = "none"
  /\ n \in queued \/ (task[s] = "none" /\ ~ApprovalPassed(s))

ReworkInv ==
  /\ \A n, s \in Nodes : consumedInputs[n][s] # 0 => Round(n) > 0
  /\ pc = "idle" => queued = {}
  /\ ~Closing => \A n \in Nodes \ HumanInputs : \A s \in Sources(n) \cap Approvals :
                   Unseen(n, s) => WillRework(n, s)

LEMMA ReworkInvInit == Init => ReworkInv
  BY NodesAssumption DEF Init, ReworkInv, Unseen, NodesAssumption

LEMMA UnseenKept ==
  ASSUME TypeOK, NEW n \in Nodes, NEW s \in Nodes, Same(s), consumedInputs'[n][s] = consumedInputs[n][s]
  PROVE  Unseen(n, s)' => Unseen(n, s)
<1> SUFFICES ASSUME Unseen(n, s)' PROVE Unseen(n, s)
  OBVIOUS
<1>1. PICK r \in 1..Round(s)' : /\ runs'[s][r].status = "Succeeded"
                                /\ runs'[s][r].decision = "rejected"
                                /\ runs'[s][r].output > consumedInputs[n][s]
  BY DEF Unseen
<1>2. Round(s) \in Nat /\ Round(s)' \in Nat
  BY RoundType DEF Same
<1>3. r \in 1..Round(s)
  BY <1>1, <1>2 DEF Same
<1> QED
  BY <1>1, <1>3 DEF Same, Unseen

\* The steps that start nothing and in which no round succeeds.
LEMMA ReworkInvKept ==
  ASSUME NodesAssumption, TypeOK, ReworkInv, \A d \in Nodes : Same(d) /\ Stays(d),
         consumedInputs' = consumedInputs, queued \subseteq queued',
         \A m \in Nodes : task[m] = "none" => task'[m] = "none",
         Closing => Closing', pc' = "idle" => queued' = {}
  PROVE  ReworkInv'
<1>1. \A n, s \in Nodes : consumedInputs'[n][s] # 0 => Round(n)' > 0
  BY DEF ReworkInv, Stays
<1>2. ASSUME ~Closing', NEW n \in Nodes \ HumanInputs, NEW s \in Sources(n) \cap Approvals,
             Unseen(n, s)'
      PROVE  WillRework(n, s)'
  <2>1. s \in Nodes
    BY NodesAssumption DEF NodesAssumption
  <2>2. WillRework(n, s)
    BY <1>2, <2>1, UnseenKept DEF ReworkInv
  <2>3. ApprovalPassed(s)' <=> ApprovalPassed(s)
    BY <2>1, SameMeansSameAnswers DEF SameAnswers
  <2> QED
    BY <2>1, <2>2, <2>3 DEF WillRework
<1>3. \A n \in Nodes : Sources(n)' = Sources(n)
  BY DEF Sources
<1> QED
  BY <1>1, <1>2, <1>3 DEF ReworkInv

\* A node that is to rework a rejection is ready, until the approval passes.
LEMMA PendingIsReady ==
  ASSUME NodesAssumption, BindingAssumption, ReworkIsPossible,
         IInv, TakenInv, SourcesInv, ReasonInv, LiveInv, ReworkInv, ~Closing,
         NEW n \in Nodes \ HumanInputs, NEW s \in Sources(n) \cap Approvals,
         Unseen(n, s), task[n] = "none", ~ApprovalPassed(s)
  PROVE  Ready(n)
<1>1. /\ TypeOK /\ s \in Nodes /\ consumedInputs[n][s] \in Nat /\ s \notin MayOmit
      /\ Requires[n] \subseteq Nodes /\ Requires[n] \cap MayOmit = {}
      /\ Round(n) > 0
  <2>1. TypeOK /\ s \in Nodes /\ s \notin MayOmit /\ Requires[n] \cap MayOmit = {}
    BY DEF IInv, NodesAssumption, ReworkIsPossible
  <2>2. consumedInputs[n][s] \in Nat
    BY <2>1 DEF TypeOK
  <2> QED
    BY <2>1, <2>2 DEF BindingAssumption, ReworkInv, Unseen
<1>2. CanPrepare(n)
  BY <1>1 DEF LiveInv, Closing
<1>3. InputsResolved(n)
  <2>1. InputsOffered(n)
    BY <1>1 DEF ReasonInv, Reasoned
  <2>2. ASSUME NEW q \in Requires[n] PROVE OutputOf(q) # 0
    <3>1. q \in Nodes /\ q \notin MayOmit /\ Offered(q, 0) /\ 0 \in Nat
      BY <1>1, <2>1 DEF InputsOffered
    <3> QED
      BY <1>1, <3>1, OfferedOrTakenBack
  <2> QED
    BY <2>1, <2>2 DEF InputsResolved, InputsOffered
<1>4. NewVersion(n, s)
  <2>1. Offered(s, consumedInputs[n][s])
    BY DEF Unseen, Offered
  <2>2. OutputOf(s) # 0 /\ OutputOf(s) > consumedInputs[n][s]
    BY <1>1, <2>1, OfferedOrTakenBack
  <2> QED
    BY <1>1, <2>2 DEF NewVersion
<1>5. InputTriggered(n)
  <2>1. s \in Requires[n] \cup Accepts[n] \/ s \in AdviseFrom[n]
    BY DEF Sources
  <2>2. s \in AdviseFrom[n] => \A q \in AdviseFrom[n] : ~ApprovalPassed(q)
    BY DEF ReworkIsPossible
  <2> QED
    BY <1>4, <2>1, <2>2 DEF InputTriggered
<1>6. Status(n) # "Pending"
  <2>1. Current(n) \in RunRecord
    BY <1>1, RoundType
  <2> QED
    BY <1>1, <2>1 DEF Status, RunRecord
<1> QED
  BY <1>2, <1>3, <1>5, <1>6 DEF Ready

\* A round that starts has seen every rejection; those that wait for another are in the list.
LEMMA ReworkInvStart ==
  ASSUME NodesAssumption, BindingAssumption, ReworkIsPossible,
         IInv, TakenInv, SourcesInv, ReasonInv, LiveInv, QueueInv, ReworkInv,
         NEW m \in Nodes, Starts(m)
  PROVE  ReworkInv'
<1>1. /\ TypeOK /\ pc = "dispatch" /\ ~stopping /\ pc' # "idle" /\ ~Closing
      /\ queued' = queued \ {m}
      /\ consumedInputs \in [Nodes -> [Nodes -> Nat]] /\ task \in [Nodes -> Tasks]
      /\ consumedInputs' = [consumedInputs EXCEPT ![m] =
           [s \in Nodes |-> IF s \in Sources(m) /\ OutputOf(s) # 0 THEN OutputOf(s) ELSE @[s]]]
  BY DEF IInv, DispatchIsLive, TypeOK, Starts, StartRound, TripConvergenceGuard, BeginRound,
         loopVars, Closing
<1>2. /\ \A d \in Nodes : Same(d)
      /\ \A n \in Nodes : n # m => Stays(n)
      /\ Round(m)' > 0
      /\ \A n \in Nodes : n # m => consumedInputs'[n] = consumedInputs[n]
      /\ \A s \in Nodes : consumedInputs'[m][s] = IF s \in Sources(m) /\ OutputOf(s) # 0
                                                  THEN OutputOf(s) ELSE consumedInputs[m][s]
  BY <1>1, StartIsSame
<1>3. \A n, s \in Nodes : consumedInputs'[n][s] # 0 => Round(n)' > 0
  BY <1>2 DEF ReworkInv, Stays
<1>4. ASSUME NEW n \in Nodes \ HumanInputs, NEW s \in Sources(n) \cap Approvals, Unseen(n, s)'
      PROVE  n # m /\ n \in queued /\ task[n] = "none"
  <2>1. s \in Nodes /\ s \notin MayOmit /\ Same(s) /\ Round(s) \in Nat /\ Round(s)' \in Nat
    BY <1>1, <1>2, RoundType DEF NodesAssumption, ReworkIsPossible, Same
  <2>2. n # m
    <3> SUFFICES ASSUME n = m PROVE FALSE
      OBVIOUS
    <3> DEFINE v == consumedInputs'[n][s]
    <3>1. v \in Nat /\ (OutputOf(s) # 0 => v = OutputOf(s))
      BY <1>1, <1>2, <2>1, OutputOfType
    <3>2. PICK r \in 1..Round(s)' : runs'[s][r].status = "Succeeded" /\ runs'[s][r].output > v
      BY <1>4 DEF Unseen
    <3>3. r \in 1..Round(s) /\ runs[s][r].status = "Succeeded" /\ runs[s][r].output > v
      BY <2>1, <3>2 DEF Same
    <3> HIDE DEF v
    <3>4. Offered(s, v)
      BY <3>3 DEF Offered
    <3>5. OutputOf(s) # 0 /\ OutputOf(s) > v
      BY <1>1, <2>1, <3>1, <3>4, OfferedOrTakenBack
    <3> QED
      BY <3>1, <3>5
  <2>3. Unseen(n, s) /\ WillRework(n, s)
    BY <1>1, <1>2, <1>4, <2>1, <2>2, UnseenKept DEF ReworkInv
  <2>4. n \in queued
    BY <1>1, <2>3, PendingIsReady DEF WillRework, QueueInv
  <2> QED
    BY <2>2, <2>3, <2>4 DEF WillRework
<1>5. CASE TripConvergenceGuard(m)
  <2>1. Closing'
    BY <1>5 DEF TripConvergenceGuard, Closing
  <2> QED
    BY <1>1, <1>3, <2>1 DEF ReworkInv
<1>6. CASE StartRound(m)
  <2>1. \A n \in Nodes : n # m => task'[n] = task[n]
    BY <1>1, <1>6 DEF StartRound
  <2>2. \A n \in Nodes : Sources(n)' = Sources(n)
    BY DEF Sources
  <2>3. ASSUME NEW n \in Nodes \ HumanInputs, NEW s \in Sources(n) \cap Approvals, Unseen(n, s)'
        PROVE  WillRework(n, s)'
    BY <1>1, <1>4, <2>1, <2>3 DEF WillRework
  <2> QED
    BY <1>1, <1>3, <2>2, <2>3 DEF ReworkInv
<1> QED
  BY <1>5, <1>6 DEF Starts

\* The round that succeeds is the newest completed one.
LEMMA SuccessIsLatest ==
  ASSUME IInv, TypeOK', NEW n \in Nodes, Succeeds(n)
  PROVE  LatestCompletedRound(n)' = Round(n) /\ runs'[n][Round(n)] = Current(n)'
<1>1. /\ Answers' /\ Round(n)' = Round(n) /\ Round(n) > 0 /\ Round(n) \in Nat
      /\ Current(n)' = runs'[n][Round(n)] /\ Current(n)'.status = "Succeeded"
  BY AnswersNext, SuccessIsNew, RoundType DEF IInv, Stays, Current
<1>2. Round(n) \in 1..Round(n)' /\ IsLatestCompleted(n, Round(n))'
  BY <1>1 DEF IsLatestCompleted
<1>3. HasCompleted(n)'
  BY <1>1, <1>2 DEF HasCompleted, IsLatestCompleted
<1>4. \A q \in 1..Round(n)' : IsLatestCompleted(n, q)' <=> q = Round(n)
  BY <1>1, <1>2 DEF Answers
<1> QED
  BY <1>1, <1>2, <1>3, <1>4 DEF LatestCompletedRound

\* When a rejection arrives the nodes it concerns are at rest; an approval that comes after it finds
\* them in the list.
LEMMA ReworkInvSuccess ==
  ASSUME NodesAssumption, BindingAssumption, AskedAlone,
         IInv, TypeOK', ReworkInv, NEW m \in Nodes, Succeeds(m)
  PROVE  ReworkInv'
<1>1. /\ TypeOK /\ pc = "select" /\ pc' = "top" /\ queued' = queued
      /\ ctxDone' = ctxDone /\ stopping' = stopping
      /\ task[m] # "none" /\ task' = [task EXCEPT ![m] = "none"] /\ task \in [Nodes -> Tasks]
      /\ consumedInputs' = consumedInputs
  BY DEF IInv, TypeOK, Succeeds, RoundSucceeds, HumanInputGiven, TakeResult, queueVars, inputVars
<1>2. /\ \A d \in Nodes : d # m => Same(d)
      /\ \A n \in Nodes : Stays(n)
      /\ Round(m) > 0 /\ Round(m) \in Nat
      /\ \A r \in 1..Round(m) : r # Round(m) => runs'[m][r] = runs[m][r]
  BY <1>1, SuccessIsNew, RoundType
<1>3. \A n \in Nodes : task[n] = "none" \/ n = m => task'[n] = "none"
  BY <1>1
<1>4. \A n, s \in Nodes : consumedInputs'[n][s] # 0 => Round(n)' > 0
  BY <1>1, <1>2 DEF ReworkInv, Stays
<1>5. ASSUME ~Closing', NEW n \in Nodes \ HumanInputs, NEW s \in Sources(n) \cap Approvals,
             Unseen(n, s)'
      PROVE  WillRework(n, s)'
  <2>1. s \in Nodes /\ ~Closing
    BY <1>1, <1>5 DEF NodesAssumption, Closing
  <2>2. Unseen(n, s) => WillRework(n, s)
    BY <2>1 DEF ReworkInv
  <2>3. CASE s # m
    <3>1. WillRework(n, s) /\ (ApprovalPassed(s)' <=> ApprovalPassed(s))
      BY <1>1, <1>2, <1>5, <2>1, <2>2, <2>3, UnseenKept, SameMeansSameAnswers DEF SameAnswers
    <3> QED
      BY <1>1, <1>3, <2>1, <3>1 DEF WillRework
  <2>4. CASE s = m /\ Current(m)'.decision # "approved"
    <3>1. ~ApprovalPassed(s)'
      BY <2>4, SuccessIsLatest DEF ApprovalPassed
    <3>2. task[n] = "none" \/ n = m
      BY <1>1, <2>1, <2>4 DEF AskedAlone
    <3> QED
      BY <1>3, <2>1, <2>4, <3>1, <3>2 DEF WillRework
  <2>5. CASE s = m /\ Current(m)'.decision = "approved"
    <3>1. PICK r \in 1..Round(m)' : /\ runs'[m][r].status = "Succeeded"
                                    /\ runs'[m][r].decision = "rejected"
                                    /\ runs'[m][r].output > consumedInputs[n][m]
      BY <1>1, <1>5, <2>5 DEF Unseen
    <3>2. r \in 1..Round(m) /\ r # Round(m)
      BY <1>2, <2>5, <3>1, SuccessIsLatest DEF Stays
    <3>3. Unseen(n, s)
      BY <1>1, <1>2, <1>5, <2>5, <3>1, <3>2 DEF Unseen
    <3> QED
      BY <1>1, <1>3, <2>2, <2>5, <3>3 DEF WillRework
  <2> QED
    BY <2>3, <2>4, <2>5
<1>6. \A n \in Nodes : Sources(n)' = Sources(n)
  BY DEF Sources
<1> QED
  BY <1>1, <1>4, <1>5, <1>6 DEF ReworkInv

LEMMA ReworkInvNext ==
  ASSUME NodesAssumption, BindingAssumption, LimitAssumption, ReworkIsPossible,
         AskedAlone, IInv, TypeOK', TakenInv, SourcesInv, ReasonInv, LiveInv, QueueInv, ReworkInv,
         [Next]_vars
  PROVE  ReworkInv'
<1>1. TypeOK
  BY DEF IInv
<1>2. CASE \/ EnqueueReady \/ NoteStopping \/ DispatchDone \/ EndRun \/ FailBlockedInput
           \/ PromptNextInput \/ GoIdle \/ AwaitResult \/ WakeOnCancel \/ Cancel \/ UNCHANGED vars
  <2>1. /\ UNCHANGED <<runs, consumedInputs, task>> /\ queued \subseteq queued'
        /\ Closing => Closing'
    BY <1>2 DEF EnqueueReady, NoteStopping, DispatchDone, EndRun, FailBlockedInput, PromptNextInput,
                GoIdle, AwaitResult, WakeOnCancel, Cancel, vars, inputVars, queueVars, flightVars,
                loopVars, Closing
  <2>2. pc' = "idle" => queued' = {}
    <3>1. CASE GoIdle
      BY <3>1 DEF GoIdle, Settled, QueueInv, LimitAssumption, queueVars
    <3>2. CASE Cancel \/ UNCHANGED vars
      BY <3>2 DEF Cancel, vars, loopVars, queueVars, ReworkInv
    <3> QED
      BY <1>2, <3>1, <3>2
      DEF EnqueueReady, NoteStopping, DispatchDone, EndRun, FailBlockedInput, PromptNextInput,
          AwaitResult, WakeOnCancel
  <2> QED
    BY <1>1, <2>1, <2>2, QuietIsSame, ReworkInvKept
<1>3. ASSUME NEW m \in Nodes, StartRound(m) \/ TripConvergenceGuard(m) PROVE ReworkInv'
  BY <1>3, ReworkInvStart DEF Starts
<1>4. ASSUME NEW m \in Nodes,
             RoundReturns(m) \/ RoundFailsStructural(m) \/ HumanInputGiven(m) \/ ApprovalDecided(m)
      PROVE  ReworkInv'
  <2>1. CASE Succeeds(m)
    BY <2>1, ReworkInvSuccess
  <2>2. CASE Unsuccessful(m)
    <3>1. /\ \A d \in Nodes : Same(d) /\ Stays(d)
          /\ consumedInputs' = consumedInputs /\ pc' = "top"
      BY <2>2, UnsuccessfulIsSame
    <3>2. /\ queued' = queued /\ pc = "select" /\ ctxDone' = ctxDone /\ (stopping => stopping')
      BY <2>2 DEF Unsuccessful, RoundFailsInteraction, RoundFailsStructural, RoundCancelled,
                  ApprovalDecided, TakeResult, Blame, queueVars
    <3>3. \A n \in Nodes : task[n] = "none" => task'[n] = "none"
      <4>1. task \in [Nodes -> Tasks]
        BY <1>1 DEF TypeOK
      <4>2. \/ task' = [task EXCEPT ![m] = "none"]
            \/ task[m] = "prompt" /\ task' = [task EXCEPT ![m] = "approve"]
        BY <2>2 DEF Unsuccessful, RoundFailsInteraction, RoundFailsStructural, RoundCancelled,
                    ApprovalDecided, TakeResult
      <4> QED
        BY <4>1, <4>2
    <3>4. Closing => Closing'
      BY <3>2 DEF Closing
    <3> QED
      BY <1>1, <3>1, <3>2, <3>3, <3>4, ReworkInvKept
  <2> QED
    BY <1>4, <2>1, <2>2 DEF RoundReturns, Succeeds, Unsuccessful
<1>5. ASSUME NEW p \in advising, AdviceGiven(p) \/ AdviceSkipped(p) \/ AdviceFails(p)
      PROVE  ReworkInv'
  <2>1. /\ \A d \in Nodes : Same(d) /\ Stays(d)
        /\ consumedInputs' = consumedInputs /\ pc' = "top"
    BY <1>5, AdviceIsSame
  <2>2. /\ queued' = queued /\ task' = task /\ pc = "select" /\ ctxDone' = ctxDone
        /\ stopping => stopping'
    BY <1>5 DEF AdviceGiven, AdviceSkipped, AdviceFails, TakeAdvice, Blame, queueVars, flightVars
  <2>3. Closing => Closing'
    BY <2>2 DEF Closing
  <2> QED
    BY <1>1, <2>1, <2>2, <2>3, ReworkInvKept
<1> QED
  BY <1>2, <1>3, <1>4, <1>5 DEF Next, Coordinate, PromptReturns, Finished

\* A round that succeeds with an approval is received at the select.
LEMMA ApprovalIsReceived ==
  ASSUME TypeOK, [Next]_vars, NEW s \in Nodes, Approves(s)
  PROVE  pc = "select"
<1>1. task \in [Nodes -> Tasks] /\ task[s] = "approve" /\ task'[s] = "none"
  BY DEF TypeOK, Approves
<1>2. CASE task' = task
  BY <1>1, <1>2
<1>3. ASSUME NEW n \in Nodes, StartRound(n) PROVE FALSE
  <2>1. task' = [task EXCEPT ![n] = IF Machine(n) THEN "round" ELSE "prompt"]
    BY <1>3 DEF StartRound
  <2> QED
    BY <1>1, <2>1
<1>4. ASSUME NEW n \in Nodes,
             RoundReturns(n) \/ RoundFailsStructural(n) \/ HumanInputGiven(n) \/ ApprovalDecided(n)
      PROVE  pc = "select"
  BY <1>4 DEF RoundReturns, RoundSucceeds, RoundFailsInteraction, RoundFailsStructural,
              RoundCancelled, HumanInputGiven, ApprovalDecided, TakeResult
<1>5. ASSUME NEW p \in advising, AdviceGiven(p) \/ AdviceSkipped(p) \/ AdviceFails(p)
      PROVE  pc = "select"
  BY <1>5 DEF AdviceGiven, AdviceSkipped, AdviceFails, TakeAdvice
<1>6. CASE \/ EnqueueReady \/ NoteStopping \/ DispatchDone \/ EndRun \/ FailBlockedInput
           \/ PromptNextInput \/ GoIdle \/ AwaitResult \/ WakeOnCancel \/ Cancel \/ UNCHANGED vars
           \/ \E n \in Nodes : TripConvergenceGuard(n)
  <2>1. task' = task
    BY <1>6 DEF EnqueueReady, NoteStopping, DispatchDone, EndRun, FailBlockedInput, PromptNextInput,
                GoIdle, AwaitResult, WakeOnCancel, Cancel, TripConvergenceGuard, vars, flightVars
  <2> QED
    BY <1>2, <2>1
<1> QED
  BY <1>3, <1>4, <1>5, <1>6 DEF Next, Coordinate, PromptReturns, Finished

\* For every workflow and parallelism: an approval overrules a rejection only for nodes that are at
\* work with an older version.  A node at rest that could take the rejection has been listed: the
\* rejection is a new version of an input whose approval has not passed.  (A port has one binding.)
THEOREM OverruledAtWork ==
  (\A n \in Nodes : \A a, b \in AdviseFrom[n] : a = b) /\ Spec => OverrulesOnlyNodesAtWork
<1> SUFFICES ASSUME \A n \in Nodes : \A a, b \in AdviseFrom[n] : a = b
             PROVE  Spec => OverrulesOnlyNodesAtWork
  OBVIOUS
<1> DEFINE Overrules == \A s \in Approvals : \A n \in Nodes \ HumanInputs : OverrulesAtWork(s, n)
<1>1. Init => FreshInv
  BY TakenInvInit DEF Init, FreshInv, QueueInv
<1>2. IInv /\ IInv' /\ FreshInv /\ [Next]_vars => FreshInv'
  BY TakenInvNext, QueueInvNext, NodesAssumption, BindingAssumption, LimitAssumption
  DEF FreshInv, IInv
<1>3. IInv /\ FreshInv /\ [Next]_vars => Overrules
  <2> SUFFICES ASSUME IInv, FreshInv, [Next]_vars, NEW s \in Approvals, NEW n \in Nodes \ HumanInputs,
                      Approves(s), ~stopping, s \in Sources(n), RejectionStands(n, s),
                      CanPrepare(n), InputsResolved(n)
               PROVE  n \in queued
    BY DEF OverrulesAtWork
  <2>1. TypeOK /\ s \in Nodes
    BY NodesAssumption DEF IInv, NodesAssumption
  <2>2. pc = "select"
    BY <2>1, ApprovalIsReceived
  <2>3. NewVersion(n, s) /\ ~ApprovalPassed(s)
    <3>1. consumedInputs \in [Nodes -> [Nodes -> Nat]]
      BY <2>1 DEF TypeOK
    <3>2. OutputOf(s) \in Nat /\ consumedInputs[n][s] \in Nat
      BY <2>1, <3>1, OutputOfType
    <3> QED
      BY <3>2 DEF RejectionStands, NewVersion, ApprovalPassed
  <2>4. InputTriggered(n)
    BY <2>3 DEF InputTriggered, Sources
  <2>5. Ready(n)
    BY <2>4 DEF Ready
  <2> QED
    BY <2>2, <2>5 DEF FreshInv, QueueInv
<1> QED
  BY <1>1, <1>2, <1>3, Inductive, PTL DEF Spec, OverrulesOnlyNodesAtWork

\* Whatever the workflow, the parallelism and the order of answers: a rejection is never lost while
\* no approval is out together with a node that takes it.  Each node that had used the approval
\* runs again, with the rejecting version or a newer one, before the run idles.
THEOREM ReworkCorrect == ReworkIsPossible /\ Spec /\ []AskedAlone => []RejectionIsReworked
<1> SUFFICES ASSUME ReworkIsPossible PROVE Spec /\ []AskedAlone => []RejectionIsReworked
  OBVIOUS
<1> DEFINE Inv == LiveInv /\ TakenInv /\ QueueInv /\ SourcesInv /\ ReasonInv /\ ReworkInv
<1>1. Init => Inv
  BY LiveInvInit, TakenInvInit, ReworkInvInit
  DEF Init, SourcesInv, ReasonInv, Reasoned, OutputOf, HasCompleted, Round, QueueInv
<1>2. IInv /\ IInv' /\ AskedAlone /\ Inv /\ [Next]_vars => Inv'
  BY LiveInvNext, TakenInvNext, QueueInvNext, ReasonInvNext, ReworkInvNext,
     NodesAssumption, BindingAssumption, LimitAssumption DEF IInv
<1>3. IInv /\ Inv => RejectionIsReworked
  <2> SUFFICES ASSUME IInv, Inv, pc = "idle", NEW s \in Approvals, NEW n \in Nodes \ HumanInputs,
                      NEW r \in 1..Round(s), s \in Sources(n),
                      runs[s][r].status = "Succeeded", runs[s][r].decision = "rejected",
                      consumedInputs[n][s] # 0, ~(consumedInputs[n][s] >= runs[s][r].output)
               PROVE  FALSE
    BY DEF RejectionIsReworked
  <2>1. TypeOK /\ s \in Nodes /\ ~Closing /\ queued = {} /\ ~Ready(n)
    BY NodesAssumption DEF NodesAssumption, IInv, LiveInv, Closing, ReworkInv, QueueInv
  <2>2. consumedInputs[n][s] \in Nat /\ runs[s][r].output \in Nat
    <3> HIDE DEF Inv
    <3>1. runs[s][r] \in RunRecord
      BY <2>1, RoundType
    <3>2. runs[s][r].output \in Nat
      BY <3>1 DEF RunRecord
    <3>3. consumedInputs \in [Nodes -> [Nodes -> Nat]]
      BY <2>1 DEF TypeOK
    <3>4. consumedInputs[n][s] \in Nat
      BY <2>1, <3>3
    <3> QED
      BY <3>2, <3>4
  <2>3. Unseen(n, s)
    BY <2>2 DEF Unseen
  <2>4. WillRework(n, s)
    BY <2>1, <2>3 DEF ReworkInv
  <2> QED
    BY <2>1, <2>3, <2>4, PendingIsReady, NodesAssumption, BindingAssumption DEF WillRework
<1> QED
  BY <1>1, <1>2, <1>3, Inductive, PTL DEF Spec

\* One round at a time, the engine's default (engine.go:105), keeps every approval alone.
THEOREM ReworkByDefault ==
  Parallelism = 1 /\ ReworkIsPossible /\ Spec => []RejectionIsReworked
<1> SUFFICES ASSUME Parallelism = 1 PROVE ReworkIsPossible /\ Spec => []RejectionIsReworked
  OBVIOUS
<1>1. IInv => AskedAlone
  <2> SUFFICES ASSUME IInv, NEW m \in Nodes, NEW n \in Nodes, n # m,
                      task[n] # "none", task[m] # "none"
               PROVE  FALSE
    BY NodesAssumption DEF AskedAlone, NodesAssumption
  <2>1. /\ IsFiniteSet(Busy) /\ {m, n} \subseteq Busy
        /\ Cardinality(Busy) \in Nat /\ Cardinality(Busy) <= 1
    BY BusyIsFinite, FS_CardinalityType, NodesAssumption DEF IInv, InflightIsBounded, Busy
  <2>2. Cardinality({m, n}) = 2
    <3>1. Cardinality({}) = 0 /\ IsFiniteSet({})
      BY FS_EmptySet
    <3>2. Cardinality({} \cup {m}) = 1 /\ IsFiniteSet({} \cup {m})
      BY <3>1, FS_AddElement
    <3>3. Cardinality(({} \cup {m}) \cup {n}) = 2
      BY <3>2, FS_AddElement
    <3>4. ({} \cup {m}) \cup {n} = {m, n}
      OBVIOUS
    <3> QED
      BY <3>3, <3>4
  <2>3. Cardinality({m, n}) <= Cardinality(Busy)
    BY <2>1, FS_Subset
  <2> QED
    BY <2>1, <2>2, <2>3
<1> QED
  BY <1>1, ReworkCorrect, Inductive, PTL
-----------------------------------------------------------------------------
(* In a simple review loop every approval is alone, at any parallelism.    *)

\* What n takes besides the approval s that judges it.
Feeds(n, s) == (Sources(n) \cup DependsOn[n]) \ {s}

\* The simple review loop: s follows n alone, and n takes s and at most one human input, which it
\* cannot start without.
ReviewLoop(n, s) ==
  /\ n \notin Approvals
  /\ Sources(s) = {} /\ DependsOn[s] = {n}
  /\ Feeds(n, s) \subseteq HumanInputs \cap (Requires[n] \cup DependsOn[n])
  /\ \A a, b \in Feeds(n, s) : a = b

\* x would be ready if it were at rest.
Called(x) == InputsResolved(x) /\ (Round(x) = 0 \/ InputTriggered(x) \/ ControlTriggered(x))

\* The human is asked to advise x.
Owed(x) == \E p \in advising : p[1] = x

\* x works, is about to, or waits for advice to.
Engaged(x) == Called(x) \/ x \in queued \/ task[x] # "none" \/ Owed(x)

\* A human input that has not been given yet, or is being asked for.
Awaited(h) == Round(h) = 0 \/ h \in queued \/ task[h] # "none"

\* n and its approval take turns, and so do the two of them and the human input.
TakeTurns(n, s) ==
  /\ ~(Engaged(n) /\ Engaged(s))
  /\ \A h \in Feeds(n, s) : Awaited(h) => ~Engaged(n) /\ ~Engaged(s)
  /\ task[n] # "none" \/ Owed(n) => ~Called(n)
  /\ task[s] # "none" => ~Called(s)
  /\ Owed(n) => n \notin queued /\ task[n] = "none"
  /\ \A p, q \in advising : p[1] = n /\ q[1] = n => p = q

LEMMA LoopFacts ==
  ASSUME NodesAssumption, BindingAssumption,
         NEW n \in Nodes \ HumanInputs, NEW s \in Sources(n) \cap Approvals, ReviewLoop(n, s)
  PROVE  /\ s \in Nodes \ (HumanInputs \cup Agents) /\ n # s
         /\ Feeds(n, s) \subseteq HumanInputs /\ Feeds(n, s) \subseteq Nodes
         /\ Sources(n) \cup DependsOn[n] \subseteq Feeds(n, s) \cup {s}
         /\ Sources(s) \cup DependsOn[s] = {n}
  BY DEF NodesAssumption, ReviewLoop, Feeds

LEMMA CalledKept ==
  ASSUME NEW x \in Nodes, \A d \in Sources(x) \cup DependsOn[x] : SameAnswers(d),
         Round(x)' = 0 <=> Round(x) = 0, adviseRetry'[x] = adviseRetry[x],
         consumedInputs'[x] = consumedInputs[x], consumedControl'[x] = consumedControl[x]
  PROVE  Called(x)' <=> Called(x)
<1>1. Sources(x) = Requires[x] \cup Accepts[x] \cup AdviseFrom[x]
  BY DEF Sources
<1>2. InputsResolved(x)' <=> InputsResolved(x)
  BY <1>1 DEF InputsResolved, SameAnswers
<1>3. InputTriggered(x)' <=> InputTriggered(x)
  <2>1. \A d \in Sources(x) : NewVersion(x, d)' <=> NewVersion(x, d)
    BY DEF NewVersion, SameAnswers
  <2> QED
    BY <1>1, <2>1 DEF InputTriggered, SameAnswers
<1>4. ControlTriggered(x)' <=> ControlTriggered(x)
  BY DEF ControlTriggered, SameAnswers
<1> QED
  BY <1>2, <1>3, <1>4 DEF Called

\* A round that starts takes all that its node was called for.
LEMMA StartedIsNotCalled ==
  ASSUME NodesAssumption, BindingAssumption, IInv, NEW x \in Nodes, StartRound(x)
  PROVE  ~Called(x)'
<1>1. /\ TypeOK /\ Starts(x) /\ Round(x)' > 0 /\ adviseRetry' = [adviseRetry EXCEPT ![x] = 0]
      /\ adviseRetry \in [Nodes -> Nat]
      /\ consumedControl' = [consumedControl EXCEPT ![x] =
           [d \in Nodes |-> IF d \in DependsOn[x] THEN ControlCompletedRound(d) ELSE @[d]]]
      /\ consumedControl \in [Nodes -> [Nodes -> Nat]]
  BY StartIsSame DEF IInv, TypeOK, Starts, StartRound, BeginRound
<1>2. \A d \in Nodes : SameAnswers(d)
  BY <1>1, StartIsSame, SameMeansSameAnswers
<1>3. Sources(x) = Requires[x] \cup Accepts[x] \cup AdviseFrom[x] /\ Sources(x) \subseteq Nodes
      /\ DependsOn[x] \subseteq Nodes
  BY DEF BindingAssumption, Sources
<1>4. \A d \in Sources(x) : ~NewVersion(x, d)'
  <2>1. \A d \in Sources(x) : OutputOf(d) # 0 => consumedInputs'[x][d] = OutputOf(d)
    BY <1>1, <1>3, StartTook
  <2> QED
    BY <1>2, <1>3, <2>1 DEF NewVersion, SameAnswers
<1>5. ~InputTriggered(x)'
  BY <1>1, <1>3, <1>4 DEF InputTriggered
<1>6. ~ControlTriggered(x)'
  <2>1. \A d \in DependsOn[x] : /\ consumedControl'[x][d] = ControlCompletedRound(d)
                                /\ ControlCompletedRound(d) \in Nat
    BY <1>1, <1>3, ControlCompletedType
  <2> QED
    BY <1>2, <1>3, <2>1 DEF ControlTriggered, SameAnswers
<1> QED
  BY <1>1, <1>5, <1>6 DEF Called

\* A settled graph calls nobody.
LEMMA SettledIsQuiet ==
  ASSUME NodesAssumption, LimitAssumption, IInv, LiveInv, QueueInv, ReasonInv,
         pc = "decide", Settled, NEW x \in Nodes \ HumanInputs
  PROVE  ~Engaged(x)
<1>1. TypeOK /\ queued = {} /\ ~Ready(x)
  BY DEF IInv, Settled, QueueInv, LimitAssumption
<1>2. task[x] = "none"
  <2>1. Cardinality(Busy) = 0 /\ IsFiniteSet(Busy)
    BY BusyIsFinite DEF IInv, InflightIsBounded, Settled
  <2>2. Busy = {}
    BY <2>1, FS_EmptySet
  <2> QED
    BY <2>2 DEF Busy
<1>3. ~Owed(x)
  <2>1. Cardinality(advising) = 0 /\ IsFiniteSet(advising)
    BY DEF IInv, AdvisePromptsAreCounted, AdviceIsAboutAnOldRound, Settled
  <2>2. advising = {}
    BY <2>1, FS_EmptySet
  <2> QED
    BY <2>2 DEF Owed
<1>4. CanPrepare(x)
  BY <1>1, <1>2, RoundType DEF LiveInv, Settled, CanPrepare, Status
<1>5. Round(x) = 0 => Status(x) = "Pending"
  BY DEF Status
<1>6. ~Called(x)
  <2>1. Round(x) # 0 => Status(x) # "Pending"
    <3>1. Round(x) # 0 => Current(x) \in RunRecord
      BY <1>1, RoundType
    <3> QED
      BY <3>1 DEF Status, RunRecord
  <2> QED
    BY <1>1, <1>4, <1>5, <2>1 DEF Called, Ready
<1> QED
  BY <1>1, <1>2, <1>3, <1>6 DEF Engaged

\* The steps that engage neither.
LEMMA TurnsKept ==
  ASSUME NEW n \in Nodes, NEW s \in Nodes, TakeTurns(n, s),
         \A x \in {n, s} : /\ Called(x)' => Called(x)
                           /\ x \in queued' => x \in queued \/ Called(x)
                           /\ task'[x] # "none" => task[x] # "none",
         \A p \in advising' : p \in advising \/ p[1] \notin {n, s},
         \A h \in Feeds(n, s) : Awaited(h)' => Awaited(h)
  PROVE  TakeTurns(n, s)'
<1>1. \A x \in {n, s} : (Owed(x)' => Owed(x)) /\ (Engaged(x)' => Engaged(x))
  BY DEF Owed, Engaged
<1>2. Feeds(n, s)' = Feeds(n, s)
  BY DEF Feeds, Sources
<1> QED
  BY <1>1, <1>2 DEF TakeTurns

\* The answers a node is called by are the ones of its sources and control predecessors.
LEMMA TurnsStart ==
  ASSUME NodesAssumption, BindingAssumption, IInv,
         NEW n \in Nodes \ HumanInputs, NEW s \in Sources(n) \cap Approvals, ReviewLoop(n, s),
         TakeTurns(n, s), NEW m \in Nodes, StartRound(m)
  PROVE  TakeTurns(n, s)'
<1>1. /\ s \in Nodes /\ n # s /\ Feeds(n, s) \subseteq HumanInputs /\ Feeds(n, s) \subseteq Nodes
      /\ s \notin HumanInputs
  BY LoopFacts
<1>2. /\ TypeOK /\ Starts(m) /\ advising' = advising /\ task \in [Nodes -> Tasks]
      /\ task' = [task EXCEPT ![m] = IF Machine(m) THEN "round" ELSE "prompt"]
      /\ m \in queued /\ queued' = queued \ {m}
  BY StartTook DEF IInv, TypeOK, Starts, StartRound
<1>3. /\ \A d \in Nodes : SameAnswers(d)
      /\ \A x \in Nodes : x # m => /\ Round(x)' = Round(x) /\ adviseRetry'[x] = adviseRetry[x]
                                   /\ consumedInputs'[x] = consumedInputs[x]
                                   /\ consumedControl'[x] = consumedControl[x]
                                   /\ task'[x] = task[x]
      /\ Round(m)' > 0
  BY ZenonT(30), <1>2, StartIsSame, StartTook, SameMeansSameAnswers
<1>4. \A x \in Nodes : x # m => Called(x)' <=> Called(x)
  <2> SUFFICES ASSUME NEW x \in Nodes, x # m PROVE Called(x)' <=> Called(x)
    OBVIOUS
  <2>1. Sources(x) \cup DependsOn[x] \subseteq Nodes
    BY DEF BindingAssumption, Sources
  <2> QED
    BY <1>3, <2>1, CalledKept
<1>5. ~Called(m)'
  BY StartedIsNotCalled
<1>6. \A h \in Feeds(n, s) : Awaited(h)' => Awaited(h)
  BY <1>1, <1>2, <1>3 DEF Awaited
<1>7. \A x \in Nodes : x # m => (Engaged(x)' => Engaged(x))
  BY <1>2, <1>3, <1>4 DEF Engaged, Owed
<1>8. Feeds(n, s)' = Feeds(n, s) /\ Engaged(m)
  BY <1>2 DEF Feeds, Sources, Engaged
<1>9. CASE m \notin {n, s}
  BY <1>1, <1>2, <1>3, <1>4, <1>6, <1>9, TurnsKept
<1>10. CASE m = n
  <2>1. ~Engaged(s)' /\ ~Owed(n) /\ \A h \in Feeds(n, s) : ~Awaited(h)'
    BY <1>1, <1>2, <1>6, <1>7, <1>8, <1>10 DEF TakeTurns
  <2>2. task'[s] = "none" /\ ~Owed(n)'
    BY <1>2, <2>1 DEF Engaged, Owed
  <2> QED
    BY <1>2, <1>5, <1>8, <1>10, <2>1, <2>2 DEF TakeTurns
<1>11. CASE m = s
  <2>1. ~Engaged(n)' /\ \A h \in Feeds(n, s) : ~Awaited(h)'
    BY <1>1, <1>2, <1>6, <1>7, <1>8, <1>11 DEF TakeTurns
  <2>2. task'[n] = "none" /\ ~Owed(n)' /\ n \notin queued'
    BY <2>1 DEF Engaged
  <2> QED
    BY <1>2, <1>5, <1>8, <1>11, <2>1, <2>2 DEF TakeTurns
<1> QED
  BY <1>9, <1>10, <1>11

\* A success calls the other one, or both after the human input.
LEMMA TurnsSuccess ==
  ASSUME NodesAssumption, BindingAssumption, IInv, LiveInv, ~stopping,
         NEW n \in Nodes \ HumanInputs, NEW s \in Sources(n) \cap Approvals, ReviewLoop(n, s),
         TakeTurns(n, s), NEW m \in Nodes, Succeeds(m)
  PROVE  TakeTurns(n, s)'
<1>1. /\ s \in Nodes /\ n # s /\ Feeds(n, s) \subseteq HumanInputs /\ Feeds(n, s) \subseteq Nodes
      /\ s \notin HumanInputs
      /\ Sources(n) \cup DependsOn[n] \subseteq Feeds(n, s) \cup {s}
      /\ Sources(s) \cup DependsOn[s] = {n}
  BY LoopFacts
<1>2. /\ TypeOK /\ advising' = advising /\ adviseRetry' = adviseRetry /\ queued' = queued
      /\ task \in [Nodes -> Tasks] /\ task' = [task EXCEPT ![m] = "none"] /\ task[m] # "none"
      /\ UNCHANGED <<consumedInputs, consumedControl>>
      /\ m \notin queued
  BY DEF IInv, TypeOK, QueuedIsStartable, Succeeds, RoundSucceeds, HumanInputGiven, TakeResult,
         queueVars, adviseVars, inputVars
<1>3. /\ \A d \in Nodes : d # m => SameAnswers(d)
      /\ \A x \in Nodes : Round(x)' = Round(x)
      /\ Round(m) > 0
  BY <1>2, SuccessIsNew, SameMeansSameAnswers DEF Stays
<1>4. \A x \in {n, s} : m \notin Sources(x) \cup DependsOn[x] => (Called(x)' <=> Called(x))
  <2> SUFFICES ASSUME NEW x \in {n, s}, m \notin Sources(x) \cup DependsOn[x]
               PROVE  Called(x)' <=> Called(x)
    OBVIOUS
  <2>1. x \in Nodes /\ Sources(x) \cup DependsOn[x] \subseteq Nodes
    BY <1>1 DEF BindingAssumption, Sources
  <2> QED
    BY <1>2, <1>3, <2>1, CalledKept
<1>5. /\ \A x \in Nodes : task'[x] # "none" => task[x] # "none" /\ x # m
      /\ \A x : Owed(x)' <=> Owed(x)
      /\ Feeds(n, s)' = Feeds(n, s)
      /\ \A h \in Feeds(n, s) : Awaited(h)' => Awaited(h)
  BY <1>1, <1>2, <1>3 DEF Owed, Feeds, Sources, Awaited
<1>6. Engaged(m)
  BY <1>2 DEF Engaged
<1>7. CASE m \notin {n, s} \cup Feeds(n, s)
  <2>1. \A x \in {n, s} : Called(x)' <=> Called(x)
    BY <1>1, <1>4, <1>7
  <2> QED
    BY <1>1, <1>2, <1>5, <2>1, TurnsKept
<1>8. CASE m = n
  <2>1. ~Engaged(s) /\ ~Called(n) /\ ~Owed(n) /\ \A h \in Feeds(n, s) : ~Awaited(h)
    BY <1>2, <1>6, <1>8 DEF TakeTurns
  <2>2. ~Called(n)'
    BY <1>1, <1>4, <1>8, <2>1
  <2>3. ~Engaged(n)' /\ task'[s] = "none" /\ task'[n] = "none"
    BY <1>1, <1>2, <1>5, <1>8, <2>1, <2>2 DEF Engaged
  <2> QED
    BY <1>2, <1>5, <2>1, <2>2, <2>3 DEF TakeTurns
<1>9. CASE m = s
  <2>1. ~Engaged(n) /\ ~Called(s) /\ ~Owed(s) /\ \A h \in Feeds(n, s) : ~Awaited(h)
    <3>1. ~Owed(s)
      BY LoopFacts DEF LiveInv, Owed
    <3> QED
      BY <1>2, <1>6, <1>9, <3>1 DEF TakeTurns
  <2>2. ~Called(s)'
    BY <1>1, <1>4, <1>9, <2>1
  <2>3. ~Engaged(s)' /\ task'[s] = "none" /\ task'[n] = "none" /\ ~Owed(n)'
    BY <1>1, <1>2, <1>5, <1>9, <2>1, <2>2 DEF Engaged
  <2> QED
    BY <1>2, <1>5, <2>1, <2>3 DEF TakeTurns
<1>10. CASE m \in Feeds(n, s)
  <2>1. ~Engaged(n) /\ ~Engaged(s) /\ m \notin {n, s}
    BY <1>1, <1>2, <1>10 DEF TakeTurns, Awaited
  <2>2. ~Awaited(m)' /\ \A h \in Feeds(n, s) : h = m
    BY <1>2, <1>3, <1>5, <1>10 DEF ReviewLoop, Awaited
  <2>3. ~Called(s)'
    BY <1>1, <1>4, <2>1 DEF Engaged
  <2>4. ~Engaged(s)' /\ task'[s] = "none" /\ task'[n] = "none" /\ ~Owed(n)'
    BY <1>1, <1>2, <1>5, <2>1, <2>3 DEF Engaged
  <2> QED
    BY <1>2, <1>5, <2>2, <2>4 DEF TakeTurns
<1> QED
  BY <1>7, <1>8, <1>9, <1>10

\* The other results: a failure that can be repaired is not called for again before its advice.
LEMMA TurnsResult ==
  ASSUME NodesAssumption, BindingAssumption, IInv, LiveInv, ~Closing',
         NEW n \in Nodes \ HumanInputs, NEW s \in Sources(n) \cap Approvals, ReviewLoop(n, s),
         TakeTurns(n, s), NEW m \in Nodes, Unsuccessful(m)
  PROVE  TakeTurns(n, s)'
<1>1. /\ s \in Nodes /\ n # s /\ s \notin Agents
      /\ Feeds(n, s) \subseteq HumanInputs /\ Feeds(n, s) \subseteq Nodes
  BY LoopFacts
<1>2. /\ TypeOK /\ task \in [Nodes -> Tasks] /\ pc' = "top" /\ pc = "select"
      /\ \A x \in Nodes : Same(x) /\ Stays(x)
      /\ UNCHANGED <<consumedInputs, consumedControl>>
      /\ adviseRetry' = adviseRetry /\ queued' = queued /\ ctxDone' = ctxDone
      /\ task[m] # "none"
  BY UnsuccessfulIsSame
  DEF IInv, TypeOK, Unsuccessful, RoundFailsInteraction, RoundFailsStructural, RoundCancelled,
      ApprovalDecided, TakeResult, adviseVars, queueVars
<1>3. RoundFailsInteraction(m) \/ ApprovalDecided(m)
  <2>1. ~RoundCancelled(m)
    BY <1>2 DEF RoundCancelled, Closing
  <2>2. ~RoundFailsStructural(m)
    BY DEF RoundFailsStructural, Blame, LiveInv, Closing
  <2> QED
    BY <2>1, <2>2 DEF Unsuccessful
<1>4. \A x \in Nodes : Called(x)' <=> Called(x)
  <2> SUFFICES ASSUME NEW x \in Nodes PROVE Called(x)' <=> Called(x)
    OBVIOUS
  <2>1. Sources(x) \cup DependsOn[x] \subseteq Nodes
    BY DEF BindingAssumption, Sources
  <2> QED
    BY <1>2, <2>1, SameMeansSameAnswers, CalledKept DEF Stays
<1>5. /\ \A x \in Nodes : task'[x] # "none" => task[x] # "none"
      /\ RoundFailsInteraction(m) => task'[m] = "none"
  <2>1. \/ task' = [task EXCEPT ![m] = "none"]
        \/ ApprovalDecided(m) /\ task' = [task EXCEPT ![m] = "approve"]
    BY <1>3 DEF RoundFailsInteraction, ApprovalDecided, TakeResult
  <2>2. RoundFailsInteraction(m) => task' = [task EXCEPT ![m] = "none"]
    BY DEF RoundFailsInteraction, TakeResult
  <2> QED
    BY <1>2, <2>1, <2>2
<1>6. \A h \in Feeds(n, s) : Awaited(h)' => Awaited(h)
  BY <1>1, <1>2, <1>5 DEF Awaited, Stays
<1>7. CASE ApprovalDecided(m) \/ m # n
  <2>1. \A p \in advising' : p \in advising \/ p[1] \notin {n, s}
    <3>1. CASE RoundFailsInteraction(m)
      <4>1. m \in Agents /\ advising' = advising \cup {<<m, Round(m)>>}
        BY <3>1 DEF RoundFailsInteraction
      <4>2. m \notin {n, s}
        BY <1>1, <1>7, <4>1 DEF RoundFailsInteraction, ApprovalDecided, NodesAssumption
      <4> QED
        BY <4>1, <4>2
    <3>2. CASE ApprovalDecided(m)
      BY <3>2 DEF ApprovalDecided, adviseVars
    <3> QED
      BY <1>3, <3>1, <3>2
  <2> QED
    BY <1>1, <1>2, <1>4, <1>5, <1>6, <2>1, TurnsKept
<1>8. CASE RoundFailsInteraction(n) /\ m = n
  <2>1. ~Engaged(s) /\ ~Called(n) /\ ~Owed(n) /\ \A h \in Feeds(n, s) : ~Awaited(h)
    BY <1>2, <1>8 DEF TakeTurns, Engaged
  <2>2. advising' = advising \cup {<<n, Round(n)>>}
    BY <1>8 DEF RoundFailsInteraction
  <2>3. /\ ~Engaged(s)' /\ ~Called(n)' /\ task'[n] = "none" /\ task'[s] = "none"
        /\ n \notin queued'
    <3>1. n \notin queued
      BY <1>2, <1>8 DEF IInv, QueuedIsStartable, Closing, RoundFailsInteraction, loopVars
    <3> QED
      BY <1>1, <1>2, <1>4, <1>5, <1>8, <2>1, <2>2, <3>1 DEF Engaged, Owed
  <2>4. \A p, q \in advising' : p[1] = n /\ q[1] = n => p = q
    BY <2>1, <2>2 DEF Owed
  <2>5. Feeds(n, s)' = Feeds(n, s)
    BY DEF Feeds, Sources
  <2> QED
    BY <1>6, <2>1, <2>3, <2>4, <2>5 DEF TakeTurns
<1> QED
  BY <1>3, <1>7, <1>8

\* Advice calls the node it is for, which nothing else has called since it failed.
LEMMA TurnsAdvice ==
  ASSUME NodesAssumption, BindingAssumption, IInv, LiveInv, ~Closing',
         NEW n \in Nodes \ HumanInputs, NEW s \in Sources(n) \cap Approvals, ReviewLoop(n, s),
         TakeTurns(n, s), NEW p \in advising, AdviceGiven(p) \/ AdviceSkipped(p) \/ AdviceFails(p)
  PROVE  TakeTurns(n, s)'
<1>1. /\ s \in Nodes /\ n # s /\ s \notin Agents
      /\ Feeds(n, s) \subseteq HumanInputs /\ Feeds(n, s) \subseteq Nodes
  BY LoopFacts
<1>2. /\ TypeOK /\ adviseRetry \in [Nodes -> Nat] /\ p[1] \in Nodes /\ p[1] \in Agents
      /\ \A x \in Nodes : Same(x) /\ Stays(x)
      /\ UNCHANGED <<consumedInputs, consumedControl, task, queued>>
      /\ advising' = advising \ {p}
  BY AdviceIsSame
  DEF IInv, TypeOK, LiveInv, AdviceGiven, AdviceSkipped, AdviceFails, TakeAdvice, flightVars,
      queueVars
<1>3. AdviceGiven(p) \/ AdviceSkipped(p)
  BY DEF AdviceFails, Blame, Closing
<1>4. \A x \in Nodes : x # p[1] \/ AdviceSkipped(p) => (Called(x)' <=> Called(x))
  <2> SUFFICES ASSUME NEW x \in Nodes, x # p[1] \/ AdviceSkipped(p)
               PROVE  Called(x)' <=> Called(x)
    OBVIOUS
  <2>1. Sources(x) \cup DependsOn[x] \subseteq Nodes
    BY DEF BindingAssumption, Sources
  <2>2. adviseRetry'[x] = adviseRetry[x]
    BY <1>2, <1>3 DEF AdviceGiven, AdviceSkipped
  <2> QED
    BY <1>2, <2>1, <2>2, SameMeansSameAnswers, CalledKept DEF Stays
<1>5. \A h \in Feeds(n, s) : Awaited(h)' => Awaited(h)
  BY <1>1, <1>2 DEF Awaited, Stays
<1>6. CASE p[1] # n \/ AdviceSkipped(p)
  <2>1. \A x \in {n, s} : Called(x)' <=> Called(x)
    BY <1>1, <1>2, <1>4, <1>6
  <2> QED
    BY <1>1, <1>2, <1>5, <2>1, TurnsKept
<1>7. CASE p[1] = n
  <2>1. Owed(n) /\ Engaged(n)
    BY <1>7 DEF Owed, Engaged
  <2>2. /\ ~Engaged(s) /\ n \notin queued /\ task[n] = "none"
        /\ \A h \in Feeds(n, s) : ~Awaited(h)
    BY <2>1 DEF TakeTurns
  <2>3. ~Owed(n)'
    BY <1>2, <1>7 DEF Owed, TakeTurns
  <2>4. ~Engaged(s)' /\ task'[s] = "none"
    BY <1>1, <1>2, <1>4, <1>7, <2>2 DEF Engaged, Owed
  <2>5. Feeds(n, s)' = Feeds(n, s)
    BY DEF Feeds, Sources
  <2> QED
    BY <1>2, <1>5, <2>2, <2>3, <2>4, <2>5 DEF TakeTurns
<1> QED
  BY <1>6, <1>7

LoopInv ==
  ~Closing => \A n \in Nodes \ HumanInputs : \A s \in Sources(n) \cap Approvals :
                ReviewLoop(n, s) => TakeTurns(n, s)

LEMMA LoopInvInit == Init => LoopInv
<1> SUFFICES ASSUME Init, NEW n \in Nodes \ HumanInputs, NEW s \in Sources(n) \cap Approvals,
                    ReviewLoop(n, s)
             PROVE  TakeTurns(n, s)
  BY DEF LoopInv
<1>1. \A x \in Nodes : /\ task[x] = "none" /\ x \notin queued /\ ~Owed(x)
                       /\ OutputOf(x) = 0 /\ ControlCompletedRound(x) = 0
  BY DEF Init, Owed, OutputOf, HasCompleted, ControlCompletedRound, LatestCompletedRound, Round
<1>2. /\ s \in Nodes /\ DependsOn[s] = {n}
      /\ Feeds(n, s) \subseteq Nodes /\ Feeds(n, s) \subseteq Requires[n] \cup DependsOn[n]
  BY LoopFacts, NodesAssumption, BindingAssumption DEF ReviewLoop
<1>3. ~Engaged(s)
  BY <1>1, <1>2 DEF Engaged, Called, InputsResolved
<1>4. \A h \in Feeds(n, s) : ~Engaged(n)
  BY <1>1, <1>2 DEF Engaged, Called, InputsResolved
<1>5. advising = {}
  BY DEF Init
<1> QED
  BY <1>1, <1>2, <1>3, <1>4, <1>5 DEF TakeTurns

LEMMA LoopInvNext ==
  ASSUME NodesAssumption, BindingAssumption, LimitAssumption,
         IInv, LiveInv, QueueInv, ReasonInv, LoopInv, [Next]_vars
  PROVE  LoopInv'
<1>1. Closing => Closing'
  BY DEF Closing, Next, Coordinate, EnqueueReady, NoteStopping, StartRound, TripConvergenceGuard,
         DispatchDone, EndRun, FailBlockedInput, PromptNextInput, GoIdle, AwaitResult, WakeOnCancel,
         RoundReturns, RoundSucceeds, RoundFailsInteraction, RoundFailsStructural, RoundCancelled,
         PromptReturns, HumanInputGiven, ApprovalDecided, AdviceGiven, AdviceSkipped, AdviceFails,
         TakeResult, TakeAdvice, Blame, Cancel, Finished, vars, loopVars
<1> SUFFICES ASSUME ~Closing', NEW n \in Nodes \ HumanInputs, NEW s \in Sources(n) \cap Approvals,
                    ReviewLoop(n, s)
             PROVE  TakeTurns(n, s)'
  BY DEF LoopInv, Sources, ReviewLoop, Feeds
<1>2. TypeOK /\ TakeTurns(n, s) /\ ~Closing
  BY <1>1 DEF IInv, LoopInv
<1>3. /\ s \in Nodes /\ s \notin HumanInputs
      /\ Feeds(n, s) \subseteq HumanInputs /\ Feeds(n, s) \subseteq Nodes
  BY LoopFacts
<1>4. CASE \/ EnqueueReady \/ NoteStopping \/ DispatchDone \/ EndRun \/ FailBlockedInput
           \/ PromptNextInput \/ GoIdle \/ AwaitResult \/ WakeOnCancel \/ Cancel \/ UNCHANGED vars
  <2>1. UNCHANGED <<runs, consumedInputs, consumedControl, adviseRetry, task, advising>>
    BY <1>4 DEF EnqueueReady, NoteStopping, DispatchDone, EndRun, FailBlockedInput, PromptNextInput,
                GoIdle, AwaitResult, WakeOnCancel, Cancel, vars, inputVars, flightVars, adviseVars
  <2>2. \A x \in Nodes : Called(x)' <=> Called(x)
    <3> SUFFICES ASSUME NEW x \in Nodes PROVE Called(x)' <=> Called(x)
      OBVIOUS
    <3>1. Sources(x) \cup DependsOn[x] \subseteq Nodes /\ \A d \in Nodes : SameAnswers(d)
      BY <1>2, <2>1, QuietIsSame, SameMeansSameAnswers DEF BindingAssumption, Sources
    <3> QED
      BY <2>1, <3>1, CalledKept DEF Round
  <2>3. CASE EnqueueReady
    <3>1. \A x \in queued' : x \in queued \/ (x \in Nodes /\ Ready(x) /\ x \notin dirty)
      BY <2>3 DEF EnqueueReady, ReasonInv
    <3>2. ASSUME NEW x \in Nodes \ HumanInputs, Ready(x), x \notin dirty PROVE Called(x)
      <4>1. Round(x) # 0 => Status(x) # "Pending"
        <5>1. Round(x) # 0 => Current(x) \in RunRecord
          BY <1>2, RoundType
        <5> QED
          BY <5>1 DEF Status, RunRecord
      <4> QED
        BY <3>2, <4>1 DEF Ready, Called
    <3>3. ASSUME NEW h \in Feeds(n, s), Awaited(h)' PROVE Awaited(h)
      <4>1. h \in HumanInputs /\ h \in Nodes
        BY <1>3
      <4>2. Ready(h) => Round(h) = 0
        <5>1. Round(h) # 0 => Current(h) \in RunRecord
          BY <1>2, <4>1, RoundType
        <5> QED
          BY <4>1, <5>1 DEF Ready, Status, RunRecord
      <4> QED
        BY <2>1, <3>1, <3>3, <4>2 DEF Awaited, Round
    <3> QED
      BY <1>2, <1>3, <2>1, <2>2, <3>1, <3>2, <3>3, TurnsKept
  <2>4. CASE PromptNextInput
    <3>1. pc = "decide" /\ Settled /\ queued' \ queued \subseteq HumanInputs
      BY <2>4 DEF PromptNextInput, OpenInputs
    <3>2. ~Engaged(n) /\ ~Engaged(s)
      BY <1>3, <3>1, SettledIsQuiet
    <3>3. ~Engaged(n)' /\ ~Engaged(s)'
      BY <1>3, <2>1, <2>2, <3>1, <3>2 DEF Engaged, Owed
    <3>4. \A p \in advising' : p[1] # n
      BY <3>3 DEF Engaged, Owed
    <3> QED
      BY <3>3, <3>4 DEF TakeTurns, Engaged
  <2>5. CASE ~EnqueueReady /\ ~PromptNextInput
    <3>1. queued' = queued
      BY <1>4, <2>5 DEF NoteStopping, DispatchDone, EndRun, FailBlockedInput, GoIdle, AwaitResult,
                        WakeOnCancel, Cancel, vars, queueVars
    <3>2. \A h \in Feeds(n, s) : Awaited(h)' => Awaited(h)
      BY <2>1, <3>1 DEF Awaited, Round
    <3> QED
      BY <1>2, <1>3, <2>1, <2>2, <3>1, <3>2, TurnsKept
  <2> QED
    BY <2>3, <2>4, <2>5
<1>5. ASSUME NEW m \in Nodes, StartRound(m) \/ TripConvergenceGuard(m) PROVE TakeTurns(n, s)'
  <2>1. ~TripConvergenceGuard(m)
    BY DEF TripConvergenceGuard, Closing
  <2> QED
    BY <1>2, <1>5, <2>1, TurnsStart
<1>6. ASSUME NEW m \in Nodes,
             RoundReturns(m) \/ RoundFailsStructural(m) \/ HumanInputGiven(m) \/ ApprovalDecided(m)
      PROVE  TakeTurns(n, s)'
  <2>1. CASE Succeeds(m)
    BY <1>2, <2>1, TurnsSuccess DEF Closing
  <2>2. CASE Unsuccessful(m)
    BY <1>2, <2>2, TurnsResult
  <2> QED
    BY <1>6, <2>1, <2>2 DEF RoundReturns, Succeeds, Unsuccessful
<1>7. ASSUME NEW p \in advising, AdviceGiven(p) \/ AdviceSkipped(p) \/ AdviceFails(p)
      PROVE  TakeTurns(n, s)'
  BY <1>2, <1>7, TurnsAdvice
<1> QED
  BY <1>4, <1>5, <1>6, <1>7 DEF Next, Coordinate, PromptReturns, Finished

\* In a workflow where each node that takes an approval is in a simple review loop with it, no
\* rejection is lost at any parallelism: the loop testdata/valid/human-cycle.yaml is one, with the
\* four rounds at a time of the workflow command (run.go:95).
THEOREM ReworkInLoops ==
  /\ ReworkIsPossible
  /\ \A n \in Nodes \ HumanInputs : \A s \in Sources(n) \cap Approvals : ReviewLoop(n, s)
  /\ Spec
  => []RejectionIsReworked
<1> SUFFICES ASSUME \A n \in Nodes \ HumanInputs : \A s \in Sources(n) \cap Approvals :
                      ReviewLoop(n, s)
             PROVE  ReworkIsPossible /\ Spec => []RejectionIsReworked
  OBVIOUS
<1> DEFINE Inv == LiveInv /\ TakenInv /\ QueueInv /\ SourcesInv /\ ReasonInv /\ LoopInv
<1>1. Init => Inv
  BY LiveInvInit, TakenInvInit, LoopInvInit
  DEF Init, SourcesInv, ReasonInv, Reasoned, OutputOf, HasCompleted, Round, QueueInv
<1>2. IInv /\ IInv' /\ Inv /\ [Next]_vars => Inv'
  BY LiveInvNext, TakenInvNext, QueueInvNext, ReasonInvNext, LoopInvNext,
     NodesAssumption, BindingAssumption, LimitAssumption DEF IInv
<1>3. Inv => AskedAlone
  BY DEF LoopInv, TakeTurns, Engaged, AskedAlone
<1> QED
  BY <1>1, <1>2, <1>3, ReworkCorrect, Inductive, PTL DEF Spec
=============================================================================
