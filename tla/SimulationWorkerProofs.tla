------------------------ MODULE SimulationWorkerProofs ------------------------
(***************************************************************************)
(* Theorems about the workflow-simulation worker: types, the finality of   *)
(* terminal attempts, that a durable cancellation is never overtaken by a  *)
(* success, that the event log is the history of its attempt and holds     *)
(* each outcome once, that a success is collected, and that the workers    *)
(* implement AttemptLifecycle, for any number of attempts, workers, keys   *)
(* and retries.                                                            *)
(***************************************************************************)
EXTENDS SimulationWorker, CommandControlProofs

-----------------------------------------------------------------------------
(* Type correctness                                                         *)

JobTypeOK == jobs \in [Attempts -> {"none", "accepted", "stopped"}]

IInvType == TypeInv /\ JobTypeOK

LEMMA InitType == Init => IInvType
BY ControlInitType DEF Init, IInvType, JobTypeOK

(* What a worker past `take' holds.                                         *)
LEMMA HeldCommand ==
  ASSUME IInvType, NEW w \in Workers, pc[w] \notin {"idle", "progressions", "take"}
  PROVE  /\ cur[w] \in Claim /\ cur[w].attempt \in Attempts /\ cur[w].key \in Keys
         /\ StoreTypeOK
BY DEF IInvType, TypeInv, HoldsCommand, ControlTypeOK, Claim

LEMMA DispatchLabel ==
  ASSUME NEW w \in Workers, Dispatch(w)
  PROVE  \E label \in {"release", "read"} : Goto(w, label) /\ UNCHANGED cur
<1>1. PICK again \in BOOLEAN : Goto(w, IF again THEN "release" ELSE "read")
  BY DEF Dispatch
<1>2. CASE again
  BY <1>1, <1>2 DEF Dispatch
<1>3. CASE ~ again
  BY <1>1, <1>3 DEF Dispatch
<1>. QED  BY <1>2, <1>3

LEMMA DispatchType ==
  ASSUME IInvType, NEW w \in Workers, Dispatch(w)
  PROVE  IInvType'
<1>1. cur[w] \in Claim /\ StoreTypeOK
  BY HeldCommand DEF Dispatch
<1>2. PICK outcome \in {"responded", "before_response", "after_acceptance", "malformed"} :
        /\ jobs' = IF outcome = "before_response" THEN jobs
                   ELSE ProviderEffect(cur[w].attempt, Op(w))
        /\ LET retryable == outcome \in {"before_response", "after_acceptance"}
               again     == retryable /\ cur[w].lease < MaximumCommandAttempts IN
           /\ Goto(w, IF again THEN "release" ELSE "read")
           /\ intent' = [intent EXCEPT ![w] =
                           IF outcome = "responded" \/ again THEN "response" ELSE "failure"]
  BY DEF Dispatch
<1>3. JobTypeOK'
  BY <1>2 DEF IInvType, JobTypeOK, ProviderEffect
<1>4. intent' \in [Workers -> Intents]
  BY <1>2 DEF IInvType, TypeInv, ControlTypeOK, Intents
<1>5. \E label \in Labels : Goto(w, label)
  <2>. DEFINE again == /\ outcome \in {"before_response", "after_acceptance"}
                       /\ cur[w].lease < MaximumCommandAttempts
              label == IF again THEN "release" ELSE "read"
  <2>1. Goto(w, label)
    BY <1>2
  <2>2. label \in Labels
    BY DEF Labels
  <2>. HIDE DEF label
  <2>. QED  BY <2>1, <2>2
<1>6. /\ StoreTypeOK' /\ reading' \in [Workers -> Reading \cup {None}]
      /\ UNCHANGED <<batch, cur, seen, requests, boundVars>>
  BY <1>1 DEF Dispatch, StoreTypeOK, storeVars, IInvType, TypeInv, ControlTypeOK
<1>7. TypeInv'
  BY <1>1, <1>4, <1>5, <1>6, GotoType DEF IInvType
<1>. QED  BY <1>3, <1>7 DEF IInvType

LEMMA ReadSequencesType ==
  ASSUME IInvType, NEW w \in Workers, ReadSequences(w)
  PROVE  IInvType'
<1>1. cur[w] \in Claim /\ cur[w].attempt \in Attempts /\ StoreTypeOK
  BY HeldCommand DEF ReadSequences
<1>2. StoreTypeOK' /\ JobTypeOK' /\ UNCHANGED <<requests, boundVars>>
  BY <1>1 DEF ReadSequences, StoreTypeOK, storeVars, IInvType, JobTypeOK
<1>3. CASE Abort(w)
  BY <1>2, <1>3, AbortType DEF IInvType, TypeInv, ControlTypeOK, boundVars
<1>4. CASE /\ reading' = [reading EXCEPT ![w] = ReadingOf(cur[w].attempt)]
           /\ Goto(w, "commit")
           /\ UNCHANGED <<batch, cur, seen, intent>>
  <2>1. ReadingOf(cur[w].attempt) \in Reading
    BY <1>1, ReadingType
  <2>2. reading' \in [Workers -> Reading \cup {None}] /\ intent' \in [Workers -> Intents]
    BY <1>4, <2>1 DEF IInvType, TypeInv, ControlTypeOK
  <2>. QED  BY <1>1, <1>2, <1>4, <2>2, GotoType DEF IInvType, Labels
<1>. QED  BY <1>3, <1>4 DEF ReadSequences

(* What Commit does to the store is one of the three commit transactions.   *)
LEMMA CommitTransaction ==
  ASSUME IInvType, NEW w \in Workers, Commit(w)
  PROVE  \/ /\ Op(w) = "reconcile"
            /\ PrepareCollection(w, cur[w], seen[w], reading[w])
         \/ /\ Op(w) = "collect"
            /\ \E next \in {"collected", "failed"} :
                  CommitCollectionCompletion(w, cur[w], reading[w], next)
         \/ /\ Op(w) # "collect"
            /\ \E next \in {"submitted", "running", "cancelled", "failed"},
                  nextKey \in {"sync", "reconcile", None}, error \in {"none", "failure"} :
                  CommitCommandOutcome(w, cur[w], seen[w], reading[w], next, nextKey, error)
<1>1. Op(w) \in {"submit", "sync", "reconcile", "collect", "cancel"}
  BY HeldCommand, OperationOfKey DEF Commit, Op
<1>2. CASE intent[w] = "response"
  BY <1>1, <1>2 DEF Commit, CommitResponse, NextState, NextKey
<1>3. CASE intent[w] # "response"
  BY <1>1, <1>3 DEF Commit, CommitFailure
<1>. QED  BY <1>2, <1>3

LEMMA CommitType ==
  ASSUME IInvType, NEW w \in Workers, Commit(w)
  PROVE  IInvType'
<1>1. cur[w] \in Claim /\ StoreTypeOK
  BY HeldCommand DEF Commit
<1>2. StoreTypeOK'
  BY <1>1, CommitTransaction, PrepareCollectionType, CommitCollectionCompletionType,
     CommitCommandOutcomeType
<1>3. TypeInv'
  BY <1>2, ProceedType DEF Commit, IInvType
<1>. QED  BY <1>3 DEF Commit, IInvType, JobTypeOK

(* The three steps of a refused response only move the worker.              *)
LEMMA RefusalShape ==
  ASSUME NEW w \in Workers,
         CommitRefused(w) \/ ResolveCancelProgressionRace(w) \/ YieldToCancellation(w)
  PROVE  /\ pc[w] \in {"commit", "race", "yield"}
         /\ UNCHANGED <<storeVars, requests, jobs, boundVars>>
         /\ \/ Abort(w)
            \/ /\ \E label \in {"race", "yield", "release", "terminalize"} : Goto(w, label)
               /\ UNCHANGED <<batch, cur, seen, reading, intent>>
BY DEF CommitRefused, ResolveCancelProgressionRace, YieldToCancellation

LEMMA RefusalType ==
  ASSUME IInvType, NEW w \in Workers,
         CommitRefused(w) \/ ResolveCancelProgressionRace(w) \/ YieldToCancellation(w)
  PROVE  IInvType'
<1>1. cur[w] \in Claim /\ StoreTypeOK
  BY RefusalShape, HeldCommand
<1>2. StoreTypeOK' /\ JobTypeOK' /\ UNCHANGED <<requests, boundVars>>
  BY <1>1, RefusalShape DEF StoreTypeOK, storeVars, IInvType, JobTypeOK
<1>3. CASE Abort(w)
  BY <1>2, <1>3, AbortType DEF IInvType, TypeInv, ControlTypeOK, boundVars
<1>4. ASSUME NEW label \in {"race", "yield", "release", "terminalize"}, Goto(w, label),
             UNCHANGED <<batch, cur, seen, reading, intent>>
      PROVE  IInvType'
  <2>1. reading' \in [Workers -> Reading \cup {None}] /\ intent' \in [Workers -> Intents]
    BY <1>4 DEF IInvType, TypeInv, ControlTypeOK
  <2>2. label \in Labels
    BY DEF Labels
  <2>. QED  BY <1>1, <1>2, <1>4, <2>1, <2>2, GotoType DEF IInvType
<1>. QED  BY <1>3, <1>4, RefusalShape

LEMMA StepType == IInvType /\ [Next]_vars => IInvType'
<1>. SUFFICES ASSUME IInvType, [Next]_vars PROVE IInvType'
  OBVIOUS
<1>1. ASSUME NEW w \in Workers, ControlStep(w), UNCHANGED jobs  PROVE IInvType'
  BY <1>1, ControlStepType DEF IInvType, JobTypeOK
<1>2. ASSUME NEW w \in Workers, Dispatch(w)  PROVE IInvType'
  BY <1>2, DispatchType
<1>3. ASSUME NEW w \in Workers, ReadSequences(w)  PROVE IInvType'
  BY <1>3, ReadSequencesType
<1>4. ASSUME NEW w \in Workers, Commit(w)  PROVE IInvType'
  BY <1>4, CommitType
<1>5. ASSUME NEW w \in Workers,
             CommitRefused(w) \/ ResolveCancelProgressionRace(w) \/ YieldToCancellation(w)
      PROVE  IInvType'
  BY <1>5, RefusalType
<1>6. CASE EnvironmentStep /\ UNCHANGED jobs
  BY <1>6, EnvironmentStepType DEF IInvType, JobTypeOK
<1>7. CASE UNCHANGED vars
  BY <1>7 DEF vars, controlVars, storeVars, workerVars, boundVars, IInvType, TypeInv,
              ControlTypeOK, StoreTypeOK, HoldsCommand, JobTypeOK
<1>. QED  BY <1>1, <1>2, <1>3, <1>4, <1>5, <1>6, <1>7 DEF Next, WorkerStep

(* Every reachable state is well typed: in particular, no interleaving of   *)
(* claims, commits, crashes and requests writes a row of an unknown shape.  *)
THEOREM TypeCorrect == Spec => []TypeOK
<1>1. IInvType => TypeOK
  BY DEF IInvType, TypeInv, JobTypeOK, TypeOK
<1>. QED  BY <1>1, InitType, StepType, PTL DEF Spec

-----------------------------------------------------------------------------
(* The inductive invariant                                                  *)

IInv == IInvType /\ CancelInv /\ RefusalsAreKept

LEMMA InvariantParts == IInv <=> TypeOK /\ CancellationInvariant
BY DEF IInv, IInvType, TypeInv, JobTypeOK, TypeOK, CancelInv, CancellationInvariant

LEMMA InitInv == Init => IInv
<1>. SUFFICES ASSUME Init PROVE IInv
  OBVIOUS
<1>1. IInvType
  BY InitType
<1>2. \A a \in Attempts, k \in CancelKeys : commands[a][k].state = "absent"
  BY CancelKeysAreKeys, KeysAssumption
     DEF Init, ControlInit, StoreInit, WorkerKeys, AbsentCommand, NewCommand
<1>3. SettledCancelIsOver /\ CancellationWins
  BY <1>2 DEF SettledCancelIsOver, IsSettled, CancellationWins, HasCancelIntent, Present
<1>4. RequestsAreSnapshots /\ CancelsLeasedAfterSubmit /\ RefusalsAreKept
  BY CancelKeysAreKeys
     DEF Init, ControlInit, RequestsAreSnapshots, CancelsLeasedAfterSubmit, RefusalsAreKept
<1>. QED  BY <1>1, <1>3, <1>4 DEF IInv, CancelInv

(* A worker reaches `yield' or `terminalize' only when it may.              *)
LabelsMove ==
    \A w \in Workers :
        \/ pc'[w] = pc[w] /\ cur'[w] = cur[w]
        \/ pc'[w] \notin {"yield", "terminalize"}
        \/ pc'[w] = "yield" /\ cur'[w].key \notin CancelKeys
        \/ /\ pc'[w] = "terminalize"
           /\ cur'[w].key \in CancelKeys =>
                 cur'[w].attempt \in Attempts /\ IsTerminal(attempts[cur'[w].attempt].state)

LEMMA RefusalsStep ==
  ASSUME IInv, AttemptsMove, LabelsMove
  PROVE  RefusalsAreKept'
<1>. SUFFICES ASSUME NEW w \in Workers
              PROVE  /\ pc'[w] = "yield" => cur'[w].key \notin CancelKeys
                     /\ pc'[w] = "terminalize" /\ cur'[w].key \in CancelKeys =>
                           IsTerminal(attempts'[cur'[w].attempt].state)
  BY DEF RefusalsAreKept, IsTerminal
<1>1. CASE pc'[w] = pc[w] /\ cur'[w] = cur[w]
  BY <1>1, HeldCommand, TerminalStays DEF IInv, RefusalsAreKept
<1>2. CASE /\ pc'[w] = "terminalize"
           /\ cur'[w].key \in CancelKeys =>
                 cur'[w].attempt \in Attempts /\ IsTerminal(attempts[cur'[w].attempt].state)
  BY <1>2, TerminalStays
<1>. QED  BY <1>1, <1>2 DEF LabelsMove

LEMMA ProceedLabels ==
  ASSUME IInvType, NEW w \in Workers, Proceed(w) \/ Abort(w)
  PROVE  LabelsMove
BY DEF IInvType, TypeInv, ControlTypeOK, Proceed, Abort, Forget, Goto, LabelsMove

LEMMA GotoLabels ==
  ASSUME IInvType, NEW w \in Workers, NEW label, label \notin {"yield", "terminalize"},
         Goto(w, label), UNCHANGED cur
  PROVE  LabelsMove
BY DEF IInvType, TypeInv, ControlTypeOK, Goto, LabelsMove

(* A cancel that cannot run any more has a finished attempt.                *)
LEMMA CancelCannotRun ==
  ASSUME NEW state \in LifecycleStates, NEW k \in CancelKeys, state # "prepared",
         ~ CommandCanRunFromAttempt(Operation(k), state)
  PROVE  IsTerminal(state)
BY DEF LifecycleStates, CommandCanRunFromAttempt, Operation, IsTerminal

LEMMA ControlStepLabels ==
  ASSUME IInv, NEW w \in Workers, ControlStep(w)
  PROVE  LabelsMove
<1>0. IInvType /\ ControlTypeOK /\ StoreTypeOK
  BY DEF IInv, IInvType, TypeInv, ControlTypeOK
<1>1. CASE ClaimCancellations(w)
  BY <1>0, <1>1, GotoLabels DEF ClaimCancellations
<1>2. CASE ClaimProgressions(w)
  BY <1>0, <1>2 DEF ClaimProgressions, Goto, LabelsMove, ControlTypeOK
<1>3. CASE Take(w)
  <2>1. PICK c \in batch[w] :
           /\ cur' = [cur EXCEPT ![w] = c]
           /\ Goto(w, IF CommandCanRunFromAttempt(Operation(c.key), attempts[c.attempt].state)
                      THEN "heartbeat" ELSE "terminalize")
    BY <1>3 DEF Take
  <2>2. c.attempt \in Attempts /\ cur'[w] = c
    BY <1>0, <2>1 DEF ControlTypeOK, Claim
  <2>3. attempts[c.attempt].state \in LifecycleStates
    BY <1>0, <2>2 DEF StoreTypeOK, Attempt
  <2>4. c.key \in CancelKeys => attempts[c.attempt].state # "prepared"
    BY DEF IInv, CancelInv, CancelsLeasedAfterSubmit
  <2>5. CASE CommandCanRunFromAttempt(Operation(c.key), attempts[c.attempt].state)
    BY <1>0, <2>1, <2>5 DEF LabelsMove, Goto, ControlTypeOK
  <2>6. CASE ~ CommandCanRunFromAttempt(Operation(c.key), attempts[c.attempt].state)
    <3>1. c.key \in CancelKeys => IsTerminal(attempts[c.attempt].state)
      BY <2>3, <2>4, <2>6, CancelCannotRun
    <3>2. Goto(w, "terminalize")
      BY <2>1, <2>6
    <3>. QED  BY <1>0, <2>1, <2>2, <3>1, <3>2 DEF LabelsMove, Goto, ControlTypeOK
  <2>. QED  BY <2>5, <2>6
<1>4. CASE Heartbeat(w)
  BY <1>0, <1>4, GotoLabels, ProceedLabels DEF Heartbeat
<1>5. CASE Release(w)
  BY <1>0, <1>5, ProceedLabels DEF Release
<1>6. CASE Terminalize(w)
  BY <1>0, <1>6, ProceedLabels DEF Terminalize
<1>. QED  BY <1>1, <1>2, <1>3, <1>4, <1>5, <1>6 DEF ControlStep

LEMMA RefusalLabels ==
  ASSUME IInv, NEW w \in Workers,
         CommitRefused(w) \/ ResolveCancelProgressionRace(w) \/ YieldToCancellation(w)
  PROVE  LabelsMove
<1>0. IInvType /\ ControlTypeOK
  BY DEF IInv, IInvType, TypeInv
<1>1. /\ pc[w] \in {"commit", "race", "yield"} /\ cur[w].key \in Keys
      /\ cur[w].attempt \in Attempts
  BY <1>0, RefusalShape, HeldCommand
<1>2. CASE Abort(w)
  BY <1>0, <1>2, ProceedLabels
<1>3. CASE CommitRefused(w) /\ ~ Abort(w)
  <2>1. /\ Op(w) \in {"cancel", "sync", "reconcile"} /\ UNCHANGED cur
        /\ Goto(w, IF Op(w) = "cancel" THEN "race" ELSE "yield")
    BY <1>3 DEF CommitRefused
  <2>2. CASE Op(w) = "cancel"
    BY <1>0, <2>1, <2>2, GotoLabels
  <2>3. CASE Op(w) # "cancel"
    <3>1. cur[w].key \notin CancelKeys
      BY <1>1, <2>3, OperationOfKey DEF Op
    <3>2. Goto(w, "yield")
      BY <2>1, <2>3
    <3>. QED  BY <1>0, <2>1, <3>1, <3>2 DEF Goto, LabelsMove, ControlTypeOK
  <2>. QED  BY <2>2, <2>3
<1>4. CASE ResolveCancelProgressionRace(w) /\ ~ Abort(w)
  <2>1. /\ UNCHANGED cur
        /\ Goto(w, IF IsTerminal(attempts[cur[w].attempt].state) THEN "terminalize" ELSE "release")
    BY <1>4 DEF ResolveCancelProgressionRace
  <2>2. CASE IsTerminal(attempts[cur[w].attempt].state)
    <3>1. Goto(w, "terminalize")
      BY <2>1, <2>2
    <3>. QED  BY <1>0, <1>1, <2>1, <2>2, <3>1 DEF Goto, LabelsMove, ControlTypeOK
  <2>3. CASE ~ IsTerminal(attempts[cur[w].attempt].state)
    <3>1. Goto(w, "release")
      BY <2>1, <2>3
    <3>. QED  BY <1>0, <2>1, <3>1, GotoLabels
  <2>. QED  BY <2>2, <2>3
<1>5. CASE YieldToCancellation(w) /\ ~ Abort(w)
  <2>1. pc[w] = "yield" /\ Goto(w, "terminalize") /\ UNCHANGED cur
    BY <1>5 DEF YieldToCancellation
  <2>2. cur[w].key \notin CancelKeys
    BY <2>1 DEF IInv, RefusalsAreKept
  <2>. QED  BY <1>0, <2>1, <2>2 DEF Goto, LabelsMove, ControlTypeOK
<1>. QED  BY <1>2, <1>3, <1>4, <1>5

LEMMA CommitSafe ==
  ASSUME IInvType, NEW w \in Workers, Commit(w)
  PROVE  SafeStoreStep
<1>1. cur[w] \in Claim /\ cur[w].key \in Keys /\ StoreTypeOK
  BY HeldCommand DEF Commit
<1>2. Op(w) # "cancel" => cur[w].key \notin CancelKeys
  BY <1>1, OperationOfKey DEF Op
<1>3. "sync" \notin CancelKeys /\ "reconcile" \notin CancelKeys /\ None \notin CancelKeys
  BY KeysAssumption, NoneAssumption DEF WorkerKeys
<1>4. CASE /\ Op(w) = "reconcile"
           /\ PrepareCollection(w, cur[w], seen[w], reading[w])
  BY <1>1, <1>2, <1>4, PrepareCollectionSafe
<1>5. CASE /\ Op(w) = "collect"
           /\ \E next \in {"collected", "failed"} :
                 CommitCollectionCompletion(w, cur[w], reading[w], next)
  BY <1>1, <1>2, <1>5, CommitCollectionCompletionSafe
<1>6. ASSUME NEW next \in {"submitted", "running", "cancelled", "failed"},
             NEW nextKey \in {"sync", "reconcile", None}, NEW error \in {"none", "failure"},
             CommitCommandOutcome(w, cur[w], seen[w], reading[w], next, nextKey, error)
      PROVE  SafeStoreStep
  BY <1>1, <1>3, <1>6, CommitCommandOutcomeSafe
<1>. QED  BY <1>4, <1>5, <1>6, CommitTransaction

(* Every step of the system moves attempts, commands, claims, requests and  *)
(* labels only in the ways above.                                           *)
LEMMA StepMoves ==
  ASSUME IInv, [Next]_vars
  PROVE  SafeStoreStep /\ BatchesMove /\ RequestsMove /\ LabelsMove
<1>. DEFINE Moves == SafeStoreStep /\ BatchesMove /\ RequestsMove /\ LabelsMove
<1>0. IInvType /\ TypeInv /\ ControlTypeOK /\ StoreTypeOK
  BY DEF IInv, IInvType, TypeInv, ControlTypeOK
<1>1. ASSUME NEW w \in Workers, ControlStep(w)  PROVE Moves
  <2>1. pc[w] = "terminalize" /\ cur[w].key \in CancelKeys =>
           IsTerminal(attempts[cur[w].attempt].state)
    BY DEF IInv, RefusalsAreKept
  <2>. QED  BY <1>0, <1>1, <2>1, ControlStepSafe, ControlStepLabels
<1>2. ASSUME NEW w \in Workers, Dispatch(w)  PROVE Moves
  <2>1. SafeStoreStep
    BY <1>2, UnchangedStoreIsSafe DEF Dispatch, storeVars
  <2>2. BatchesMove /\ RequestsMove
    BY <1>2 DEF Dispatch, BatchesMove, RequestsMove
  <2>3. PICK label \in {"release", "read"} : Goto(w, label) /\ UNCHANGED cur
    BY <1>2, DispatchLabel
  <2>. QED  BY <1>0, <2>1, <2>2, <2>3, GotoLabels
<1>3. ASSUME NEW w \in Workers, ReadSequences(w)  PROVE Moves
  <2>1. SafeStoreStep
    BY <1>3, UnchangedStoreIsSafe DEF ReadSequences, storeVars
  <2>2. BatchesMove /\ RequestsMove
    BY <1>0, <1>3, ProceedMoves DEF ReadSequences, BatchesMove, RequestsMove
  <2>3. LabelsMove
    BY <1>0, <1>3, ProceedLabels, GotoLabels DEF ReadSequences
  <2>. QED  BY <2>1, <2>2, <2>3
<1>4. ASSUME NEW w \in Workers, Commit(w)  PROVE Moves
  BY <1>0, <1>4, CommitSafe, ProceedMoves, ProceedLabels DEF Commit
<1>5. ASSUME NEW w \in Workers,
             CommitRefused(w) \/ ResolveCancelProgressionRace(w) \/ YieldToCancellation(w)
      PROVE  Moves
  <2>1. SafeStoreStep
    BY <1>5, RefusalShape, UnchangedStoreIsSafe DEF storeVars
  <2>2. BatchesMove /\ RequestsMove
    BY <1>0, <1>5, RefusalShape, ProceedMoves DEF BatchesMove, RequestsMove
  <2>. QED  BY <1>5, <2>1, <2>2, RefusalLabels
<1>6. CASE EnvironmentStep
  <2>1. LabelsMove
    <3>1. ASSUME NEW w \in Workers, Crash(w)  PROVE LabelsMove
      BY <1>0, <3>1, ProceedLabels DEF Crash
    <3>2. CASE UNCHANGED workerVars
      BY <3>2 DEF workerVars, LabelsMove
    <3>. QED
      BY <1>6, <3>1, <3>2
         DEF EnvironmentStep, RequestStep, CancelExecutionAttempt, ReconcileExecutionAttempt,
             EnqueueControlCommand, RequestFails, AbandonedLeaseExpires, LateLeaseExpires, Expire
  <2>. QED  BY <1>0, <1>6, <2>1, EnvironmentStepSafe DEF IInv, CancelInv
<1>7. CASE UNCHANGED vars
  BY <1>7, UnchangedStoreIsSafe
     DEF vars, controlVars, storeVars, workerVars, BatchesMove, RequestsMove, LabelsMove
<1>. QED  BY <1>1, <1>2, <1>3, <1>4, <1>5, <1>6, <1>7 DEF Next, WorkerStep

LEMMA StepInv == IInv /\ [Next]_vars => IInv'
<1>. SUFFICES ASSUME IInv, [Next]_vars PROVE IInv'
  OBVIOUS
<1>1. IInvType'
  BY StepType DEF IInv
<1>2. CancelInv'
  BY StepMoves, CancelInvStep DEF IInv, IInvType, TypeInv
<1>3. RefusalsAreKept'
  BY StepMoves, RefusalsStep DEF SafeStoreStep
<1>. QED  BY <1>1, <1>2, <1>3 DEF IInv

-----------------------------------------------------------------------------
(* The invariant that carries the next theorem holds of every reachable     *)
(* state: cancel commands settle only on finished attempts, requests hold   *)
(* snapshots, and a worker settles a cancel only when it may.               *)
THEOREM CancellationInvariantHolds == Spec => []CancellationInvariant
<1>1. IInv => CancellationInvariant
  BY InvariantParts
<1>. QED  BY <1>1, InitInv, StepInv, PTL DEF Spec

(* Once a cancel command is stored, its attempt never ends succeeded,       *)
(* whatever was leased, dispatched or answered before it was stored.        *)
THEOREM DurableCancellation == Spec => []CancellationWins
<1>1. IInv => CancellationWins
  BY DEF IInv, CancelInv
<1>. QED  BY <1>1, InitInv, StepInv, PTL DEF Spec

(* No late answer, retry, crash or request changes a finished attempt.      *)
THEOREM TerminalAttemptsAreFinal == Spec => TerminalIsFinal
<1>1. IInv /\ [Next]_vars =>
        [\A a \in Attempts : IsTerminal(attempts[a].state) => attempts'[a] = attempts[a]]_controlVars
  BY StepMoves, TerminalStays DEF SafeStoreStep
<1>. QED  BY <1>1, InitInv, StepInv, PTL DEF Spec, TerminalIsFinal

-----------------------------------------------------------------------------
(* The event log                                                            *)

LEMMA CommitLogs ==
  ASSUME IInvType, ErrorsAreFinal, CollectAfterSuccess, NEW w \in Workers, Commit(w)
  PROVE  LogMoves
<1>1. cur[w] \in Claim /\ cur[w].key \in Keys /\ StoreTypeOK
  BY HeldCommand DEF Commit
<1>2. Op(w) = "collect" => cur[w].key = "collect"
  BY <1>1, OperationOfKey DEF Op
<1>3. None # "collect"
  BY NoneAssumption DEF WorkerKeys
<1>4. CASE PrepareCollection(w, cur[w], seen[w], reading[w])
  BY <1>1, <1>4, PrepareCollectionLogs
<1>5. CASE /\ Op(w) = "collect"
           /\ \E next \in {"collected", "failed"} :
                 CommitCollectionCompletion(w, cur[w], reading[w], next)
  BY <1>1, <1>2, <1>5, CommitCollectionCompletionLogs
<1>6. ASSUME NEW next, NEW nextKey \in {"sync", "reconcile", None}, NEW error \in {"none", "failure"},
             CommitCommandOutcome(w, cur[w], seen[w], reading[w], next, nextKey, error)
      PROVE  LogMoves
  BY <1>1, <1>3, <1>6, CommitCommandOutcomeLogs
<1>. QED  BY <1>4, <1>5, <1>6, CommitTransaction

LEMMA StepLogs ==
  ASSUME IInvType, ErrorsAreFinal, CollectAfterSuccess, [Next]_vars
  PROVE  LogMoves
<1>0. TypeInv
  BY DEF IInvType
<1>1. ASSUME NEW w \in Workers, ControlStep(w)  PROVE LogMoves
  BY <1>0, <1>1, ControlStepLogs
<1>2. ASSUME NEW w \in Workers, Commit(w)  PROVE LogMoves
  BY <1>2, CommitLogs
<1>3. CASE EnvironmentStep
  BY <1>0, <1>3, EnvironmentStepLogs
<1>4. CASE UNCHANGED storeVars
  BY <1>4, UnchangedStoreLogs
<1>5. ASSUME NEW w \in Workers,
             \/ Dispatch(w) \/ ReadSequences(w) \/ CommitRefused(w)
             \/ ResolveCancelProgressionRace(w) \/ YieldToCancellation(w)
      PROVE  UNCHANGED storeVars
  BY <1>5, RefusalShape DEF Dispatch, ReadSequences
<1>. QED
  BY <1>1, <1>2, <1>3, <1>4, <1>5 DEF Next, WorkerStep, vars, controlVars

LEMMA LogsStep == IInvType /\ LogInv /\ [Next]_vars => IInvType' /\ LogInv'
<1>. SUFFICES ASSUME IInvType, LogInv, [Next]_vars PROVE IInvType' /\ LogInv'
  OBVIOUS
<1>1. IInvType'
  BY StepType
<1>2. LogMoves
  BY StepLogs DEF LogInv
<1>. QED
  BY <1>1, <1>2, LogInvStep DEF LogMoves, IInvType, TypeInv, ControlTypeOK

(* Claims, late answers, retries, refusals, crashes and cancellations never *)
(* tear the event log from its attempt: it begins with the creation, each   *)
(* event departs where the previous one arrived, the last one arrives at    *)
(* the stored state, and the state version counts its transitions.          *)
THEOREM LogIsHistory == Spec => []EventLogIsHistory
<1>1. Init => IInvType /\ LogInv
  BY InitType, LogInvInit DEF Init
<1>2. LogInv => EventLogIsHistory
  BY DEF LogInv
<1>. QED  BY <1>1, <1>2, LogsStep, PTL DEF Spec

(* Exactly once: however often a command is leased, dispatched, answered or *)
(* retried, it leaves one event if it succeeded or failed its attempt, and  *)
(* none otherwise.                                                          *)
THEOREM OutcomesLoggedOnce == Spec => []OutcomesAreLoggedOnce
<1>1. Init => IInvType /\ LogInv
  BY InitType, LogInvInit DEF Init
<1>2. LogInv => OutcomesAreLoggedOnce
  BY DEF LogInv
<1>. QED  BY <1>1, <1>2, LogsStep, PTL DEF Spec

-----------------------------------------------------------------------------
(* Collections, and the lifecycle an attempt promises.                      *)

(* A collect is leased only once its attempt has succeeded, so it is never  *)
(* refused for the state of its attempt.                                    *)
CollectsLeasedAfterSuccess ==
    \A w \in Workers :
        /\ \A c \in batch[w] : c.key = "collect" => attempts[c.attempt].state = "succeeded"
        /\ pc[w] \in {"race", "yield", "terminalize"} => cur[w].key # "collect"

CollectionInvariant == IInv /\ CollectInv /\ CollectsLeasedAfterSuccess

-----------------------------------------------------------------------------
(* Steps that the lifecycle cannot see.                                     *)

Implements == [Lifecycle!Next]_(Lifecycle!vars)

(* What a step must establish: the invariant, and a step of the lifecycle.  *)
Refines == CollectInv' /\ Implements

LEMMA IntentsKeptMeans ==
  ASSUME IntentsKept
  PROVE  \A a \in Attempts : HasCancelIntent(a)' <=> HasCancelIntent(a)
BY CancelKeysAreKeys DEF IntentsKept, HasCancelIntent, Present

LEMMA IntentsUnchanged ==
  ASSUME IntentsKept
  PROVE  [a \in Attempts |-> HasCancelIntent(a)]' = [a \in Attempts |-> HasCancelIntent(a)]
<1>1. \A a \in Attempts : HasCancelIntent(a)' = HasCancelIntent(a)
  BY IntentsKeptMeans DEF HasCancelIntent
<1>. QED  BY <1>1, Zenon

LEMMA QuietRefines ==
  ASSUME CollectInv, QuietStep
  PROVE  Refines
<1>1. CollectInv'
  BY QuietCollects
<1>2. UNCHANGED Lifecycle!vars
  BY IntentsUnchanged DEF QuietStep, Lifecycle!vars
<1>. QED  BY <1>1, <1>2 DEF Refines, Implements

-----------------------------------------------------------------------------
(* Steps of the lifecycle                                                   *)

(* commitCommandOutcome: submit, run, fail or cancel.                       *)
LEMMA CommitCommandOutcomeRefines ==
  ASSUME StoreTypeOK, CollectInv, NEW w \in Workers, NEW c \in Claim, c.key # "collect",
         NEW sn, NEW read, NEW next \in {"submitted", "running", "cancelled", "failed"},
         NEW nextKey \in {"sync", "reconcile", None}, NEW error,
         CommitCommandOutcome(w, c, sn, read, next, nextKey, error)
  PROVE  Refines
<1>. DEFINE x == c.attempt
<1>1. x \in Attempts /\ c.key \in Keys
  BY DEF Claim
<1>2. <<attempts[x].state, next>> \in ValidAttemptTransition
  BY DEF CommitCommandOutcome, ValidAttemptUpdate
<1>3. /\ attempts[x].state \in LifecycleStates /\ ~ IsTerminal(attempts[x].state)
      /\ next = "submitted" => attempts[x].state \in {"prepared", "submitted"}
      /\ next = "running" => attempts[x].state \in {"submitted", "running"}
  BY <1>2, TransitionShape
<1>4. /\ attempts'[x].state = next
      /\ \A a \in Attempts \ {x} : attempts'[a] = attempts[a]
  BY <1>1 DEF CommitCommandOutcome, Transitioned, StoreTypeOK
<1>5. next = "cancelled" => c.key \in CancelKeys
  BY <1>1 DEF CommitCommandOutcome, CommandOutcomeTransition, Operation, Keys, WorkerKeys
<1>6. commands[x][c.key].state = "claimed"
  BY DEF CommitCommandOutcome, RequireClaimedCommand
<1>7. ASSUME NEW a \in Attempts, NEW k \in CancelKeys \cup {"collect"}
      PROVE  \/ commands'[a][k] = commands[a][k]
             \/ /\ a = x /\ k = c.key
                /\ commands'[a][k].state \in {"succeeded", "terminal"}
  <2>1. k \in Keys /\ k # nextKey
    BY CancelKeysAreKeys, CollectIsKey, KeysAssumption, NoneAssumption DEF WorkerKeys
  <2>2. CASE a = x /\ k = c.key
    BY <1>1, <2>1, <2>2 DEF CommitCommandOutcome, StoreTypeOK, Completed
  <2>3. CASE ~ (a = x /\ k = c.key)
    BY <1>1, <2>1, <2>3 DEF CommitCommandOutcome, StoreTypeOK
  <2>. QED  BY <2>2, <2>3
<1>8. IntentsKept
  BY <1>6, <1>7 DEF IntentsKept
<1>10. UNCHANGED collections
  BY DEF CommitCommandOutcome
<1>11. CollectInv'
  BY CommitCommandOutcomeCollects
<1>12. Implements
  <2>. DEFINE st == [a \in Attempts |-> attempts[a].state]
              canc == [a \in Attempts |-> HasCancelIntent(a)]
  <2>1. st' = [st EXCEPT ![x] = next]
    BY <1>1, <1>4
  <2>2. canc' = canc
    BY <1>8, IntentsUnchanged
  <2>3. CASE next = "submitted"
    BY <1>1, <1>3, <1>10, <2>1, <2>2, <2>3
       DEF Implements, Lifecycle!Next, Lifecycle!vars, Lifecycle!Submit, Lifecycle!Move
  <2>4. CASE next = "running"
    BY <1>1, <1>3, <1>10, <2>1, <2>2, <2>4
       DEF Implements, Lifecycle!Next, Lifecycle!vars, Lifecycle!Run, Lifecycle!Move
  <2>5. CASE next = "failed"
    BY <1>1, <1>3, <1>10, <2>1, <2>2, <2>5
       DEF Implements, Lifecycle!Next, Lifecycle!Fail, Lifecycle!Terminal, Lifecycle!Move,
           IsTerminal
  <2>6. CASE next = "cancelled"
    <3>1. HasCancelIntent(x)
      BY <1>1, <1>5, <1>6, <2>6 DEF HasCancelIntent, Present
    <3>2. CASE attempts[x].state = "prepared"
      <4>1. canc' = [canc EXCEPT ![x] = TRUE]
        BY <1>1, <2>2, <3>1
      <4>. QED
        BY <1>1, <1>10, <2>1, <2>6, <3>2, <4>1
           DEF Implements, Lifecycle!Next, Lifecycle!CancelPrepared, Lifecycle!Move
    <3>3. CASE attempts[x].state \in {"submitted", "running"}
      BY <1>1, <1>10, <2>1, <2>2, <2>6, <3>1, <3>3
         DEF Implements, Lifecycle!Next, Lifecycle!Cancel, Lifecycle!Move
    <3>. QED  BY <1>3, <3>2, <3>3 DEF IsTerminal, LifecycleStates
  <2>. QED  BY <2>3, <2>4, <2>5, <2>6
<1>. QED  BY <1>11, <1>12 DEF Refines

(* prepareCollection: succeed, with the collection, unless cancelling.      *)
LEMMA PrepareCollectionRefines ==
  ASSUME StoreTypeOK, CollectInv, SettledCancelIsOver,
         NEW w \in Workers, NEW c \in Claim, c.key \notin CancelKeys,
         NEW sn, NEW read, PrepareCollection(w, c, sn, read)
  PROVE  Refines
<1>. DEFINE x == c.attempt
<1>1. x \in Attempts /\ c.key \in Keys
  BY DEF Claim
<1>2. /\ <<attempts[x].state, "succeeded">> \in ValidAttemptTransition
      /\ ~ ActiveCancel(x) /\ "collect" \notin Present(x) /\ collections[x] = "none"
      /\ commands[x][c.key].state = "claimed"
      /\ collections' = [collections EXCEPT ![x] = "prepared"]
  BY DEF PrepareCollection, ValidAttemptUpdate, RequireClaimedCommand
<1>3. attempts[x].state \in {"submitted", "running"} /\ ~ IsTerminal(attempts[x].state)
  BY <1>2, TransitionShape
<1>4. /\ attempts'[x].state = "succeeded"
      /\ \A a \in Attempts \ {x} : attempts'[a] = attempts[a]
  BY <1>1 DEF PrepareCollection, Transitioned, StoreTypeOK
<1>5. commands[x]["collect"].state = "absent" /\ c.key # "collect"
  BY <1>2, CollectIsKey DEF Present
<1>6. /\ \A a \in Attempts, k \in CancelKeys : commands'[a][k] = commands[a][k]
      /\ \A a \in Attempts \ {x} : commands'[a] = commands[a]
      /\ commands'[x]["collect"] = NewCommand
  BY <1>1, <1>5, CancelKeysAreKeys, CollectIsKey DEF PrepareCollection, StoreTypeOK
<1>7. CollectInv'
  BY PrepareCollectionCollects
<1>8. ~ HasCancelIntent(x)
  <2>. SUFFICES ASSUME NEW k \in CancelKeys, commands[x][k].state # "absent"  PROVE FALSE
    BY DEF HasCancelIntent, Present
  <2>1. IsSettled(commands[x][k])
    BY <1>1, <1>2, CancelKeysAreKeys DEF ActiveCancel, IsActive, IsSettled, StoreTypeOK, Command
  <2>. QED  BY <1>1, <1>3, <2>1 DEF SettledCancelIsOver
<1>9. Implements
  <2>. DEFINE st == [a \in Attempts |-> attempts[a].state]
              canc == [a \in Attempts |-> HasCancelIntent(a)]
  <2>1. st' = [st EXCEPT ![x] = "succeeded"]
    BY <1>1, <1>4
  <2>2. IntentsKept
    BY <1>6 DEF IntentsKept
  <2>3. canc' = canc
    BY <2>2, IntentsUnchanged
  <2>. QED
    BY <1>1, <1>2, <1>3, <1>8, <2>1, <2>3
       DEF Implements, Lifecycle!Next, Lifecycle!Succeed, Lifecycle!Move
<1>. QED  BY <1>7, <1>9 DEF Refines

(* commitCollectionCompletion: collect.                                     *)
LEMMA CommitCollectionCompletionRefines ==
  ASSUME StoreTypeOK, CollectInv, NEW w \in Workers, NEW c \in Claim, c.key = "collect",
         NEW read, NEW next \in {"collected", "failed"},
         CommitCollectionCompletion(w, c, read, next)
  PROVE  Refines
<1>. DEFINE x == c.attempt
<1>1. x \in Attempts /\ c.key \in Keys
  BY DEF Claim
<1>2. /\ commands[x]["collect"].state = "claimed" /\ UNCHANGED attempts
      /\ collections' = [collections EXCEPT ![x] = next]
  BY DEF CommitCollectionCompletion, RequireClaimedCommand
<1>3. collections[x] = "prepared"
  BY <1>1, <1>2 DEF CollectInv, IsActive
<1>4. /\ \A a \in Attempts, k \in CancelKeys : commands'[a][k] = commands[a][k]
      /\ \A a \in Attempts \ {x} : commands'[a] = commands[a]
      /\ commands'[x]["collect"].state \in {"succeeded", "terminal"}
  BY <1>1, CancelKeysAreKeys, CollectIsKey
     DEF CommitCollectionCompletion, StoreTypeOK, Completed
<1>5. CollectInv'
  BY CommitCollectionCompletionCollects
<1>6. Implements
  <2>. DEFINE st == [a \in Attempts |-> attempts[a].state]
              canc == [a \in Attempts |-> HasCancelIntent(a)]
  <2>1. st' = st
    BY <1>2
  <2>2. IntentsKept
    BY <1>4 DEF IntentsKept
  <2>3. canc' = canc
    BY <2>2, IntentsUnchanged
  <2>. QED
    BY <1>1, <1>2, <1>3, <2>1, <2>3 DEF Implements, Lifecycle!Next, Lifecycle!Collect
<1>. QED  BY <1>5, <1>6 DEF Refines

(* enqueueControlCommand: cancel what is prepared, or store an intent.      *)
LEMMA EnqueueRefines ==
  ASSUME StoreTypeOK, CollectInv, NEW x \in Attempts, NEW y \in OperatorKeys, NEW sn, NEW read,
         CancelBeforeSubmit(x, y, sn, read) \/ EnqueueIntent(x, y, sn, read),
         y \in CancelKeys => ~ IsTerminal(attempts[x].state)
  PROVE  Refines
<1>. DEFINE st == [a \in Attempts |-> attempts[a].state]
            canc == [a \in Attempts |-> HasCancelIntent(a)]
<1>0. /\ y \in Keys /\ y # "collect" /\ y # "submit" /\ "submit" \in Keys
      /\ "submit" \notin CancelKeys
  BY KeysAssumption DEF OperatorKeys, Keys, WorkerKeys
<1>1. ASSUME NEW a \in Attempts, NEW k \in CancelKeys \cup {"collect"}, ~ (a = x /\ k = y)
      PROVE  commands'[a][k] = commands[a][k]
  <2>1. k \in Keys /\ k # "submit"
    BY <1>0, CancelKeysAreKeys, CollectIsKey
  <2>. QED  BY <1>0, <1>1, <2>1 DEF CancelBeforeSubmit, EnqueueIntent, StoreTypeOK
<1>2. commands'[x][y].state # "absent" /\ UNCHANGED collections
  BY <1>0 DEF CancelBeforeSubmit, EnqueueIntent, StoreTypeOK, NewCommand, Completed
<1>3. CollectInv'
  BY EnqueueCollects
<1>4. y \in CancelKeys => canc' = [canc EXCEPT ![x] = TRUE]
  <2>. SUFFICES ASSUME y \in CancelKeys  PROVE canc' = [canc EXCEPT ![x] = TRUE]
    OBVIOUS
  <2>1. HasCancelIntent(x)' = TRUE
    BY <1>0, <1>2 DEF HasCancelIntent, Present
  <2>2. ASSUME NEW a \in Attempts \ {x}  PROVE HasCancelIntent(a)' = HasCancelIntent(a)
    BY <1>1, <2>2, CancelKeysAreKeys DEF HasCancelIntent, Present
  <2>3. \A a \in Attempts : canc'[a] = [canc EXCEPT ![x] = TRUE][a]
    BY <2>1, <2>2
  <2>. QED  BY <2>3
<1>5. y \notin CancelKeys => canc' = canc
  <2>. SUFFICES ASSUME y \notin CancelKeys  PROVE canc' = canc
    OBVIOUS
  <2>1. IntentsKept
    BY <1>1 DEF IntentsKept
  <2>. QED  BY <2>1, IntentsUnchanged
<1>6. CASE CancelBeforeSubmit(x, y, sn, read)
  <2>1. /\ attempts[x].state = "prepared" /\ y \in CancelKeys
        /\ attempts'[x].state = "cancelled"
        /\ \A a \in Attempts \ {x} : attempts'[a] = attempts[a]
    BY <1>6 DEF CancelBeforeSubmit, Transitioned, StoreTypeOK
  <2>3. st' = [st EXCEPT ![x] = "cancelled"]
    BY <2>1
  <2>4. Implements
    BY <1>2, <1>4, <2>1, <2>3
       DEF Implements, Lifecycle!Next, Lifecycle!CancelPrepared, Lifecycle!Move
  <2>. QED  BY <1>3, <2>4 DEF Refines
<1>7. CASE EnqueueIntent(x, y, sn, read)
  <2>1. UNCHANGED attempts
    BY <1>7 DEF EnqueueIntent
  <2>3. st' = st
    BY <2>1, Zenon
  <2>4. CASE y \in CancelKeys
    <3>1. ~ IsTerminal(attempts[x].state)
      BY <2>4
    <3>2. ~ Lifecycle!Terminal(x)
      BY <3>1 DEF Lifecycle!Terminal, IsTerminal
    <3>3. canc' = [canc EXCEPT ![x] = TRUE]
      BY <1>4, <2>4
    <3>4. Lifecycle!RequestCancel(x)
      BY <1>2, <2>3, <3>2, <3>3 DEF Lifecycle!RequestCancel
    <3>. QED  BY <1>3, <3>4 DEF Refines, Implements, Lifecycle!Next
  <2>5. CASE y \notin CancelKeys
    BY <1>2, <1>3, <1>5, <2>3, <2>5 DEF Refines, Implements, Lifecycle!vars
  <2>. QED  BY <2>4, <2>5
<1>. QED  BY <1>6, <1>7

-----------------------------------------------------------------------------
(* Every step of the system refines, and leases and refuses collects only   *)
(* as the invariant says.                                                   *)

CollectBatches ==
    \A w \in Workers : \A c \in batch'[w] :
        \/ c \in batch[w]
        \/ c.attempt \in Attempts /\ commands[c.attempt][c.key].state # "absent"

Refusing == {"race", "yield", "terminalize"}

CollectLabels ==
    \A w \in Workers :
        \/ pc'[w] = pc[w] /\ cur'[w] = cur[w]
        \/ pc'[w] \notin Refusing
        \/ cur'[w].key # "collect"

CollectMoves == CollectBatches /\ CollectLabels

LEMMA CollectsLeasedStep ==
  ASSUME CollectionInvariant, AttemptsMove, CollectMoves
  PROVE  CollectsLeasedAfterSuccess'
<1>. SUFFICES ASSUME NEW w \in Workers
              PROVE  /\ \A c \in batch'[w] :
                           c.key = "collect" => attempts'[c.attempt].state = "succeeded"
                     /\ pc'[w] \in Refusing => cur'[w].key # "collect"
  BY DEF CollectsLeasedAfterSuccess, Refusing
<1>1. ASSUME NEW c \in batch'[w], c.key = "collect"
      PROVE  attempts'[c.attempt].state = "succeeded"
  <2>1. c.attempt \in Attempts
    BY DEF CollectMoves, CollectBatches, CollectionInvariant, IInv, IInvType, TypeInv,
           ControlTypeOK, Claim
  <2>2. attempts[c.attempt].state = "succeeded"
    BY <1>1, <2>1
       DEF CollectMoves, CollectBatches, CollectionInvariant, CollectsLeasedAfterSuccess, CollectInv
  <2>. QED  BY <2>1, <2>2, TerminalStays DEF IsTerminal
<1>2. pc'[w] \in Refusing => cur'[w].key # "collect"
  BY DEF CollectMoves, CollectLabels, CollectionInvariant, CollectsLeasedAfterSuccess, Refusing
<1>. QED  BY <1>1, <1>2

LEMMA ProceedCollects ==
  ASSUME ControlTypeOK, NEW w \in Workers, Proceed(w) \/ Abort(w)
  PROVE  CollectMoves
BY DEF ControlTypeOK, Proceed, Abort, Forget, Goto, CollectMoves, CollectBatches, CollectLabels,
       Refusing

LEMMA GotoCollects ==
  ASSUME ControlTypeOK, NEW w \in Workers, NEW label, Goto(w, label), UNCHANGED <<batch, cur>>,
         label \in Refusing => cur[w].key # "collect"
  PROVE  CollectMoves
BY DEF ControlTypeOK, Goto, CollectMoves, CollectBatches, CollectLabels

LEMMA ClaimsArePresent ==
  ASSUME NEW cancels \in BOOLEAN, NEW c \in ClaimsOf(Ready(cancels))
  PROVE  c.attempt \in Attempts /\ commands[c.attempt][c.key].state # "absent"
<1>1. PICK p \in Ready(cancels) :
        c = [attempt |-> p[1], key |-> p[2], lease |-> commands[p[1]][p[2]].lease + 1]
  BY DEF ClaimsOf
<1>2. c.attempt = p[1] /\ c.key = p[2] /\ p[1] \in Attempts /\ CommandReady(p[1], p[2])
  BY <1>1 DEF Ready
<1>. QED  BY <1>2 DEF CommandReady

LEMMA ControlStepRefines ==
  ASSUME CollectionInvariant, NEW w \in Workers, ControlStep(w)
  PROVE  Refines /\ CollectMoves
<1>0. /\ IInvType /\ ControlTypeOK /\ StoreTypeOK /\ CollectInv
  BY DEF CollectionInvariant, IInv, IInvType, TypeInv, ControlTypeOK
<1>1. CASE ClaimCancellations(w)
  <2>1. QuietStep
    BY <1>0, <1>1, ClaimCommandsQuiet DEF ClaimCancellations
  <2>2. CollectMoves
    BY <1>0, <1>1, ClaimsArePresent
       DEF ClaimCancellations, Goto, CollectMoves, CollectBatches, CollectLabels, Refusing,
           ControlTypeOK
  <2>. QED  BY <1>0, <2>1, <2>2, QuietRefines
<1>2. CASE ClaimProgressions(w)
  <2>1. QuietStep
    BY <1>0, <1>2, ClaimCommandsQuiet DEF ClaimProgressions
  <2>2. CollectMoves
    BY <1>0, <1>2, ClaimsArePresent
       DEF ClaimProgressions, Goto, CollectMoves, CollectBatches, CollectLabels, Refusing,
           ControlTypeOK
  <2>. QED  BY <1>0, <2>1, <2>2, QuietRefines
<1>3. CASE Take(w)
  <2>1. PICK c \in batch[w] :
           /\ cur' = [cur EXCEPT ![w] = c]
           /\ batch' = [batch EXCEPT ![w] = @ \ {c}]
           /\ Goto(w, IF CommandCanRunFromAttempt(Operation(c.key), attempts[c.attempt].state)
                      THEN "heartbeat" ELSE "terminalize")
    BY <1>3 DEF Take
  <2>2. c.key \in Keys /\ cur'[w] = c
    BY <1>0, <2>1 DEF ControlTypeOK, Claim
  <2>3. c.key = "collect" => Goto(w, "heartbeat")
    BY <2>1, <2>2, OperationOfKey
       DEF CollectionInvariant, CollectsLeasedAfterSuccess, CommandCanRunFromAttempt
  <2>4. CollectMoves
    BY <1>0, <2>1, <2>2, <2>3
       DEF CollectMoves, CollectBatches, CollectLabels, Refusing, Goto, ControlTypeOK
  <2>. QED  BY <1>0, <1>3, <2>4, UnchangedStoreQuiet, QuietRefines DEF Take
<1>4. CASE Heartbeat(w)
  <2>1. CollectMoves
    BY <1>0, <1>4, ProceedCollects, GotoCollects DEF Heartbeat, Refusing
  <2>. QED  BY <1>0, <1>4, <2>1, UnchangedStoreQuiet, QuietRefines DEF Heartbeat
<1>5. CASE Release(w)
  <2>1. CollectMoves
    BY <1>0, <1>5, ProceedCollects DEF Release
  <2>2. cur[w] \in Claim
    BY <1>0, <1>5, HeldCommand DEF Release
  <2>. QED
    BY <1>0, <1>5, <2>1, <2>2, ReleaseCommandQuiet, UnchangedStoreQuiet, QuietRefines DEF Release
<1>6. CASE Terminalize(w)
  <2>1. CollectMoves
    BY <1>0, <1>6, ProceedCollects DEF Terminalize
  <2>2. cur[w] \in Claim /\ cur[w].key # "collect"
    BY <1>0, <1>6, HeldCommand DEF Terminalize, CollectionInvariant, CollectsLeasedAfterSuccess
  <2>. QED
    BY <1>0, <1>6, <2>1, <2>2, TerminalizeCommandQuiet, UnchangedStoreQuiet, QuietRefines
       DEF Terminalize
<1>. QED  BY <1>1, <1>2, <1>3, <1>4, <1>5, <1>6 DEF ControlStep

LEMMA CommitRefines ==
  ASSUME CollectionInvariant, NEW w \in Workers, Commit(w)
  PROVE  Refines
<1>1. /\ cur[w] \in Claim /\ cur[w].key \in Keys /\ StoreTypeOK /\ CollectInv /\ IInvType
      /\ SettledCancelIsOver
  BY HeldCommand DEF Commit, CollectionInvariant, IInv, CancelInv
<1>2. /\ Op(w) = "collect" <=> cur[w].key = "collect"
      /\ Op(w) = "cancel" <=> cur[w].key \in CancelKeys
  BY <1>1, OperationOfKey DEF Op
<1>3. CASE /\ Op(w) = "reconcile"
           /\ PrepareCollection(w, cur[w], seen[w], reading[w])
  BY <1>1, <1>2, <1>3, PrepareCollectionRefines
<1>4. CASE /\ Op(w) = "collect"
           /\ \E next \in {"collected", "failed"} :
                 CommitCollectionCompletion(w, cur[w], reading[w], next)
  BY <1>1, <1>2, <1>4, CommitCollectionCompletionRefines
<1>5. ASSUME Op(w) # "collect",
             NEW next \in {"submitted", "running", "cancelled", "failed"},
             NEW nextKey \in {"sync", "reconcile", None}, NEW error \in {"none", "failure"},
             CommitCommandOutcome(w, cur[w], seen[w], reading[w], next, nextKey, error)
      PROVE  Refines
  BY <1>1, <1>2, <1>5, CommitCommandOutcomeRefines
<1>. QED  BY <1>1, <1>3, <1>4, <1>5, CommitTransaction

LEMMA RefusalCollects ==
  ASSUME CollectionInvariant, NEW w \in Workers,
         CommitRefused(w) \/ ResolveCancelProgressionRace(w) \/ YieldToCancellation(w)
  PROVE  CollectMoves
<1>0. IInvType /\ ControlTypeOK
  BY DEF CollectionInvariant, IInv, IInvType, TypeInv
<1>1. CASE Abort(w)
  BY <1>0, <1>1, ProceedCollects
<1>2. CASE ~ Abort(w)
  <2>1. PICK label \in {"race", "yield", "release", "terminalize"} :
           Goto(w, label) /\ UNCHANGED <<batch, cur>>
    BY <1>2, RefusalShape
  <2>2. cur[w].key # "collect"
    <3>1. CASE CommitRefused(w)
      BY <1>0, <1>2, <3>1, HeldCommand, OperationOfKey DEF CommitRefused, Op
    <3>2. CASE ResolveCancelProgressionRace(w) \/ YieldToCancellation(w)
      BY <3>2 DEF ResolveCancelProgressionRace, YieldToCancellation, CollectionInvariant,
                  CollectsLeasedAfterSuccess
    <3>. QED  BY <3>1, <3>2
  <2>. QED  BY <1>0, <2>1, <2>2, GotoCollects
<1>. QED  BY <1>1, <1>2

LEMMA EnvironmentStepRefines ==
  ASSUME CollectionInvariant, EnvironmentStep
  PROVE  Refines /\ CollectMoves
<1>0. /\ ControlTypeOK /\ StoreTypeOK /\ CollectInv /\ RequestsAreSnapshots
  BY DEF CollectionInvariant, IInv, IInvType, TypeInv, ControlTypeOK, CancelInv
<1>1. ASSUME NEW w \in Workers, Crash(w)
      PROVE  Refines /\ CollectMoves
  BY <1>0, <1>1, ProceedCollects, UnchangedStoreQuiet, QuietRefines DEF Crash
<1>2. UNCHANGED workerVars => CollectMoves
  BY DEF workerVars, CollectMoves, CollectBatches, CollectLabels
<1>3. ASSUME NEW x \in Attempts, NEW y \in OperatorKeys, RequestStep(x, y)
      PROVE  Refines /\ CollectMoves
  <2>1. UNCHANGED workerVars
    BY <1>3 DEF RequestStep, CancelExecutionAttempt, ReconcileExecutionAttempt,
                EnqueueControlCommand, RequestFails
  <2>2. CASE EnqueueControlCommand(x, y)
    <3>. DEFINE sn == requests[x][y].seen
                read == requests[x][y].read
    <3>1. CancelBeforeSubmit(x, y, sn, read) \/ EnqueueIntent(x, y, sn, read)
      BY <2>2 DEF EnqueueControlCommand
    <3>2. sn.version = attempts[x].version
      BY <3>1 DEF CancelBeforeSubmit, EnqueueIntent, EnqueueChecks
    <3>3. y \in CancelKeys => ~ IsTerminal(attempts[x].state)
      BY <2>2, <3>2, <1>0 DEF EnqueueControlCommand, RequestsAreSnapshots
    <3>. QED  BY <1>0, <1>2, <2>1, <3>1, <3>3, EnqueueRefines
  <2>3. CASE UNCHANGED storeVars
    BY <1>0, <1>2, <2>1, <2>3, UnchangedStoreQuiet, QuietRefines
  <2>. QED
    BY <1>3, <2>2, <2>3
       DEF RequestStep, CancelExecutionAttempt, ReconcileExecutionAttempt, RequestFails
<1>4. ASSUME NEW x \in Attempts, NEW y \in Keys,
             AbandonedLeaseExpires(x, y) \/ LateLeaseExpires(x, y)
      PROVE  Refines /\ CollectMoves
  <2>1. Expire(x, y)
    BY <1>4 DEF AbandonedLeaseExpires, LateLeaseExpires
  <2>. QED  BY <1>0, <1>2, <2>1, ExpireQuiet, QuietRefines DEF Expire
<1>. QED  BY <1>1, <1>3, <1>4 DEF EnvironmentStep

LEMMA StepRefines ==
  ASSUME CollectionInvariant, [Next]_vars
  PROVE  Refines /\ CollectMoves
<1>. DEFINE Goal == Refines /\ CollectMoves
<1>0. IInvType /\ ControlTypeOK /\ CollectInv
  BY DEF CollectionInvariant, IInv, IInvType, TypeInv
<1>1. ASSUME NEW w \in Workers, ControlStep(w)  PROVE Goal
  BY <1>1, ControlStepRefines
<1>2. ASSUME NEW w \in Workers, Dispatch(w)  PROVE Goal
  <2>1. PICK label \in {"release", "read"} : Goto(w, label) /\ UNCHANGED cur
    BY <1>2, DispatchLabel
  <2>2. CollectMoves
    BY <1>0, <1>2, <2>1, GotoCollects DEF Dispatch, Refusing
  <2>. QED  BY <1>0, <1>2, <2>2, UnchangedStoreQuiet, QuietRefines DEF Dispatch
<1>3. ASSUME NEW w \in Workers, ReadSequences(w)  PROVE Goal
  <2>1. CollectMoves
    BY <1>0, <1>3, ProceedCollects, GotoCollects DEF ReadSequences, Refusing
  <2>. QED  BY <1>0, <1>3, <2>1, UnchangedStoreQuiet, QuietRefines DEF ReadSequences
<1>4. ASSUME NEW w \in Workers, Commit(w)  PROVE Goal
  BY <1>0, <1>4, CommitRefines, ProceedCollects DEF Commit
<1>5. ASSUME NEW w \in Workers,
             CommitRefused(w) \/ ResolveCancelProgressionRace(w) \/ YieldToCancellation(w)
      PROVE  Goal
  BY <1>0, <1>5, RefusalCollects, RefusalShape, UnchangedStoreQuiet, QuietRefines
<1>6. CASE EnvironmentStep
  BY <1>6, EnvironmentStepRefines
<1>7. CASE UNCHANGED vars
  <2>1. CollectMoves
    BY <1>7 DEF vars, controlVars, workerVars, CollectMoves, CollectBatches, CollectLabels
  <2>2. UNCHANGED storeVars
    BY <1>7 DEF vars, controlVars
  <2>. QED  BY <1>0, <2>1, <2>2, UnchangedStoreQuiet, QuietRefines
<1>. QED  BY <1>1, <1>2, <1>3, <1>4, <1>5, <1>6, <1>7 DEF Next, WorkerStep

LEMMA InitRefines == Init => CollectionInvariant /\ Lifecycle!Init
<1>. SUFFICES ASSUME Init  PROVE CollectionInvariant /\ Lifecycle!Init
  OBVIOUS
<1>1. /\ \A a \in Attempts : attempts[a].state = "prepared" /\ collections[a] = "none"
      /\ \A a \in Attempts, k \in CancelKeys \cup {"collect"} : commands[a][k].state = "absent"
      /\ collections = [a \in Attempts |-> "none"]
      /\ \A w \in Workers : batch[w] = {} /\ pc[w] = "idle"
  BY CancelKeysAreKeys, CollectIsKey, KeysAssumption
     DEF Init, ControlInit, StoreInit, WorkerKeys, AbsentCommand, NewCommand
<1>2. CollectInv /\ CollectsLeasedAfterSuccess
  BY <1>1 DEF CollectInv, CollectsLeasedAfterSuccess, IsActive
<1>3. \A a \in Attempts : HasCancelIntent(a) = FALSE
  BY <1>1 DEF HasCancelIntent, Present
<1>4. Lifecycle!Init
  BY <1>1, <1>3 DEF Lifecycle!Init
<1>. QED  BY <1>2, <1>4, InitInv DEF CollectionInvariant

LEMMA StepCollects == CollectionInvariant /\ [Next]_vars => CollectionInvariant' /\ Implements
<1>. SUFFICES ASSUME CollectionInvariant, [Next]_vars
              PROVE  CollectionInvariant' /\ Implements
  OBVIOUS
<1>1. IInv'
  BY StepInv DEF CollectionInvariant
<1>2. CollectsLeasedAfterSuccess'
  BY StepMoves, StepRefines, CollectsLeasedStep DEF CollectionInvariant, SafeStoreStep
<1>. QED  BY <1>1, <1>2, StepRefines DEF CollectionInvariant, Refines

-----------------------------------------------------------------------------
(* An attempt succeeds exactly when its collection is prepared, and its     *)
(* collect command is settled exactly when the collection is: no crash,     *)
(* refusal or lost lease comes between the two.                             *)
THEOREM SuccessIsCollected == Spec => []CollectionFollowsSuccess
<1>1. CollectionInvariant => CollectionFollowsSuccess
  <2>. SUFFICES ASSUME CollectionInvariant, NEW a \in Attempts
                PROVE  /\ collections[a] = "none" <=> attempts[a].state # "succeeded"
                       /\ collections[a] \in {"collected", "failed"} <=>
                             IsSettled(commands[a]["collect"])
    BY DEF CollectionFollowsSuccess
  <2>1. /\ collections[a] \in CollectionStates
        /\ commands[a]["collect"].state \in {"absent", "pending", "claimed", "succeeded", "terminal"}
    BY CollectIsKey
       DEF CollectionInvariant, IInv, IInvType, TypeInv, ControlTypeOK, StoreTypeOK, Command
  <2>. QED
    BY <2>1 DEF CollectionInvariant, CollectInv, CollectionStates, IsActive, IsSettled
<1>. QED  BY <1>1, InitRefines, StepCollects, PTL DEF Spec

(* The workers implement the lifecycle of an attempt: behind leases,        *)
(* retries, crashes and refusals, every step an attempt can be seen to take *)
(* is one transition of AttemptLifecycle.                                   *)
THEOREM SimulationImplementsLifecycle == Spec => ImplementsLifecycle
<1>1. CollectionInvariant /\ [Next]_vars => [Lifecycle!Next]_(Lifecycle!vars)
  BY StepCollects DEF Implements
<1>. QED
  BY <1>1, InitRefines, StepCollects, PTL DEF Spec, ImplementsLifecycle, Lifecycle!Spec
=============================================================================
