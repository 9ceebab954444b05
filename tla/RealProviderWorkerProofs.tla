------------------------ MODULE RealProviderWorkerProofs ------------------------
(***************************************************************************)
(* Theorems about the real-provider worker: types, the finality of         *)
(* terminal attempts, that at most one job is created for an attempt, that *)
(* what an attempt claims about its job is true, and that the event log is *)
(* the history of its attempt and holds each outcome once, for any number  *)
(* of attempts, workers, keys, retries, crashes and lost answers.          *)
(***************************************************************************)
EXTENDS RealProviderWorker, CommandControlProofs

-----------------------------------------------------------------------------
(* Type correctness                                                         *)

ProviderTypeOK ==
    /\ jobs \in [Attempts -> JobStates]
    /\ creates \in [Attempts -> Nat]
    /\ overdue \in [Attempts -> BOOLEAN]

IInvType == TypeInv /\ ProviderTypeOK

LEMMA InitType == Init => IInvType
BY ControlInitType DEF Init, IInvType, ProviderTypeOK, JobStates

(* What a worker past `take' holds.                                         *)
LEMMA HeldCommand ==
  ASSUME IInvType, NEW w \in Workers, pc[w] \notin {"idle", "progressions", "take"}
  PROVE  /\ cur[w] \in Claim /\ cur[w].attempt \in Attempts /\ cur[w].key \in Keys
         /\ Op(w) \in {"submit", "sync", "reconcile", "collect", "cancel"}
         /\ StoreTypeOK
<1>1. cur[w] \in Claim /\ cur[w].attempt \in Attempts /\ cur[w].key \in Keys /\ StoreTypeOK
  BY DEF IInvType, TypeInv, HoldsCommand, ControlTypeOK, Claim
<1>. QED  BY <1>1, OperationOfKey DEF Op

(* Where a worker goes once it has observed the job, or met a fault.        *)
LEMMA ObserveResolves ==
  ASSUME NEW w \in Workers, NEW job, Observe(w, job)
  PROVE  \E outcome \in {"response", "failure", "fault"},
            label \in {"settle", "read", "poll", "cleanup"} :
            /\ Resolve(w, outcome, label) /\ (outcome # "response" => label = "read")
            /\ label = "settle" => Op(w) = "cancel"
<1>1. CASE Op(w) = "cancel" /\ job \in {"succeeded", "stopped"}
  BY <1>1 DEF Observe
<1>2. CASE Op(w) = "collect"
  <2>1. Resolve(w, IF job = "succeeded" THEN "response" ELSE "fault", "read")
    BY <1>2 DEF Observe
  <2>. QED  BY <2>1
<1>3. CASE \/ Op(w) # "collect" /\ job = "failed"
           \/ Op(w) \notin {"collect", "cancel"} /\ job = "stopped"
  BY <1>3 DEF Observe
<1>4. CASE Op(w) = "reconcile" /\ job = "running"
  <2>1. Resolve(w, "response", IF WithinWatchdogDeadline(w) THEN "poll" ELSE "cleanup")
    BY <1>4 DEF Observe
  <2>. QED  BY <2>1
<1>5. CASE /\ Op(w) # "collect" /\ job # "failed"
           /\ Op(w) # "cancel" => job # "stopped"
           /\ ~ (Op(w) = "cancel" /\ job \in {"succeeded", "stopped"})
           /\ ~ (Op(w) = "reconcile" /\ job = "running")
  BY <1>5 DEF Observe
<1>. QED  BY <1>1, <1>2, <1>3, <1>4, <1>5

LEMMA FaultResolves ==
  ASSUME NEW w \in Workers, RetryableFault(w) \/ FinalFault(w)
  PROVE  \E label \in {"release", "read"} : Resolve(w, "fault", label)
BY DEF RetryableFault, FinalFault

(* The steps between a heartbeat and the reading of the sequences: the      *)
(* worker stays with its command and learns something about the job.        *)
ProviderCall(w) == Dispatch(w) \/ CreateJob(w) \/ Recover(w) \/ Cleanup(w) \/ StopJob(w)

LEMMA ProviderCallShape ==
  ASSUME NEW w \in Workers, ProviderCall(w)
  PROVE  /\ pc[w] \in {"dispatch", "create", "recover", "cleanup", "stop"}
         /\ UNCHANGED <<storeVars, batch, cur, seen, reading, requests, boundVars, overdue>>
         /\ \E outcome \in Intents,
               label \in {"settle", "read", "poll", "cleanup", "release", "create", "recover", "stop"} :
               /\ Resolve(w, outcome, label)
               /\ label = "create" => /\ pc[w] = "dispatch" /\ Op(w) = "submit"
                                      /\ CreatePermitted(w)
               /\ label = "settle" => Op(w) = "cancel"
<1>. DEFINE Resolved ==
       \E outcome \in Intents,
          label \in {"settle", "read", "poll", "cleanup", "release", "create", "recover", "stop"} :
          /\ Resolve(w, outcome, label)
          /\ label = "create" => /\ pc[w] = "dispatch" /\ Op(w) = "submit" /\ CreatePermitted(w)
          /\ label = "settle" => Op(w) = "cancel"
<1>a. ASSUME NEW job, Observe(w, job)  PROVE Resolved
  BY <1>a, ObserveResolves DEF Intents
<1>b. ASSUME RetryableFault(w) \/ FinalFault(w)  PROVE Resolved
  BY <1>b, FaultResolves DEF Intents
<1>c. ASSUME NEW outcome \in Intents, NEW label \in {"read", "stop", "recover"},
             Resolve(w, outcome, label)
      PROVE  Resolved
  BY <1>c
<1>1. CASE Dispatch(w)
  <2>1. CASE Op(w) = "submit"
    <3>1. DispatchSubmit(w)
      BY <1>1, <2>1 DEF Dispatch
    <3>2. ASSUME Resolve(w, "response", "create"), CreatePermitted(w)  PROVE Resolved
      BY <1>1, <2>1, <3>2 DEF Dispatch, Intents
    <3>3. Resolved
      BY <3>1, <3>2, <1>a, <1>b DEF DispatchSubmit
    <3>. QED  BY <1>1, <3>3 DEF Dispatch, providerVars
  <2>2. CASE Op(w) # "submit"
    <3>1. DispatchExact(w)
      BY <1>1, <2>2 DEF Dispatch
    <3>2. Resolved
      BY <3>1, <1>a, <1>b, <1>c DEF DispatchExact, Intents
    <3>. QED  BY <1>1, <3>2 DEF Dispatch, providerVars
  <2>. QED  BY <2>1, <2>2
<1>2. CASE CreateJob(w)
  <2>1. Observe(w, "running") \/ Resolve(w, "response", "recover")
    BY <1>2 DEF CreateJob
  <2>2. Resolved
    BY <2>1, <1>a, <1>c DEF Intents
  <2>. QED  BY <1>2, <2>2 DEF CreateJob
<1>3. CASE Recover(w)
  <2>1. Resolved
    BY <1>3, <1>a, <1>b DEF Recover
  <2>. QED  BY <1>3, <2>1 DEF Recover, providerVars
<1>4. CASE Cleanup(w)
  <2>1. Resolved
    BY <1>4, <1>c DEF Cleanup, Intents
  <2>. QED  BY <1>4, <2>1 DEF Cleanup, providerVars
<1>5. CASE StopJob(w)
  <2>1. \/ \E outcome \in {"response", "timeout", "failure"} : Resolve(w, outcome, "read")
        \/ RetryableFault(w) \/ FinalFault(w)
    <3>1. CASE Op(w) = "cancel"
      BY <1>5, <3>1 DEF StopJob
    <3>2. CASE Op(w) # "cancel"
      BY <1>5, <3>2 DEF StopJob
    <3>. QED  BY <3>1, <3>2
  <2>2. Resolved
    BY <2>1, <1>b, <1>c DEF Intents
  <2>. QED  BY <1>5, <2>2 DEF StopJob
<1>. QED  BY <1>1, <1>2, <1>3, <1>4, <1>5 DEF ProviderCall

LEMMA ProviderCallProvider ==
  ASSUME IInvType, NEW w \in Workers, ProviderCall(w)
  PROVE  ProviderTypeOK'
<1>1. cur[w].attempt \in Attempts
  BY ProviderCallShape, HeldCommand
<1>2. CASE CreateJob(w)
  <2>1. PICK accepted \in BOOLEAN :
          /\ jobs' = IF accepted THEN [jobs EXCEPT ![cur[w].attempt] = "running"] ELSE jobs
          /\ creates' = IF accepted THEN [creates EXCEPT ![cur[w].attempt] = @ + 1] ELSE creates
    BY <1>2 DEF CreateJob
  <2>. QED  BY <1>1, <1>2, <2>1 DEF CreateJob, IInvType, ProviderTypeOK, JobStates
<1>3. CASE StopJob(w)
  <2>1. \/ jobs' = jobs
        \/ jobs' = [jobs EXCEPT ![cur[w].attempt] = "stopped"]
        \/ jobs' = [jobs EXCEPT ![cur[w].attempt] = IF @ = "running" THEN "stopped" ELSE @]
    BY <1>3 DEF StopJob
  <2>. QED  BY <1>1, <1>3, <2>1 DEF StopJob, IInvType, ProviderTypeOK, JobStates
<1>4. CASE Dispatch(w) \/ Recover(w) \/ Cleanup(w)
  BY <1>4 DEF Dispatch, Recover, Cleanup, providerVars, IInvType, ProviderTypeOK
<1>. QED  BY <1>2, <1>3, <1>4 DEF ProviderCall

LEMMA ProviderCallType ==
  ASSUME IInvType, NEW w \in Workers, ProviderCall(w)
  PROVE  IInvType'
<1>1. cur[w] \in Claim /\ StoreTypeOK
  BY ProviderCallShape, HeldCommand
<1>2. PICK outcome \in Intents, label \in Labels : Resolve(w, outcome, label)
  BY ProviderCallShape DEF Labels
<1>3. intent' \in [Workers -> Intents] /\ Goto(w, label)
  BY <1>2 DEF Resolve, IInvType, TypeInv, ControlTypeOK
<1>4. UNCHANGED <<storeVars, batch, cur, seen, reading, requests, boundVars>>
  BY ProviderCallShape
<1>5. StoreTypeOK' /\ reading' \in [Workers -> Reading \cup {None}]
  BY <1>1, <1>4 DEF StoreTypeOK, storeVars, IInvType, TypeInv, ControlTypeOK
<1>6. TypeInv'
  BY <1>1, <1>3, <1>4, <1>5, GotoType DEF IInvType
<1>. QED  BY <1>6, ProviderCallProvider DEF IInvType

LEMMA ReadSequencesType ==
  ASSUME IInvType, NEW w \in Workers, ReadSequences(w)
  PROVE  IInvType'
<1>1. cur[w] \in Claim /\ cur[w].attempt \in Attempts /\ StoreTypeOK
  BY HeldCommand DEF ReadSequences
<1>2. StoreTypeOK' /\ ProviderTypeOK' /\ UNCHANGED <<requests, boundVars>>
  BY <1>1 DEF ReadSequences, StoreTypeOK, storeVars, IInvType, ProviderTypeOK, providerVars
<1>3. CASE Abort(w)
  BY <1>2, <1>3, AbortType DEF IInvType, TypeInv, ControlTypeOK, boundVars
<1>4. CASE /\ reading' = [reading EXCEPT ![w] = ReadingOf(cur[w].attempt)]
           /\ Goto(w, "commit")
           /\ UNCHANGED <<batch, cur, seen, intent>>
  <2>1. ReadingOf(cur[w].attempt) \in Reading
    BY <1>1, ReadingType
  <2>2. reading' \in [Workers -> Reading \cup {None}] /\ intent' \in [Workers -> Intents]
    BY <1>4, <2>1 DEF IInvType, TypeInv, ControlTypeOK
  <2>. QED  BY <1>1, <1>2, <1>4, <2>2, GotoType DEF IInvType, Labels
<1>. QED  BY <1>3, <1>4 DEF ReadSequences

(* What Commit does to the store is one of the three commit transactions,   *)
(* and what it writes follows from the outcome the worker intends.          *)
LEMMA CommitTransaction ==
  ASSUME IInvType, NEW w \in Workers, Commit(w)
  PROVE  \/ /\ Op(w) = "reconcile" /\ intent[w] = "response"
            /\ PrepareCollection(w, cur[w], seen[w], reading[w])
         \/ /\ Op(w) = "collect"
            /\ \E next \in {"collected", "failed"} :
                  CommitCollectionCompletion(w, cur[w], reading[w], next)
         \/ \E next \in {"submitted", "running", "cancelled", "failed"},
               nextKey \in {"reconcile", None}, error \in {"none", "failure", "timeout"} :
               /\ CommitCommandOutcome(w, cur[w], seen[w], reading[w], next, nextKey, error)
               /\ next = "submitted" =>
                     Op(w) = "submit" /\ intent[w] = "response" /\ nextKey = "reconcile"
               /\ next = "cancelled" => Op(w) = "cancel" /\ intent[w] = "response"
               /\ error = "timeout" => intent[w] = "timeout"
<1>1. Op(w) \in {"submit", "sync", "reconcile", "collect", "cancel"}
  BY HeldCommand DEF Commit
<1>2. CASE intent[w] = "response"
  <2>1. CommitResponse(w)
    BY <1>2 DEF Commit
  <2>2. CASE Op(w) = "reconcile"
    BY <1>2, <2>1, <2>2 DEF CommitResponse
  <2>3. CASE Op(w) = "collect"
    BY <2>1, <2>3 DEF CommitResponse
  <2>4. CASE Op(w) \in {"submit", "sync", "cancel"}
    <3>1. CommitCommandOutcome(w, cur[w], seen[w], reading[w],
                               NextState[Op(w)], NextKey[Op(w)], "none")
      BY <2>1, <2>4 DEF CommitResponse
    <3>. QED  BY <1>2, <2>4, <3>1 DEF NextState, NextKey
  <2>. QED  BY <1>1, <2>2, <2>3, <2>4
<1>3. CASE intent[w] # "response"
  <2>1. CommitFailure(w)
    BY <1>3 DEF Commit
  <2>2. CASE Op(w) = "collect"
    BY <2>1, <2>2 DEF CommitFailure
  <2>3. CASE Op(w) # "collect"
    <3>1. CommitCommandOutcome(w, cur[w], seen[w], reading[w], "failed", None,
                               IF intent[w] = "timeout" THEN "timeout" ELSE "failure")
      BY <2>1, <2>3 DEF CommitFailure
    <3>. QED  BY <3>1
  <2>. QED  BY <2>2, <2>3
<1>. QED  BY <1>2, <1>3

LEMMA CommitType ==
  ASSUME IInvType, NEW w \in Workers, Commit(w)
  PROVE  IInvType'
<1>1. cur[w] \in Claim /\ StoreTypeOK
  BY HeldCommand DEF Commit
<1>2. StoreTypeOK'
  BY <1>1, CommitTransaction, PrepareCollectionType, CommitCollectionCompletionType,
     CommitCommandOutcomeType
<1>3. TypeInv'
  BY <1>2, ProceedType DEF Commit, IInvType
<1>. QED  BY <1>3 DEF Commit, IInvType, ProviderTypeOK, providerVars

(* A refused commit only moves the worker.                                  *)
LEMMA RefusalShape ==
  ASSUME NEW w \in Workers, CommitRefused(w)
  PROVE  /\ pc[w] = "commit"
         /\ UNCHANGED <<storeVars, requests, boundVars, providerVars>>
         /\ \/ Abort(w) \/ Proceed(w)
            \/ /\ UNCHANGED <<batch, cur, seen, reading>>
               /\ \/ Resolve(w, "failure", "read") \/ Resolve(w, "fault", "read")
                  \/ Goto(w, "terminalize") /\ UNCHANGED intent
<1>1. CASE intent[w] = "timeout"
  BY <1>1 DEF CommitRefused
<1>2. CASE intent[w] = "fault" \/ (intent[w] # "timeout" /\ Conflict(w) = "response_invalid")
  BY <1>2 DEF CommitRefused
<1>3. CASE intent[w] \notin {"timeout", "fault"} /\ Conflict(w) # "response_invalid"
  <2>1. CASE intent[w] \in {"response", "failure"} /\ Conflict(w) = "lease_conflict"
    BY <1>3, <2>1 DEF CommitRefused
  <2>2. CASE ~ (intent[w] \in {"response", "failure"} /\ Conflict(w) = "lease_conflict")
    BY <1>3, <2>2 DEF CommitRefused, FinalFault
  <2>. QED  BY <2>1, <2>2
<1>. QED  BY <1>1, <1>2, <1>3

LEMMA CommitRefusedType ==
  ASSUME IInvType, NEW w \in Workers, CommitRefused(w)
  PROVE  IInvType'
<1>1. cur[w] \in Claim /\ StoreTypeOK
  BY RefusalShape, HeldCommand
<1>2. StoreTypeOK' /\ ProviderTypeOK' /\ UNCHANGED <<requests, boundVars>>
  BY <1>1, RefusalShape DEF StoreTypeOK, storeVars, IInvType, ProviderTypeOK, providerVars
<1>3. CASE Abort(w)
  BY <1>2, <1>3, AbortType DEF IInvType, TypeInv, ControlTypeOK, boundVars
<1>4. CASE Proceed(w)
  BY <1>2, <1>4, ProceedType DEF IInvType
<1>5. CASE /\ UNCHANGED <<batch, cur, seen, reading>>
           /\ \/ Resolve(w, "failure", "read") \/ Resolve(w, "fault", "read")
              \/ Goto(w, "terminalize") /\ UNCHANGED intent
  <2>1. reading' \in [Workers -> Reading \cup {None}] /\ intent' \in [Workers -> Intents]
    BY <1>5 DEF IInvType, TypeInv, ControlTypeOK, Resolve, Intents
  <2>2. \E label \in Labels : Goto(w, label)
    BY <1>5 DEF Resolve, Labels
  <2>. QED  BY <1>1, <1>2, <1>5, <2>1, <2>2, GotoType DEF IInvType
<1>. QED  BY <1>3, <1>4, <1>5, RefusalShape

LEMMA GiveBackType ==
  ASSUME IInvType, NEW w \in Workers, PollAgain(w) \/ Settle(w)
  PROVE  IInvType'
<1>1. cur[w] \in Claim /\ StoreTypeOK
  BY HeldCommand DEF PollAgain, Settle
<1>2. StoreTypeOK'
  <2>1. CASE PollAgain(w)
    BY <1>1, <2>1, ReleaseCommandType DEF PollAgain, StoreTypeOK, storeVars
  <2>2. CASE Settle(w)
    BY <1>1, <2>2, TerminalizeCommandType DEF Settle, StoreTypeOK, storeVars
  <2>. QED  BY <2>1, <2>2
<1>3. (Proceed(w) \/ Abort(w)) /\ UNCHANGED <<requests, boundVars, providerVars>>
  BY DEF PollAgain, Settle
<1>4. TypeInv'
  <2>1. CASE Proceed(w)
    BY <1>2, <1>3, <2>1, ProceedType DEF IInvType
  <2>2. CASE Abort(w)
    BY <1>2, <1>3, <2>2, AbortType DEF IInvType, TypeInv, ControlTypeOK, boundVars
  <2>. QED  BY <1>3, <2>1, <2>2
<1>. QED  BY <1>3, <1>4 DEF IInvType, ProviderTypeOK, providerVars

LEMMA ProviderStepType ==
  ASSUME IInvType, NEW a \in Attempts, JobEnds(a) \/ WatchdogDeadlinePasses(a)
  PROVE  IInvType'
<1>1. TypeInv'
  BY DEF JobEnds, WatchdogDeadlinePasses, controlVars, storeVars, workerVars, boundVars, IInvType,
         TypeInv, ControlTypeOK, StoreTypeOK, HoldsCommand
<1>2. ProviderTypeOK'
  BY DEF JobEnds, WatchdogDeadlinePasses, IInvType, ProviderTypeOK, JobStates
<1>. QED  BY <1>1, <1>2 DEF IInvType

LEMMA StepType == IInvType /\ [Next]_vars => IInvType'
<1>. SUFFICES ASSUME IInvType, [Next]_vars PROVE IInvType'
  OBVIOUS
<1>1. ASSUME NEW w \in Workers, ControlStep(w), UNCHANGED providerVars  PROVE IInvType'
  BY <1>1, ControlStepType DEF IInvType, ProviderTypeOK, providerVars
<1>2. ASSUME NEW w \in Workers, ProviderCall(w)  PROVE IInvType'
  BY <1>2, ProviderCallType
<1>3. ASSUME NEW w \in Workers, ReadSequences(w) \/ Commit(w) \/ CommitRefused(w)  PROVE IInvType'
  BY <1>3, ReadSequencesType, CommitType, CommitRefusedType
<1>4. ASSUME NEW w \in Workers, PollAgain(w) \/ Settle(w)  PROVE IInvType'
  BY <1>4, GiveBackType
<1>5. CASE EnvironmentStep /\ UNCHANGED providerVars
  BY <1>5, EnvironmentStepType DEF IInvType, ProviderTypeOK, providerVars
<1>6. ASSUME NEW a \in Attempts, JobEnds(a) \/ WatchdogDeadlinePasses(a)  PROVE IInvType'
  BY <1>6, ProviderStepType
<1>7. CASE UNCHANGED vars
  BY <1>7 DEF vars, controlVars, storeVars, workerVars, boundVars, providerVars, IInvType, TypeInv,
              ControlTypeOK, StoreTypeOK, HoldsCommand, ProviderTypeOK
<1>. QED  BY <1>1, <1>2, <1>3, <1>4, <1>5, <1>6, <1>7 DEF Next, WorkerStep, ProviderCall

(* Every reachable state is well typed, whatever the provider answers and   *)
(* whoever loses a lease, crashes or is refused.                            *)
THEOREM TypeCorrect == Spec => []TypeOK
<1>1. IInvType => TypeOK
  BY DEF IInvType, TypeInv, ProviderTypeOK, TypeOK
<1>. QED  BY <1>1, InitType, StepType, PTL DEF Spec

-----------------------------------------------------------------------------
(* Finished attempts are frozen                                             *)

LEMMA CommitSafe ==
  ASSUME IInvType, NEW w \in Workers, Commit(w)
  PROVE  SafeStoreStep
<1>1. cur[w] \in Claim /\ cur[w].key \in Keys /\ StoreTypeOK
  BY HeldCommand DEF Commit
<1>2. Op(w) # "cancel" => cur[w].key \notin CancelKeys
  BY <1>1, OperationOfKey DEF Op
<1>3. "reconcile" \notin CancelKeys /\ None \notin CancelKeys
  BY KeysAssumption, NoneAssumption DEF WorkerKeys
<1>4. CASE Op(w) = "reconcile" /\ PrepareCollection(w, cur[w], seen[w], reading[w])
  BY <1>1, <1>2, <1>4, PrepareCollectionSafe
<1>5. CASE /\ Op(w) = "collect"
           /\ \E next \in {"collected", "failed"} :
                 CommitCollectionCompletion(w, cur[w], reading[w], next)
  BY <1>1, <1>2, <1>5, CommitCollectionCompletionSafe
<1>6. ASSUME NEW next \in {"submitted", "running", "cancelled", "failed"},
             NEW nextKey \in {"reconcile", None}, NEW error \in {"none", "failure", "timeout"},
             CommitCommandOutcome(w, cur[w], seen[w], reading[w], next, nextKey, error)
      PROVE  SafeStoreStep
  BY <1>1, <1>3, <1>6, CommitCommandOutcomeSafe
<1>. QED  BY <1>4, <1>5, <1>6, CommitTransaction

(* Only a commit and a cancel before the submit move an attempt.            *)
LEMMA AttemptsStay ==
  ASSUME IInvType, [Next]_vars
  PROVE  \/ UNCHANGED attempts
         \/ \E w \in Workers : Commit(w)
         \/ \E a \in Attempts, k \in OperatorKeys :
               /\ CancelBeforeSubmit(a, k, requests[a][k].seen, requests[a][k].read)
               /\ EnqueueControlCommand(a, k) /\ UNCHANGED providerVars
<1>1. ASSUME NEW w \in Workers, ControlStep(w)  PROVE UNCHANGED attempts
  BY <1>1 DEF ControlStep, ClaimCancellations, ClaimProgressions, ClaimCommands, Take, Heartbeat,
              Release, ReleaseCommand, Terminalize, TerminalizeCommand, storeVars
<1>2. ASSUME NEW w \in Workers, ProviderCall(w)  PROVE UNCHANGED attempts
  BY <1>2, ProviderCallShape DEF storeVars
<1>3. ASSUME NEW w \in Workers,
             ReadSequences(w) \/ CommitRefused(w) \/ PollAgain(w) \/ Settle(w)
      PROVE  UNCHANGED attempts
  BY <1>3, RefusalShape
     DEF ReadSequences, PollAgain, Settle, ReleaseCommand, TerminalizeCommand, storeVars
<1>4. ASSUME EnvironmentStep, UNCHANGED providerVars
      PROVE  \/ UNCHANGED attempts
             \/ \E a \in Attempts, k \in OperatorKeys :
                   /\ CancelBeforeSubmit(a, k, requests[a][k].seen, requests[a][k].read)
                   /\ EnqueueControlCommand(a, k) /\ UNCHANGED providerVars
  <2>1. ASSUME NEW w \in Workers, Crash(w)  PROVE UNCHANGED attempts
    BY <2>1 DEF Crash, storeVars
  <2>2. ASSUME NEW a \in Attempts, NEW k \in OperatorKeys, RequestStep(a, k)
        PROVE  \/ UNCHANGED attempts
               \/ /\ CancelBeforeSubmit(a, k, requests[a][k].seen, requests[a][k].read)
                  /\ EnqueueControlCommand(a, k)
    BY <2>2 DEF RequestStep, CancelExecutionAttempt, ReconcileExecutionAttempt,
                EnqueueControlCommand, EnqueueIntent, RequestFails, storeVars
  <2>3. ASSUME NEW a \in Attempts, NEW k \in Keys,
               AbandonedLeaseExpires(a, k) \/ LateLeaseExpires(a, k)
        PROVE  UNCHANGED attempts
    BY <2>3 DEF AbandonedLeaseExpires, LateLeaseExpires, Expire
  <2>. QED  BY <1>4, <2>1, <2>2, <2>3 DEF EnvironmentStep
<1>5. ASSUME NEW a \in Attempts, JobEnds(a) \/ WatchdogDeadlinePasses(a)  PROVE UNCHANGED attempts
  BY <1>5 DEF JobEnds, WatchdogDeadlinePasses, controlVars, storeVars
<1>6. CASE UNCHANGED vars
  BY <1>6 DEF vars, controlVars, storeVars
<1>. QED  BY <1>1, <1>2, <1>3, <1>4, <1>5, <1>6 DEF Next, WorkerStep, ProviderCall

LEMMA CancelBeforeSubmitMoves ==
  ASSUME StoreTypeOK, NEW x \in Attempts, NEW k, NEW sn, NEW read,
         CancelBeforeSubmit(x, k, sn, read)
  PROVE  /\ attempts'[x].state = "cancelled" /\ attempts'[x].version = attempts[x].version + 1
         /\ ~ attempts'[x].ref
         /\ <<attempts[x].state, "cancelled">> \in ValidAttemptTransition
         /\ \A a \in Attempts \ {x} : attempts'[a] = attempts[a]
BY DEF CancelBeforeSubmit, ValidAttemptUpdate, Transitioned, StoreTypeOK

LEMMA StepAttempts ==
  ASSUME IInvType, [Next]_vars
  PROVE  AttemptsMove
<1>0. StoreTypeOK
  BY DEF IInvType, TypeInv, ControlTypeOK
<1>1. CASE UNCHANGED attempts
  BY <1>1 DEF AttemptsMove
<1>2. ASSUME NEW w \in Workers, Commit(w)  PROVE AttemptsMove
  BY <1>2, CommitSafe DEF SafeStoreStep
<1>3. ASSUME NEW x \in Attempts, NEW k \in OperatorKeys,
             CancelBeforeSubmit(x, k, requests[x][k].seen, requests[x][k].read)
      PROVE  AttemptsMove
  BY <1>0, <1>3, CancelBeforeSubmitMoves DEF AttemptsMove
<1>. QED  BY <1>1, <1>2, <1>3, AttemptsStay

(* No late answer of the provider, no retry, watchdog, crash or request     *)
(* changes a finished attempt.                                              *)
THEOREM TerminalAttemptsAreFinal == Spec => TerminalIsFinal
<1>1. IInvType /\ [Next]_vars =>
        [\A a \in Attempts : IsTerminal(attempts[a].state) => attempts'[a] = attempts[a]]_controlVars
  BY StepAttempts, TerminalStays
<1>. QED  BY <1>1, InitType, StepType, PTL DEF Spec, TerminalIsFinal

-----------------------------------------------------------------------------
(* At most one job.  A job is created under the first lease of a submit,    *)
(* and only one worker ever holds the claim of that lease.                  *)

FirstSubmit(a) == [attempt |-> a, key |-> "submit", lease |-> 1]

BeforeCreate == {"heartbeat", "dispatch", "create"}

(* Worker w may still create a job for a.                                   *)
Holds(w, a) ==
    FirstSubmit(a) \in batch[w] \/ (cur[w] = FirstSubmit(a) /\ pc[w] \in BeforeCreate)

OneHolder ==
    /\ \A v, w \in Workers, a \in Attempts : Holds(v, a) /\ Holds(w, a) => v = w
    /\ \A w \in Workers, a \in Attempts :
          FirstSubmit(a) \in batch[w] => ~ (cur[w] = FirstSubmit(a) /\ pc[w] \in BeforeCreate)

HoldersHaveNotCreated ==
    \A w \in Workers, a \in Attempts : Holds(w, a) => creates[a] = 0

NothingBeforeFirstLease ==
    \A a \in Attempts :
        commands[a]["submit"].lease = 0 => creates[a] = 0 /\ \A w \in Workers : ~ Holds(w, a)

CreatesUnderFirstLease ==
    \A w \in Workers : pc[w] = "create" => cur[w] = FirstSubmit(cur[w].attempt)

JobsAreCreated ==
    \A a \in Attempts : creates[a] <= 1 /\ (creates[a] = 0 => jobs[a] = "none")

FenceInv ==
    /\ OneHolder /\ HoldersHaveNotCreated /\ NothingBeforeFirstLease
    /\ CreatesUnderFirstLease /\ JobsAreCreated

(* What a step may do to the claims of a worker.                            *)
KeepsClaims(v) ==
    /\ batch'[v] \subseteq batch[v]
    /\ pc'[v] \in BeforeCreate => pc[v] \in BeforeCreate /\ cur'[v] = cur[v]
    /\ pc'[v] = "create" => cur'[v] = FirstSubmit(cur'[v].attempt)

TakesClaim(v) ==
    /\ cur'[v] \in batch[v]
    /\ batch'[v] = batch[v] \ {cur'[v]}
    /\ pc'[v] # "create"

AddsClaims(v) ==
    /\ pc'[v] \notin BeforeCreate
    /\ \A a \in Attempts :
          FirstSubmit(a) \in batch'[v] =>
             \/ FirstSubmit(a) \in batch[v]
             \/ commands[a]["submit"].lease = 0 /\ commands'[a]["submit"].lease # 0

ClaimsAreFenced(w) ==
    /\ \A v \in Workers \ {w} : KeepsClaims(v)
    /\ w \in Workers => KeepsClaims(w) \/ TakesClaim(w) \/ AddsClaims(w)

LeasesGrow ==
    \A a \in Attempts : commands'[a]["submit"].lease = 0 => commands[a]["submit"].lease = 0

(* Who holds a first claim after such a step held it before, or has just    *)
(* been given it.                                                           *)
LEMMA HoldersMove ==
  ASSUME NEW w, ClaimsAreFenced(w)
  PROVE  \A v \in Workers, a \in Attempts :
            Holds(v, a)' =>
               \/ Holds(v, a)
               \/ v = w /\ commands[a]["submit"].lease = 0 /\ commands'[a]["submit"].lease # 0
<1>. SUFFICES ASSUME NEW v \in Workers, NEW a \in Attempts, Holds(v, a)'
              PROVE  \/ Holds(v, a)
                     \/ /\ v = w /\ commands[a]["submit"].lease = 0
                        /\ commands'[a]["submit"].lease # 0
  OBVIOUS
<1>1. \/ FirstSubmit(a) \in batch'[v]
      \/ cur'[v] = FirstSubmit(a) /\ pc'[v] \in BeforeCreate
  BY DEF Holds, FirstSubmit, BeforeCreate
<1>2. CASE KeepsClaims(v)
  BY <1>1, <1>2 DEF KeepsClaims, Holds
<1>3. CASE v = w /\ TakesClaim(w)
  BY <1>1, <1>3 DEF TakesClaim, Holds
<1>4. CASE v = w /\ AddsClaims(w)
  BY <1>1, <1>4 DEF AddsClaims, Holds
<1>. QED  BY <1>2, <1>3, <1>4 DEF ClaimsAreFenced

LEMMA OneHolderStep ==
  ASSUME FenceInv, NEW w, ClaimsAreFenced(w)
  PROVE  OneHolder'
<1>1. ASSUME NEW u \in Workers, NEW v \in Workers, NEW a \in Attempts,
             Holds(u, a)', Holds(v, a)'
      PROVE  u = v
  BY <1>1, HoldersMove DEF FenceInv, OneHolder, NothingBeforeFirstLease
<1>2. ASSUME NEW v \in Workers, NEW a \in Attempts, FirstSubmit(a) \in batch'[v],
             cur'[v] = FirstSubmit(a), pc'[v] \in BeforeCreate
      PROVE  FALSE
  <2>1. CASE KeepsClaims(v)
    BY <1>2, <2>1 DEF KeepsClaims, FenceInv, OneHolder
  <2>2. CASE TakesClaim(v)
    BY <1>2, <2>2 DEF TakesClaim
  <2>3. CASE AddsClaims(v)
    BY <1>2, <2>3 DEF AddsClaims
  <2>. QED  BY <2>1, <2>2, <2>3 DEF ClaimsAreFenced
<1>. QED  BY <1>1, <1>2 DEF OneHolder, FirstSubmit, BeforeCreate

(* A step that creates nothing keeps the fence.                             *)
LEMMA FenceStep ==
  ASSUME FenceInv, NEW w, ClaimsAreFenced(w), LeasesGrow, UNCHANGED creates,
         \A a \in Attempts : jobs[a] = "none" => jobs'[a] = "none"
  PROVE  FenceInv'
<1>1. HoldersHaveNotCreated'
  BY HoldersMove DEF FenceInv, HoldersHaveNotCreated, NothingBeforeFirstLease
<1>2. NothingBeforeFirstLease'
  BY HoldersMove DEF FenceInv, NothingBeforeFirstLease, LeasesGrow
<1>3. CreatesUnderFirstLease'
  <2>. SUFFICES ASSUME NEW v \in Workers, pc'[v] = "create"
                PROVE  cur'[v] = FirstSubmit(cur'[v].attempt)
    BY DEF CreatesUnderFirstLease, FirstSubmit
  <2>1. KeepsClaims(v)
    BY DEF ClaimsAreFenced, TakesClaim, AddsClaims, BeforeCreate
  <2>. QED  BY <2>1 DEF KeepsClaims
<1>4. JobsAreCreated'
  BY DEF FenceInv, JobsAreCreated
<1>. QED  BY <1>1, <1>2, <1>3, <1>4, OneHolderStep DEF FenceInv

(* The worker that creates is the only one that could, and then cannot.     *)
LEMMA CreateJobFence ==
  ASSUME IInvType, FenceInv, NEW w \in Workers, CreateJob(w)
  PROVE  FenceInv'
<1>. DEFINE x == cur[w].attempt
<1>1. x \in Attempts /\ cur[w] = FirstSubmit(x) /\ Holds(w, x) /\ creates[x] = 0
  <2>1. pc[w] = "create"
    BY DEF CreateJob
  <2>2. x \in Attempts
    BY <2>1, HeldCommand
  <2>. QED
    BY <2>1, <2>2
       DEF FenceInv, CreatesUnderFirstLease, Holds, BeforeCreate, HoldersHaveNotCreated
<1>2. /\ pc'[w] \notin BeforeCreate
      /\ \A v \in Workers \ {w} : pc'[v] = pc[v]
      /\ UNCHANGED <<commands, batch, cur>>
  <2>1. PICK outcome, label : Resolve(w, outcome, label) /\ label \notin BeforeCreate
    <3>1. Observe(w, "running") \/ Resolve(w, "response", "recover")
      BY DEF CreateJob
    <3>. QED  BY <3>1, ObserveResolves DEF BeforeCreate
  <2>. QED  BY <2>1 DEF CreateJob, Resolve, Goto, storeVars, IInvType, TypeInv, ControlTypeOK
<1>3. /\ creates'[x] \in {0, 1} /\ (creates'[x] = 0 => jobs'[x] = jobs[x])
      /\ \A a \in Attempts \ {x} : creates'[a] = creates[a] /\ jobs'[a] = jobs[a]
  <2>1. PICK accepted \in BOOLEAN :
          /\ jobs' = IF accepted THEN [jobs EXCEPT ![x] = "running"] ELSE jobs
          /\ creates' = IF accepted THEN [creates EXCEPT ![x] = @ + 1] ELSE creates
    BY DEF CreateJob
  <2>. QED  BY <1>1, <2>1 DEF IInvType, ProviderTypeOK
<1>4. \A v \in Workers, a \in Attempts : Holds(v, a)' => Holds(v, a) /\ a # x
  <2>. SUFFICES ASSUME NEW v \in Workers, NEW a \in Attempts, Holds(v, a)'
                PROVE  Holds(v, a) /\ a # x
    OBVIOUS
  <2>0. \/ FirstSubmit(a) \in batch[v]
        \/ cur[v] = FirstSubmit(a) /\ pc'[v] \in BeforeCreate
    BY <1>2 DEF Holds, FirstSubmit, BeforeCreate
  <2>1. Holds(v, a)
    BY <1>2, <2>0 DEF Holds
  <2>2. ASSUME a = x  PROVE FALSE
    <3>1. v = w
      BY <1>1, <2>1, <2>2 DEF FenceInv, OneHolder
    <3>2. FirstSubmit(x) \in batch[w]
      BY <1>2, <2>0, <2>2, <3>1
    <3>. QED  BY <1>1, <3>2 DEF FenceInv, OneHolder, CreateJob, BeforeCreate
  <2>. QED  BY <2>1, <2>2
<1>5. OneHolder'
  <2>1. \A u, v \in Workers, a \in Attempts : Holds(u, a)' /\ Holds(v, a)' => u = v
    BY <1>4 DEF FenceInv, OneHolder
  <2>2. ASSUME NEW v \in Workers, NEW a \in Attempts, FirstSubmit(a) \in batch'[v],
               cur'[v] = FirstSubmit(a), pc'[v] \in BeforeCreate
        PROVE  FALSE
    BY <1>2, <2>2 DEF FenceInv, OneHolder
  <2>. QED  BY <2>1, <2>2 DEF OneHolder, FirstSubmit, BeforeCreate
<1>6. HoldersHaveNotCreated'
  BY <1>3, <1>4 DEF FenceInv, HoldersHaveNotCreated
<1>7. NothingBeforeFirstLease'
  BY <1>1, <1>2, <1>3, <1>4 DEF FenceInv, NothingBeforeFirstLease
<1>8. CreatesUnderFirstLease'
  BY <1>2 DEF FenceInv, CreatesUnderFirstLease, BeforeCreate, FirstSubmit
<1>9. JobsAreCreated'
  BY <1>1, <1>3 DEF FenceInv, JobsAreCreated
<1>. QED  BY <1>5, <1>6, <1>7, <1>8, <1>9 DEF FenceInv

(* Transactions never reset the lease of a submit.                          *)
LEMMA RowKeepsLease ==
  ASSUME StoreTypeOK, NEW c \in Claim, NEW state, NEW error,
         commands' = [commands EXCEPT ![c.attempt][c.key] = Completed(@, state, error)]
  PROVE  LeasesGrow
<1>1. c.attempt \in Attempts /\ c.key \in Keys /\ "submit" \in Keys
  BY DEF Claim, Keys, WorkerKeys
<1>. QED  BY <1>1 DEF LeasesGrow, Completed, StoreTypeOK

LEMMA CommitLeases ==
  ASSUME StoreTypeOK, NEW c \in Claim, NEW nextKey \in {"collect", "reconcile", None},
         NEW state, NEW error,
         commands' = [commands EXCEPT ![c.attempt] = [k \in Keys |->
            IF k = c.key THEN Completed(@[k], state, error)
            ELSE IF k = nextKey THEN NewCommand ELSE @[k]]]
  PROVE  LeasesGrow
<1>1. c.attempt \in Attempts /\ c.key \in Keys /\ "submit" \in Keys /\ nextKey # "submit"
  BY NoneAssumption DEF Claim, Keys, WorkerKeys
<1>. QED  BY <1>1 DEF LeasesGrow, Completed, StoreTypeOK

LEMMA CommitOutcomeLeases ==
  ASSUME StoreTypeOK, NEW w \in Workers, NEW c \in Claim, NEW sn, NEW read, NEW next,
         NEW nextKey \in {"reconcile", None}, NEW error,
         CommitCommandOutcome(w, c, sn, read, next, nextKey, error)
  PROVE  LeasesGrow
<1>. DEFINE state == IF error = "none" THEN "succeeded" ELSE "terminal"
<1>1. commands' = [commands EXCEPT ![c.attempt] = [k \in Keys |->
          IF k = c.key THEN Completed(@[k], state, error)
          ELSE IF k = nextKey THEN NewCommand ELSE @[k]]]
  BY DEF CommitCommandOutcome
<1>. HIDE DEF state
<1>. QED  BY <1>1, CommitLeases

LEMMA TransactionLeases ==
  ASSUME StoreTypeOK, NEW w \in Workers, NEW c \in Claim,
         \/ ReleaseCommand(w, c) \/ TerminalizeCommand(w, c, "conflict")
         \/ \E next : CommitCollectionCompletion(w, c, reading[w], next)
         \/ PrepareCollection(w, c, seen[w], reading[w])
  PROVE  LeasesGrow
<1>1. CASE ReleaseCommand(w, c)
  BY <1>1, RowKeepsLease DEF ReleaseCommand
<1>2. CASE TerminalizeCommand(w, c, "conflict")
  BY <1>2, RowKeepsLease DEF TerminalizeCommand
<1>3. ASSUME NEW next, CommitCollectionCompletion(w, c, reading[w], next)  PROVE LeasesGrow
  <2>1. CASE next = "collected"
    <3>1. commands' = [commands EXCEPT ![c.attempt][c.key] = Completed(@, "succeeded", "none")]
      BY <1>3, <2>1 DEF CommitCollectionCompletion
    <3>. QED  BY <3>1, RowKeepsLease
  <2>2. CASE next # "collected"
    <3>1. commands' = [commands EXCEPT ![c.attempt][c.key] = Completed(@, "terminal", "failure")]
      BY <1>3, <2>2 DEF CommitCollectionCompletion
    <3>. QED  BY <3>1, RowKeepsLease
  <2>. QED  BY <2>1, <2>2
<1>4. CASE PrepareCollection(w, c, seen[w], reading[w])
  BY <1>4, CommitLeases DEF PrepareCollection
<1>. QED  BY <1>1, <1>2, <1>3, <1>4

LEMMA EnqueueLeases ==
  ASSUME StoreTypeOK, NEW a \in Attempts, NEW k \in OperatorKeys, NEW sn, NEW read,
         CancelBeforeSubmit(a, k, sn, read) \/ EnqueueIntent(a, k, sn, read)
  PROVE  LeasesGrow
<1>1. k \in Keys /\ k # "submit" /\ "submit" \in Keys
  BY KeysAssumption DEF OperatorKeys, Keys, WorkerKeys
<1>2. CASE CancelBeforeSubmit(a, k, sn, read)
  BY <1>1, <1>2 DEF CancelBeforeSubmit, LeasesGrow, Completed, StoreTypeOK
<1>3. CASE EnqueueIntent(a, k, sn, read)
  BY <1>1, <1>3 DEF EnqueueIntent, LeasesGrow, StoreTypeOK
<1>. QED  BY <1>2, <1>3

(* A claim of the first lease is given out once: it moves the lease.        *)
LEMMA ClaimLeases ==
  ASSUME StoreTypeOK, NEW w \in Workers, NEW cancels \in BOOLEAN,
         ClaimCommands(w, Ready(cancels))
  PROVE  /\ LeasesGrow
         /\ \A a \in Attempts :
               FirstSubmit(a) \in ClaimsOf(Ready(cancels)) =>
                  commands[a]["submit"].lease = 0 /\ commands'[a]["submit"].lease # 0
<1>0. "submit" \in Keys
  BY DEF Keys, WorkerKeys
<1>1. ASSUME NEW a \in Attempts
      PROVE  /\ commands[a]["submit"].lease \in Nat
             /\ commands'[a]["submit"].lease =
                   IF <<a, "submit">> \in Ready(cancels) THEN commands[a]["submit"].lease + 1
                                                         ELSE commands[a]["submit"].lease
  BY <1>0 DEF ClaimCommands, Claimed, StoreTypeOK, Command
<1>2. ASSUME NEW a \in Attempts, FirstSubmit(a) \in ClaimsOf(Ready(cancels))
      PROVE  commands[a]["submit"].lease = 0 /\ commands'[a]["submit"].lease # 0
  <2>1. PICK p \in Ready(cancels) :
          FirstSubmit(a) = [attempt |-> p[1], key |-> p[2], lease |-> commands[p[1]][p[2]].lease + 1]
    BY <1>2 DEF ClaimsOf
  <2>2. p[1] = a /\ p[2] = "submit" /\ commands[p[1]][p[2]].lease + 1 = 1
    BY <2>1 DEF FirstSubmit
  <2>3. p = <<a, "submit">>
    BY <2>2 DEF Ready
  <2>4. commands[a]["submit"].lease + 1 = 1 /\ <<a, "submit">> \in Ready(cancels)
    BY <2>2, <2>3
  <2>5. commands[a]["submit"].lease \in Nat
    BY <1>1
  <2>6. commands'[a]["submit"].lease = commands[a]["submit"].lease + 1
    BY <1>1, <2>4
  <2>. HIDE DEF FirstSubmit
  <2>. QED  BY <2>4, <2>5, <2>6
<1>3. LeasesGrow
  <2>. SUFFICES ASSUME NEW a \in Attempts, commands[a]["submit"].lease # 0
                PROVE  commands'[a]["submit"].lease # 0
    BY DEF LeasesGrow
  <2>1. commands[a]["submit"].lease \in Nat
    BY <1>1
  <2>2. CASE <<a, "submit">> \in Ready(cancels)
    <3>1. commands'[a]["submit"].lease = commands[a]["submit"].lease + 1
      BY <1>1, <2>2
    <3>. QED  BY <2>1, <3>1
  <2>3. CASE <<a, "submit">> \notin Ready(cancels)
    BY <1>1, <2>3
  <2>. QED  BY <2>2, <2>3
<1>. QED  BY <1>2, <1>3

LEMMA WorkersKeepClaims ==
  ASSUME FenceInv, UNCHANGED workerVars, NEW w
  PROVE  ClaimsAreFenced(w)
BY DEF workerVars, ClaimsAreFenced, KeepsClaims, FenceInv, CreatesUnderFirstLease

LEMMA OthersKeepClaims ==
  ASSUME FenceInv, NEW w,
         \A v \in Workers \ {w} : batch'[v] = batch[v] /\ cur'[v] = cur[v] /\ pc'[v] = pc[v]
  PROVE  \A v \in Workers \ {w} : KeepsClaims(v)
BY DEF KeepsClaims, FenceInv, CreatesUnderFirstLease

LEMMA ProceedClaims ==
  ASSUME IInvType, FenceInv, NEW w \in Workers, Proceed(w) \/ Abort(w)
  PROVE  ClaimsAreFenced(w)
<1>1. \A v \in Workers \ {w} : batch'[v] = batch[v] /\ cur'[v] = cur[v] /\ pc'[v] = pc[v]
  BY DEF Proceed, Abort, Forget, Goto, IInvType, TypeInv, ControlTypeOK
<1>2. batch'[w] \subseteq batch[w] /\ pc'[w] \in {"idle", "take"}
  BY DEF Proceed, Abort, Forget, Goto, IInvType, TypeInv, ControlTypeOK
<1>. QED  BY <1>1, <1>2, OthersKeepClaims DEF ClaimsAreFenced, KeepsClaims, BeforeCreate

LEMMA GotoClaims ==
  ASSUME IInvType, FenceInv, NEW w \in Workers, NEW label, Goto(w, label), UNCHANGED <<batch, cur>>,
         label \in BeforeCreate => pc[w] \in BeforeCreate,
         label = "create" => cur[w] = FirstSubmit(cur[w].attempt)
  PROVE  ClaimsAreFenced(w)
<1>1. \A v \in Workers \ {w} : batch'[v] = batch[v] /\ cur'[v] = cur[v] /\ pc'[v] = pc[v]
  BY DEF Goto, IInvType, TypeInv, ControlTypeOK
<1>2. pc'[w] = label /\ batch'[w] = batch[w] /\ cur'[w] = cur[w]
  BY DEF Goto, IInvType, TypeInv, ControlTypeOK
<1>. QED  BY <1>1, <1>2, OthersKeepClaims DEF ClaimsAreFenced, KeepsClaims

LEMMA ControlStepFence ==
  ASSUME IInvType, FenceInv, NEW w \in Workers, ControlStep(w)
  PROVE  ClaimsAreFenced(w) /\ LeasesGrow
<1>. DEFINE Fenced == ClaimsAreFenced(w) /\ LeasesGrow
<1>0. StoreTypeOK /\ ControlTypeOK
  BY DEF IInvType, TypeInv, ControlTypeOK
<1>a. ASSUME UNCHANGED commands  PROVE LeasesGrow
  BY <1>a DEF LeasesGrow
<1>1. CASE ClaimCancellations(w)
  <2>1. LeasesGrow /\ AddsClaims(w)
    BY <1>0, <1>1, ClaimLeases DEF ClaimCancellations, AddsClaims, Goto, ControlTypeOK, BeforeCreate
  <2>2. \A v \in Workers \ {w} : batch'[v] = batch[v] /\ cur'[v] = cur[v] /\ pc'[v] = pc[v]
    BY <1>0, <1>1 DEF ClaimCancellations, Goto, ControlTypeOK
  <2>. QED  BY <2>1, <2>2, OthersKeepClaims DEF ClaimsAreFenced
<1>2. CASE ClaimProgressions(w)
  <2>1. PICK label \in {"idle", "take"} : Goto(w, label)
    BY <1>2 DEF ClaimProgressions
  <2>2. /\ ClaimCommands(w, Ready(FALSE))
        /\ batch'[w] = batch[w] \cup ClaimsOf(Ready(FALSE))
    BY <1>0, <1>2 DEF ClaimProgressions, ControlTypeOK
  <2>3. LeasesGrow /\ AddsClaims(w)
    BY <1>0, <2>1, <2>2, ClaimLeases DEF AddsClaims, Goto, ControlTypeOK, BeforeCreate
  <2>4. \A v \in Workers \ {w} : batch'[v] = batch[v] /\ cur'[v] = cur[v] /\ pc'[v] = pc[v]
    BY <1>0, <1>2, <2>1 DEF ClaimProgressions, Goto, ControlTypeOK
  <2>. QED  BY <2>3, <2>4, OthersKeepClaims DEF ClaimsAreFenced
<1>3. CASE Take(w)
  <2>1. PICK c \in batch[w], label \in {"heartbeat", "terminalize"} :
           /\ cur' = [cur EXCEPT ![w] = c]
           /\ batch' = [batch EXCEPT ![w] = @ \ {c}]
           /\ Goto(w, label)
    BY <1>3 DEF Take
  <2>2. TakesClaim(w)
    BY <1>0, <2>1 DEF TakesClaim, Goto, ControlTypeOK
  <2>3. \A v \in Workers \ {w} : batch'[v] = batch[v] /\ cur'[v] = cur[v] /\ pc'[v] = pc[v]
    BY <1>0, <2>1 DEF Goto, ControlTypeOK
  <2>. QED  BY <1>3, <1>a, <2>2, <2>3, OthersKeepClaims DEF ClaimsAreFenced, Take, storeVars
<1>4. CASE Heartbeat(w)
  <2>1. CASE Goto(w, "dispatch") /\ UNCHANGED <<batch, cur>>
    BY <1>4, <1>a, <2>1, GotoClaims DEF Heartbeat, storeVars, BeforeCreate
  <2>2. CASE Proceed(w)
    BY <1>4, <1>a, <2>2, ProceedClaims DEF Heartbeat, storeVars
  <2>. QED  BY <1>4, <2>1, <2>2 DEF Heartbeat
<1>5. CASE Release(w)
  <2>1. cur[w] \in Claim
    BY <1>5, HeldCommand DEF Release
  <2>. QED  BY <1>0, <1>5, <1>a, <2>1, ProceedClaims, TransactionLeases DEF Release, storeVars
<1>6. CASE Terminalize(w)
  <2>1. cur[w] \in Claim
    BY <1>6, HeldCommand DEF Terminalize
  <2>. QED  BY <1>0, <1>6, <1>a, <2>1, ProceedClaims, TransactionLeases DEF Terminalize, storeVars
<1>. QED  BY <1>1, <1>2, <1>3, <1>4, <1>5, <1>6 DEF ControlStep

LEMMA EnvironmentStepFence ==
  ASSUME IInvType, FenceInv, EnvironmentStep
  PROVE  \E w : ClaimsAreFenced(w) /\ LeasesGrow
<1>0. StoreTypeOK
  BY DEF IInvType, TypeInv, ControlTypeOK
<1>1. ASSUME NEW w \in Workers, Crash(w)  PROVE ClaimsAreFenced(w) /\ LeasesGrow
  BY <1>1, ProceedClaims DEF Crash, storeVars, LeasesGrow
<1>2. ASSUME NEW a \in Attempts, NEW k \in OperatorKeys, RequestStep(a, k)
      PROVE  UNCHANGED workerVars /\ LeasesGrow
  <2>1. CASE EnqueueControlCommand(a, k)
    BY <1>0, <2>1, EnqueueLeases DEF EnqueueControlCommand
  <2>. QED
    BY <1>2, <2>1 DEF RequestStep, CancelExecutionAttempt, ReconcileExecutionAttempt, RequestFails,
                      storeVars, LeasesGrow
<1>3. ASSUME NEW a \in Attempts, NEW k \in Keys,
             AbandonedLeaseExpires(a, k) \/ LateLeaseExpires(a, k)
      PROVE  UNCHANGED workerVars /\ LeasesGrow
  <2>1. Expire(a, k)
    BY <1>3 DEF AbandonedLeaseExpires, LateLeaseExpires
  <2>2. "submit" \in Keys
    BY DEF Keys, WorkerKeys
  <2>. QED  BY <1>0, <2>1, <2>2 DEF Expire, LeasesGrow, StoreTypeOK, Command
<1>. QED  BY <1>1, <1>2, <1>3, WorkersKeepClaims DEF EnvironmentStep

LEMMA InitFence == Init => FenceInv
<1>. SUFFICES ASSUME Init PROVE FenceInv
  OBVIOUS
<1>1. \A w \in Workers, a \in Attempts : ~ Holds(w, a)
  BY DEF Init, ControlInit, Holds, BeforeCreate
<1>2. OneHolder
  BY <1>1 DEF Init, ControlInit, OneHolder
<1>3. HoldersHaveNotCreated /\ NothingBeforeFirstLease /\ CreatesUnderFirstLease /\ JobsAreCreated
  BY <1>1 DEF Init, ControlInit, HoldersHaveNotCreated, NothingBeforeFirstLease,
              CreatesUnderFirstLease, JobsAreCreated
<1>. QED  BY <1>2, <1>3 DEF FenceInv

LEMMA StepFence == IInvType /\ FenceInv /\ [Next]_vars => FenceInv'
<1>. SUFFICES ASSUME IInvType, FenceInv, [Next]_vars PROVE FenceInv'
  OBVIOUS
<1>0. StoreTypeOK
  BY DEF IInvType, TypeInv, ControlTypeOK
<1>a. ASSUME UNCHANGED storeVars  PROVE LeasesGrow
  BY <1>a DEF storeVars, LeasesGrow
<1>b. ASSUME NEW w, ClaimsAreFenced(w), LeasesGrow, UNCHANGED providerVars  PROVE FenceInv'
  BY <1>b, FenceStep DEF providerVars
<1>1. ASSUME NEW w \in Workers, ControlStep(w), UNCHANGED providerVars  PROVE FenceInv'
  BY <1>1, <1>b, ControlStepFence
<1>2. ASSUME NEW w \in Workers, ProviderCall(w)  PROVE FenceInv'
  <2>1. CASE CreateJob(w)
    BY <2>1, CreateJobFence
  <2>2. CASE ~ CreateJob(w)
    <3>1. LeasesGrow /\ UNCHANGED <<batch, cur>> /\ cur[w] \in Claim /\ cur[w].attempt \in Attempts
      BY <1>2, <1>a, ProviderCallShape, HeldCommand
    <3>2. PICK outcome, label :
            /\ Resolve(w, outcome, label) /\ label \notin {"heartbeat", "dispatch"}
            /\ label = "create" => /\ pc[w] = "dispatch" /\ Op(w) = "submit" /\ CreatePermitted(w)
      BY <1>2, ProviderCallShape
    <3>3. label = "create" => cur[w] = FirstSubmit(cur[w].attempt)
      <4>. SUFFICES ASSUME label = "create" PROVE cur[w] = FirstSubmit(cur[w].attempt)
        OBVIOUS
      <4>1. cur[w].key = "submit"
        BY <3>1, <3>2, OperationOfKey DEF Op, Claim
      <4>. QED  BY <3>1, <3>2, <4>1 DEF CreatePermitted, FirstSubmit, Claim
    <3>4. ClaimsAreFenced(w)
      BY <3>1, <3>2, <3>3, GotoClaims DEF Resolve, BeforeCreate
    <3>5. UNCHANGED creates /\ \A a \in Attempts : jobs[a] = "none" => jobs'[a] = "none"
      <4>1. CASE StopJob(w)
        <5>1. \/ jobs' = jobs
              \/ /\ jobs[cur[w].attempt] \in {"running", "stopped"}
                 /\ jobs' = [jobs EXCEPT ![cur[w].attempt] = "stopped"]
              \/ jobs' = [jobs EXCEPT ![cur[w].attempt] = IF @ = "running" THEN "stopped" ELSE @]
          BY <4>1 DEF StopJob
        <5>. QED  BY <3>1, <4>1, <5>1 DEF StopJob, IInvType, ProviderTypeOK
      <4>. QED  BY <1>2, <2>2, <4>1 DEF ProviderCall, Dispatch, Recover, Cleanup, providerVars
    <3>. QED  BY <3>1, <3>4, <3>5, FenceStep
  <2>. QED  BY <2>1, <2>2
<1>3. ASSUME NEW w \in Workers, ReadSequences(w)  PROVE FenceInv'
  <2>1. ClaimsAreFenced(w)
    BY <1>3, ProceedClaims, GotoClaims DEF ReadSequences, BeforeCreate
  <2>. QED  BY <1>3, <1>a, <1>b, <2>1 DEF ReadSequences
<1>4. ASSUME NEW w \in Workers, Commit(w)  PROVE FenceInv'
  <2>1. cur[w] \in Claim
    BY <1>4, HeldCommand DEF Commit
  <2>2. LeasesGrow
    <3>1. CASE PrepareCollection(w, cur[w], seen[w], reading[w])
      BY <1>0, <2>1, <3>1, TransactionLeases
    <3>2. ASSUME NEW next, CommitCollectionCompletion(w, cur[w], reading[w], next)
          PROVE  LeasesGrow
      BY <1>0, <2>1, <3>2, TransactionLeases
    <3>3. ASSUME NEW next, NEW nextKey \in {"reconcile", None}, NEW error,
                 CommitCommandOutcome(w, cur[w], seen[w], reading[w], next, nextKey, error)
          PROVE  LeasesGrow
      BY <1>0, <2>1, <3>3, CommitOutcomeLeases
    <3>. QED  BY <1>4, <3>1, <3>2, <3>3, CommitTransaction
  <2>. QED  BY <1>4, <1>b, <2>2, ProceedClaims DEF Commit
<1>5. ASSUME NEW w \in Workers, CommitRefused(w)  PROVE FenceInv'
  <2>1. LeasesGrow /\ UNCHANGED providerVars
    BY <1>5, <1>a, RefusalShape
  <2>2. ClaimsAreFenced(w)
    BY <1>5, RefusalShape, ProceedClaims, GotoClaims DEF Resolve, BeforeCreate
  <2>. QED  BY <1>b, <2>1, <2>2
<1>6. ASSUME NEW w \in Workers, PollAgain(w) \/ Settle(w)  PROVE FenceInv'
  <2>1. cur[w] \in Claim
    BY <1>6, HeldCommand DEF PollAgain, Settle
  <2>2. LeasesGrow
    BY <1>0, <1>6, <1>a, <2>1, TransactionLeases DEF PollAgain, Settle
  <2>. QED  BY <1>6, <1>b, <2>2, ProceedClaims DEF PollAgain, Settle
<1>7. CASE EnvironmentStep /\ UNCHANGED providerVars
  BY <1>7, <1>b, EnvironmentStepFence
<1>8. ASSUME NEW a \in Attempts, JobEnds(a) \/ WatchdogDeadlinePasses(a)  PROVE FenceInv'
  <2>1. UNCHANGED workerVars /\ UNCHANGED storeVars /\ UNCHANGED creates
    BY <1>8 DEF JobEnds, WatchdogDeadlinePasses, controlVars
  <2>2. \A b \in Attempts : jobs[b] = "none" => jobs'[b] = "none"
    BY <1>8 DEF JobEnds, WatchdogDeadlinePasses, IInvType, ProviderTypeOK
  <2>. QED  BY <1>a, <2>1, <2>2, WorkersKeepClaims, FenceStep
<1>9. CASE UNCHANGED vars
  BY <1>9, <1>a, <1>b, WorkersKeepClaims DEF vars, controlVars
<1>. QED
  BY <1>1, <1>2, <1>3, <1>4, <1>5, <1>6, <1>7, <1>8, <1>9 DEF Next, WorkerStep, ProviderCall

(* At most one job is ever created for an attempt: whatever is lost,        *)
(* retried, expired or crashed, one worker at most holds the claim under    *)
(* which creating is permitted, and it uses it once.                        *)
THEOREM OneJobPerAttempt == Spec => []AtMostOneJob
<1>1. FenceInv => AtMostOneJob
  BY DEF FenceInv, JobsAreCreated, AtMostOneJob
<1>. QED  BY <1>1, InitType, InitFence, StepType, StepFence, PTL DEF Spec

-----------------------------------------------------------------------------
(* Outcomes are true of the job.  What a worker has learned stays true      *)
(* until it commits, because a job that succeeded or stopped never changes  *)
(* and is never replaced by a second one.                                   *)

(* What an attempt says of its job.                                         *)
RowIsTrue(row, job) ==
    /\ row.state \in {"submitted", "running", "succeeded"} => row.ref
    /\ row.state = "succeeded" => job = "succeeded"
    /\ row.state = "cancelled" /\ row.ref => job = "stopped"
    /\ row.ref => job # "none"

RowsAreTrue ==
    /\ \A a \in Attempts : RowIsTrue(attempts[a], jobs[a])
    /\ \A a \in Attempts, k \in Keys : commands[a][k].error = "timeout" => jobs[a] = "stopped"

(* What a worker that intends an outcome of its operation knows of the job. *)
Informed(operation, outcome, job) ==
    /\ outcome = "timeout" => job = "stopped"
    /\ outcome = "response" =>
          /\ operation = "submit" => job # "none"
          /\ operation = "reconcile" => job = "succeeded"
          /\ operation = "cancel" => job = "stopped"

Knows(label, operation, outcome, job) ==
    /\ label \in {"heartbeat", "dispatch"} => operation = "submit" \/ job # "none"
    /\ label \in {"create", "recover"} => operation = "submit"
    /\ label \in {"read", "commit"} => Informed(operation, outcome, job)

WorkersKnow ==
    \A w \in Workers :
        pc[w] \notin {"idle", "progressions", "take"} =>
            Knows(pc[w], Op(w), intent[w], jobs[cur[w].attempt])

TruthInv == RowsAreTrue /\ WorkersKnow

JobsKeep ==
    \A a \in Attempts :
        /\ jobs[a] # "none" => jobs'[a] # "none"
        /\ jobs[a] \in {"succeeded", "stopped"} => jobs'[a] = jobs[a]

LEMMA KnowsKept ==
  ASSUME JobsKeep, NEW a \in Attempts, NEW label, NEW operation, NEW outcome,
         Knows(label, operation, outcome, jobs[a])
  PROVE  Knows(label, operation, outcome, jobs'[a])
BY DEF JobsKeep, Knows, Informed

(* A step of one worker leaves the others what they know.                   *)
LEMMA KnowledgeStep ==
  ASSUME IInvType, WorkersKnow, JobsKeep, NEW w,
         \A v \in Workers \ {w} : pc'[v] = pc[v] /\ cur'[v] = cur[v] /\ intent'[v] = intent[v],
         w \in Workers =>
            \/ pc'[w] \in {"idle", "progressions", "take"}
            \/ Knows(pc'[w], Operation(cur'[w].key), intent'[w], jobs'[cur'[w].attempt])
  PROVE  WorkersKnow'
<1>. SUFFICES ASSUME NEW v \in Workers \ {w}, pc'[v] \notin {"idle", "progressions", "take"}
              PROVE  Knows(pc'[v], Operation(cur'[v].key), intent'[v], jobs'[cur'[v].attempt])
  BY DEF WorkersKnow, Op, Operation, Knows, Informed
<1>1. pc'[v] = pc[v] /\ cur'[v] = cur[v] /\ intent'[v] = intent[v]
  OBVIOUS
<1>2. cur[v].attempt \in Attempts
  BY <1>1, HeldCommand
<1>3. Knows(pc[v], Operation(cur[v].key), intent[v], jobs[cur[v].attempt])
  BY <1>1 DEF WorkersKnow, Op
<1>4. Knows(pc[v], Operation(cur[v].key), intent[v], jobs'[cur[v].attempt])
  BY <1>2, <1>3, KnowsKept
<1>. QED  BY <1>1, <1>4

LEMMA ProceedKnows ==
  ASSUME IInvType, WorkersKnow, JobsKeep, NEW w \in Workers, Proceed(w) \/ Abort(w)
  PROVE  WorkersKnow'
<1>1. \A v \in Workers \ {w} : pc'[v] = pc[v] /\ cur'[v] = cur[v] /\ intent'[v] = intent[v]
  BY DEF Proceed, Abort, Forget, Goto, IInvType, TypeInv, ControlTypeOK
<1>2. pc'[w] \in {"idle", "take"}
  BY DEF Proceed, Abort, Forget, Goto, IInvType, TypeInv, ControlTypeOK
<1>. QED  BY <1>1, <1>2, KnowledgeStep

LEMMA GotoKnows ==
  ASSUME IInvType, WorkersKnow, JobsKeep, NEW w \in Workers, NEW label, Goto(w, label),
         UNCHANGED <<cur, intent>>, Knows(label, Op(w), intent[w], jobs'[cur[w].attempt])
  PROVE  WorkersKnow'
<1>1. \A v \in Workers \ {w} : pc'[v] = pc[v] /\ cur'[v] = cur[v] /\ intent'[v] = intent[v]
  BY DEF Goto, IInvType, TypeInv, ControlTypeOK
<1>2. pc'[w] = label /\ cur'[w] = cur[w] /\ intent'[w] = intent[w]
  BY DEF Goto, IInvType, TypeInv, ControlTypeOK
<1>3. Knows(pc'[w], Operation(cur'[w].key), intent'[w], jobs'[cur'[w].attempt])
  BY <1>2 DEF Op
<1>. QED  BY <1>1, <1>3, KnowledgeStep

LEMMA ResolveKnows ==
  ASSUME IInvType, WorkersKnow, JobsKeep, NEW w \in Workers, NEW outcome, NEW label,
         Resolve(w, outcome, label), UNCHANGED cur,
         Knows(label, Op(w), outcome, jobs'[cur[w].attempt])
  PROVE  WorkersKnow'
<1>1. \A v \in Workers \ {w} : pc'[v] = pc[v] /\ cur'[v] = cur[v] /\ intent'[v] = intent[v]
  BY DEF Resolve, Goto, IInvType, TypeInv, ControlTypeOK
<1>2. pc'[w] = label /\ cur'[w] = cur[w] /\ intent'[w] = outcome
  BY DEF Resolve, Goto, IInvType, TypeInv, ControlTypeOK
<1>3. Knows(pc'[w], Operation(cur'[w].key), intent'[w], jobs'[cur'[w].attempt])
  BY <1>2 DEF Op
<1>. QED  BY <1>1, <1>3, KnowledgeStep

(* What the worker concludes from an observation is true of the job.        *)
LEMMA ObserveKnows ==
  ASSUME NEW w \in Workers, NEW job, Observe(w, job), job \in JobStates \ {"none"},
         Op(w) \in {"submit", "sync", "reconcile", "collect", "cancel"},
         Op(w) = "cancel" => job # "running"
  PROVE  \E outcome, label :
            Resolve(w, outcome, label) /\ Knows(label, Op(w), outcome, job)
<1>1. CASE Op(w) = "cancel" /\ job = "succeeded"
  BY <1>1 DEF Observe, Knows, Informed
<1>2. CASE Op(w) = "cancel" /\ job = "stopped"
  BY <1>2 DEF Observe, Knows, Informed
<1>3. CASE Op(w) = "collect"
  <2>1. Resolve(w, IF job = "succeeded" THEN "response" ELSE "fault", "read")
    BY <1>3 DEF Observe
  <2>. QED  BY <1>3, <2>1 DEF Knows, Informed
<1>4. CASE \/ Op(w) # "collect" /\ job = "failed"
           \/ Op(w) \notin {"collect", "cancel"} /\ job = "stopped"
  BY <1>4 DEF Observe, Knows, Informed
<1>5. CASE Op(w) = "reconcile" /\ job = "running"
  <2>1. Resolve(w, "response", IF WithinWatchdogDeadline(w) THEN "poll" ELSE "cleanup")
    BY <1>5 DEF Observe
  <2>. QED  BY <2>1 DEF Knows
<1>6. CASE \/ Op(w) = "submit" /\ job \in {"running", "succeeded"}
           \/ Op(w) = "sync" /\ job \in {"running", "succeeded"}
           \/ Op(w) = "reconcile" /\ job = "succeeded"
  BY <1>6 DEF Observe, Knows, Informed
<1>. QED  BY <1>1, <1>2, <1>3, <1>4, <1>5, <1>6 DEF JobStates

LEMMA FaultKnows ==
  ASSUME NEW w \in Workers, RetryableFault(w) \/ FinalFault(w), NEW job
  PROVE  \E outcome, label :
            Resolve(w, outcome, label) /\ Knows(label, Op(w), outcome, job)
BY FaultResolves DEF Knows, Informed

LEMMA ProviderCallJobs ==
  ASSUME IInvType, FenceInv, NEW w \in Workers, ProviderCall(w)
  PROVE  JobsKeep
<1>1. cur[w].attempt \in Attempts
  BY ProviderCallShape, HeldCommand
<1>2. CASE CreateJob(w)
  <2>1. jobs[cur[w].attempt] = "none"
    <3>1. cur[w] = FirstSubmit(cur[w].attempt)
      BY <1>2 DEF FenceInv, CreatesUnderFirstLease, CreateJob
    <3>2. Holds(w, cur[w].attempt)
      BY <1>2, <3>1 DEF Holds, BeforeCreate, CreateJob
    <3>. QED  BY <1>1, <3>2 DEF FenceInv, HoldersHaveNotCreated, JobsAreCreated
  <2>2. jobs' = jobs \/ jobs' = [jobs EXCEPT ![cur[w].attempt] = "running"]
    BY <1>2 DEF CreateJob
  <2>. QED  BY <1>1, <2>1, <2>2 DEF JobsKeep, IInvType, ProviderTypeOK
<1>3. CASE StopJob(w)
  <2>1. \/ jobs' = jobs
        \/ /\ jobs[cur[w].attempt] \in {"running", "stopped"}
           /\ jobs' = [jobs EXCEPT ![cur[w].attempt] = "stopped"]
        \/ jobs' = [jobs EXCEPT ![cur[w].attempt] = IF @ = "running" THEN "stopped" ELSE @]
    BY <1>3 DEF StopJob
  <2>. QED  BY <1>1, <2>1 DEF JobsKeep, IInvType, ProviderTypeOK
<1>4. CASE Dispatch(w) \/ Recover(w) \/ Cleanup(w)
  BY <1>4 DEF Dispatch, Recover, Cleanup, providerVars, JobsKeep
<1>. QED  BY <1>2, <1>3, <1>4 DEF ProviderCall

LEMMA ProviderCallKnows ==
  ASSUME IInvType, WorkersKnow, NEW w \in Workers, ProviderCall(w)
  PROVE  \E outcome, label :
            /\ Resolve(w, outcome, label)
            /\ Knows(label, Op(w), outcome, jobs'[cur[w].attempt])
<1>. DEFINE x == cur[w].attempt
            Known == \E outcome, label :
                        Resolve(w, outcome, label) /\ Knows(label, Op(w), outcome, jobs'[x])
<1>0. /\ x \in Attempts /\ Op(w) \in {"submit", "sync", "reconcile", "collect", "cancel"}
      /\ Knows(pc[w], Op(w), intent[w], jobs[x])
      /\ jobs[x] \in JobStates
  BY ProviderCallShape, HeldCommand DEF WorkersKnow, IInvType, ProviderTypeOK
<1>a. ASSUME RetryableFault(w) \/ FinalFault(w)  PROVE Known
  BY <1>a, FaultKnows
<1>b. ASSUME NEW outcome, NEW label, Resolve(w, outcome, label), Knows(label, Op(w), outcome, jobs'[x])
      PROVE  Known
  BY <1>b
<1>1. CASE Dispatch(w)
  <2>0. pc[w] = "dispatch" /\ UNCHANGED jobs
    BY <1>1 DEF Dispatch, providerVars
  <2>1. CASE Op(w) = "submit"
    <3>1. DispatchSubmit(w)
      BY <1>1, <2>1 DEF Dispatch
    <3>2. CASE jobs[x] # "none" /\ Observe(w, jobs[x])
      BY <1>0, <2>0, <2>1, <3>2, ObserveKnows
    <3>3. ASSUME Resolve(w, "response", "create")  PROVE Known
      BY <2>1, <3>3, <1>b DEF Knows
    <3>. QED  BY <3>1, <3>2, <3>3, <1>a DEF DispatchSubmit
  <2>2. CASE Op(w) # "submit"
    <3>1. DispatchExact(w)
      BY <1>1, <2>2 DEF Dispatch
    <3>2. jobs[x] # "none"
      BY <1>0, <2>0, <2>2 DEF Knows
    <3>3. ASSUME Observe(w, jobs[x]), ~ (Op(w) = "cancel" /\ jobs[x] = "running")  PROVE Known
      BY <1>0, <2>0, <3>2, <3>3, ObserveKnows
    <3>4. ASSUME Resolve(w, "response", "stop")  PROVE Known
      BY <3>4, <1>b DEF Knows
    <3>. QED  BY <3>1, <3>3, <3>4, <1>a DEF DispatchExact
  <2>. QED  BY <2>1, <2>2
<1>2. CASE CreateJob(w)
  <2>1. Op(w) = "submit"
    BY <1>0, <1>2 DEF Knows, CreateJob
  <2>2. PICK accepted, answered \in BOOLEAN :
          /\ answered => accepted
          /\ jobs' = IF accepted THEN [jobs EXCEPT ![x] = "running"] ELSE jobs
          /\ IF answered THEN Observe(w, "running") ELSE Resolve(w, "response", "recover")
    BY <1>2 DEF CreateJob
  <2>3. CASE answered
    <3>1. jobs'[x] = "running" /\ Observe(w, "running")
      BY <1>0, <2>2, <2>3 DEF IInvType, ProviderTypeOK
    <3>. QED  BY <1>0, <2>1, <3>1, ObserveKnows DEF JobStates
  <2>4. CASE ~ answered
    <3>1. Resolve(w, "response", "recover")
      BY <2>2, <2>4
    <3>. QED  BY <2>1, <3>1, <1>b DEF Knows
  <2>. QED  BY <2>3, <2>4
<1>3. CASE Recover(w)
  <2>1. Op(w) = "submit" /\ UNCHANGED jobs
    BY <1>0, <1>3 DEF Knows, Recover, providerVars
  <2>2. CASE jobs[x] # "none" /\ Observe(w, jobs[x])
    BY <1>0, <2>1, <2>2, ObserveKnows
  <2>. QED  BY <1>3, <2>2, <1>a DEF Recover
<1>4. CASE Cleanup(w)
  <2>0. UNCHANGED jobs
    BY <1>4 DEF Cleanup, providerVars
  <2>1. CASE Resolve(w, "response", "stop")
    BY <2>1, <1>b DEF Knows
  <2>2. CASE jobs[x] = "stopped" /\ Resolve(w, "timeout", "read")
    BY <2>0, <2>2, <1>b DEF Knows, Informed
  <2>3. CASE Resolve(w, "failure", "read")
    BY <2>3, <1>b DEF Knows, Informed
  <2>. QED  BY <1>4, <2>1, <2>2, <2>3 DEF Cleanup
<1>5. CASE StopJob(w)
  <2>1. CASE /\ jobs' = [jobs EXCEPT ![x] = "stopped"]
             /\ Resolve(w, IF Op(w) = "cancel" THEN "response" ELSE "timeout", "read")
    <3>1. jobs'[x] = "stopped"
      BY <1>0, <2>1 DEF IInvType, ProviderTypeOK
    <3>2. CASE Op(w) = "cancel"
      BY <2>1, <3>1, <3>2, <1>b DEF Knows, Informed
    <3>3. CASE Op(w) # "cancel"
      BY <2>1, <3>1, <3>3, <1>b DEF Knows, Informed
    <3>. QED  BY <3>2, <3>3
  <2>2. CASE IF Op(w) = "cancel" THEN RetryableFault(w) \/ FinalFault(w)
                                 ELSE Resolve(w, "failure", "read")
    BY <2>2, <1>a, <1>b DEF Knows, Informed
  <2>. QED  BY <1>5, <2>1, <2>2 DEF StopJob
<1>. QED  BY <1>1, <1>2, <1>3, <1>4, <1>5 DEF ProviderCall

(* The rows: what a step may write.                                         *)
ErrorsKept ==
    \A a \in Attempts, k \in Keys :
        commands'[a][k].error = "timeout" => commands[a][k].error = "timeout"

LEMMA RowsStep ==
  ASSUME RowsAreTrue, JobsKeep,
         \A a \in Attempts : attempts'[a] = attempts[a] \/ RowIsTrue(attempts'[a], jobs[a]),
         \A a \in Attempts, k \in Keys :
            commands'[a][k].error = "timeout" =>
               commands[a][k].error = "timeout" \/ jobs[a] = "stopped"
  PROVE  RowsAreTrue'
<1>1. ASSUME NEW a \in Attempts  PROVE RowIsTrue(attempts'[a], jobs'[a])
  <2>1. RowIsTrue(attempts'[a], jobs[a])
    BY DEF RowsAreTrue
  <2>. QED  BY <2>1 DEF RowIsTrue, JobsKeep
<1>2. ASSUME NEW a \in Attempts, NEW k \in Keys, commands'[a][k].error = "timeout"
      PROVE  jobs'[a] = "stopped"
  BY <1>2 DEF RowsAreTrue, JobsKeep
<1>. QED  BY <1>1, <1>2 DEF RowsAreTrue, RowIsTrue

LEMMA CommandRowsStep ==
  ASSUME RowsAreTrue, JobsKeep, UNCHANGED attempts, ErrorsKept
  PROVE  RowsAreTrue'
BY RowsStep DEF ErrorsKept

LEMMA RowKeepsErrors ==
  ASSUME StoreTypeOK, NEW c \in Claim, NEW state, NEW error, error # "timeout",
         commands' = [commands EXCEPT ![c.attempt][c.key] = Completed(@, state, error)]
  PROVE  ErrorsKept
<1>1. c.attempt \in Attempts /\ c.key \in Keys
  BY DEF Claim
<1>. QED  BY <1>1 DEF ErrorsKept, Completed, StoreTypeOK

LEMMA ClaimErrors ==
  ASSUME StoreTypeOK, NEW w \in Workers, NEW S, ClaimCommands(w, S)
  PROVE  ErrorsKept
BY DEF ClaimCommands, Claimed, ErrorsKept, StoreTypeOK

LEMMA GiveBackErrors ==
  ASSUME StoreTypeOK, NEW w \in Workers, NEW c \in Claim,
         ReleaseCommand(w, c) \/ TerminalizeCommand(w, c, "conflict")
  PROVE  ErrorsKept
<1>1. CASE ReleaseCommand(w, c)
  BY <1>1, RowKeepsErrors DEF ReleaseCommand
<1>2. CASE TerminalizeCommand(w, c, "conflict")
  BY <1>2, RowKeepsErrors DEF TerminalizeCommand
<1>. QED  BY <1>1, <1>2

LEMMA CommitRows ==
  ASSUME IInvType, TruthInv, NEW w \in Workers, Commit(w)
  PROVE  RowsAreTrue'
<1>. DEFINE x == cur[w].attempt
<1>0. /\ cur[w] \in Claim /\ x \in Attempts /\ cur[w].key \in Keys /\ StoreTypeOK
      /\ attempts[x] \in Attempt
  BY HeldCommand DEF Commit, StoreTypeOK
<1>1. Informed(Op(w), intent[w], jobs[x]) /\ RowIsTrue(attempts[x], jobs[x])
  BY <1>0 DEF TruthInv, WorkersKnow, RowsAreTrue, Knows, Commit
<1>2. JobsKeep /\ RowsAreTrue
  BY DEF Commit, providerVars, JobsKeep, TruthInv
<1>3. CASE /\ Op(w) = "reconcile" /\ intent[w] = "response"
           /\ PrepareCollection(w, cur[w], seen[w], reading[w])
  <2>1. /\ <<attempts[x].state, "succeeded">> \in ValidAttemptTransition
        /\ attempts'[x] = Transitioned(attempts[x], "succeeded")
        /\ \A a \in Attempts \ {x} : attempts'[a] = attempts[a]
    BY <1>0, <1>3 DEF PrepareCollection, ValidAttemptUpdate, StoreTypeOK
  <2>2. attempts[x].state \in {"submitted", "running"} /\ jobs[x] = "succeeded"
    BY <1>1, <1>3, <2>1, TransitionShape DEF Informed
  <2>3. RowIsTrue(attempts'[x], jobs[x])
    <3>1. /\ attempts'[x].state = "succeeded"
          /\ attempts'[x].ref = (attempts[x].ref \/ FALSE)
      BY <2>1 DEF Transitioned
    <3>. QED  BY <1>0, <1>1, <2>2, <3>1 DEF RowIsTrue, Attempt
  <2>4. ErrorsKept
    BY <1>0, <1>3 DEF PrepareCollection, ErrorsKept, Completed, NewCommand, StoreTypeOK
  <2>. QED  BY <1>2, <2>1, <2>3, <2>4, RowsStep DEF ErrorsKept
<1>4. ASSUME NEW next \in {"collected", "failed"},
             CommitCollectionCompletion(w, cur[w], reading[w], next)
      PROVE  RowsAreTrue'
  <2>1. \E state, error :
           /\ error # "timeout"
           /\ commands' = [commands EXCEPT ![x][cur[w].key] = Completed(@, state, error)]
    <3>1. CASE next = "collected"
      BY <1>4, <3>1 DEF CommitCollectionCompletion
    <3>2. CASE next # "collected"
      BY <1>4, <3>2 DEF CommitCollectionCompletion
    <3>. QED  BY <3>1, <3>2
  <2>2. ErrorsKept
    BY <1>0, <2>1, RowKeepsErrors
  <2>. QED  BY <1>2, <1>4, <2>2, CommandRowsStep DEF CommitCollectionCompletion
<1>5. ASSUME NEW next \in {"submitted", "running", "cancelled", "failed"},
             NEW nextKey \in {"reconcile", None}, NEW error \in {"none", "failure", "timeout"},
             CommitCommandOutcome(w, cur[w], seen[w], reading[w], next, nextKey, error),
             next = "submitted" => Op(w) = "submit" /\ intent[w] = "response",
             next = "cancelled" => Op(w) = "cancel" /\ intent[w] = "response",
             error = "timeout" => intent[w] = "timeout"
      PROVE  RowsAreTrue'
  <2>1. /\ <<attempts[x].state, next>> \in ValidAttemptTransition
        /\ attempts'[x] = Transitioned(attempts[x], next)
        /\ \A a \in Attempts \ {x} : attempts'[a] = attempts[a]
    BY <1>0, <1>5 DEF CommitCommandOutcome, ValidAttemptUpdate, StoreTypeOK
  <2>2. /\ next = "submitted" => jobs[x] # "none"
        /\ next = "cancelled" => jobs[x] = "stopped"
        /\ next = "running" => attempts[x].state \in {"submitted", "running"}
        /\ error = "timeout" => jobs[x] = "stopped"
    BY <1>1, <1>5, <2>1, TransitionShape DEF Informed
  <2>3. RowIsTrue(attempts'[x], jobs[x])
    <3>1. /\ attempts'[x].state = next
          /\ attempts'[x].ref = (attempts[x].ref \/ next = "submitted")
      BY <2>1 DEF Transitioned
    <3>. QED  BY <1>0, <1>1, <1>5, <2>2, <3>1 DEF RowIsTrue, Attempt
  <2>4. \A a \in Attempts, k \in Keys :
           commands'[a][k].error = "timeout" =>
              commands[a][k].error = "timeout" \/ jobs[a] = "stopped"
    BY <1>0, <1>5, <2>2 DEF CommitCommandOutcome, Completed, NewCommand, StoreTypeOK
  <2>. QED  BY <1>2, <2>1, <2>3, <2>4, RowsStep
<1>. QED  BY <1>3, <1>4, <1>5, CommitTransaction

LEMMA EnqueueRows ==
  ASSUME IInvType, RowsAreTrue, NEW x \in Attempts, NEW y \in OperatorKeys, NEW sn, NEW read,
         CancelBeforeSubmit(x, y, sn, read) \/ EnqueueIntent(x, y, sn, read),
         UNCHANGED jobs
  PROVE  RowsAreTrue'
<1>0. StoreTypeOK /\ JobsKeep /\ y \in Keys /\ "submit" \in Keys
  BY DEF IInvType, TypeInv, ControlTypeOK, JobsKeep, OperatorKeys, Keys, WorkerKeys
<1>1. CASE CancelBeforeSubmit(x, y, sn, read)
  <2>1. ErrorsKept
    BY <1>0, <1>1 DEF CancelBeforeSubmit, ErrorsKept, Completed, NewCommand, StoreTypeOK
  <2>2. RowIsTrue(attempts'[x], jobs[x]) /\ \A a \in Attempts \ {x} : attempts'[a] = attempts[a]
    BY <1>0, <1>1, CancelBeforeSubmitMoves DEF RowIsTrue
  <2>. QED  BY <1>0, <2>1, <2>2, RowsStep DEF ErrorsKept
<1>2. CASE EnqueueIntent(x, y, sn, read)
  <2>1. ErrorsKept
    BY <1>0, <1>2 DEF EnqueueIntent, ErrorsKept, NewCommand, StoreTypeOK
  <2>. QED  BY <1>0, <1>2, <2>1, CommandRowsStep DEF EnqueueIntent
<1>. QED  BY <1>1, <1>2

LEMMA SameRows ==
  ASSUME RowsAreTrue, JobsKeep, UNCHANGED storeVars
  PROVE  RowsAreTrue'
BY CommandRowsStep DEF storeVars, ErrorsKept

LEMMA SameWorkers ==
  ASSUME IInvType, WorkersKnow, JobsKeep, UNCHANGED workerVars
  PROVE  WorkersKnow'
<1>1. CASE Workers = {}
  BY <1>1 DEF WorkersKnow
<1>2. ASSUME NEW w \in Workers, pc[w] \notin {"idle", "progressions", "take"}
      PROVE  Knows(pc[w], Op(w), intent[w], jobs'[cur[w].attempt])
  BY <1>2, HeldCommand, KnowsKept DEF WorkersKnow
<1>. QED  BY <1>1, <1>2 DEF WorkersKnow, workerVars, Op, Operation, Knows, Informed

LEMMA ControlStepTruth ==
  ASSUME IInvType, TruthInv, NEW w \in Workers, ControlStep(w), UNCHANGED providerVars
  PROVE  TruthInv'
<1>0. StoreTypeOK /\ ControlTypeOK /\ JobsKeep /\ RowsAreTrue /\ WorkersKnow
  BY DEF IInvType, TypeInv, ControlTypeOK, providerVars, JobsKeep, TruthInv
<1>1. CASE ClaimCancellations(w) \/ ClaimProgressions(w)
  <2>1. UNCHANGED attempts /\ ErrorsKept
    BY <1>0, <1>1, ClaimErrors DEF ClaimCancellations, ClaimProgressions, ClaimCommands
  <2>2. PICK label \in {"progressions", "idle", "take"} : Goto(w, label)
    BY <1>1 DEF ClaimCancellations, ClaimProgressions
  <2>3. \A v \in Workers \ {w} : pc'[v] = pc[v] /\ cur'[v] = cur[v] /\ intent'[v] = intent[v]
    BY <1>0, <1>1, <2>2 DEF ClaimCancellations, ClaimProgressions, Goto, ControlTypeOK
  <2>4. pc'[w] \in {"idle", "progressions", "take"}
    BY <1>0, <2>2 DEF Goto, ControlTypeOK
  <2>. QED  BY <1>0, <2>1, <2>3, <2>4, CommandRowsStep, KnowledgeStep DEF TruthInv
<1>2. CASE Take(w)
  <2>1. PICK c \in batch[w] :
           /\ cur' = [cur EXCEPT ![w] = c]
           /\ Goto(w, IF CommandCanRunFromAttempt(Operation(c.key), attempts[c.attempt].state)
                      THEN "heartbeat" ELSE "terminalize")
    BY <1>2 DEF Take
  <2>2. c.attempt \in Attempts /\ c.key \in Keys /\ cur'[w] = c
    BY <1>0, <2>1 DEF ControlTypeOK, Claim
  <2>3. \A v \in Workers \ {w} : pc'[v] = pc[v] /\ cur'[v] = cur[v] /\ intent'[v] = intent[v]
    BY <1>0, <1>2, <2>1 DEF Take, Goto, ControlTypeOK
  <2>4. Knows(pc'[w], Operation(cur'[w].key), intent'[w], jobs'[cur'[w].attempt])
    <3>1. CASE CommandCanRunFromAttempt(Operation(c.key), attempts[c.attempt].state)
      <4>1. pc'[w] = "heartbeat"
        BY <1>0, <2>1, <3>1 DEF Goto, ControlTypeOK
      <4>2. Operation(c.key) = "submit"
            \/ attempts[c.attempt].state \in {"submitted", "running", "succeeded"}
        BY <2>2, <3>1, OperationOfKey DEF CommandCanRunFromAttempt
      <4>3. Operation(c.key) = "submit" \/ jobs[c.attempt] # "none"
        BY <1>0, <2>2, <4>2 DEF RowsAreTrue, RowIsTrue
      <4>. QED  BY <2>2, <4>1, <4>3 DEF Knows, providerVars
    <3>2. CASE ~ CommandCanRunFromAttempt(Operation(c.key), attempts[c.attempt].state)
      <4>1. pc'[w] = "terminalize"
        BY <1>0, <2>1, <3>2 DEF Goto, ControlTypeOK
      <4>. QED  BY <4>1 DEF Knows
    <3>. QED  BY <3>1, <3>2
  <2>. QED  BY <1>0, <1>2, <2>3, <2>4, SameRows, KnowledgeStep DEF Take, TruthInv
<1>3. CASE Heartbeat(w)
  <2>1. RowsAreTrue'
    BY <1>0, <1>3, SameRows DEF Heartbeat
  <2>2. CASE Goto(w, "dispatch") /\ UNCHANGED <<cur, intent>>
    <3>1. Knows("dispatch", Op(w), intent[w], jobs'[cur[w].attempt])
      BY <1>0, <1>3 DEF WorkersKnow, Knows, Heartbeat, providerVars
    <3>. QED  BY <1>0, <2>1, <2>2, <3>1, GotoKnows DEF TruthInv
  <2>3. CASE Proceed(w)
    BY <1>0, <2>1, <2>3, ProceedKnows DEF TruthInv
  <2>. QED  BY <1>3, <2>2, <2>3 DEF Heartbeat
<1>4. CASE Release(w) \/ Terminalize(w)
  <2>1. cur[w] \in Claim
    BY <1>4, HeldCommand DEF Release, Terminalize
  <2>2. RowsAreTrue'
    <3>1. CASE ReleaseCommand(w, cur[w]) \/ TerminalizeCommand(w, cur[w], "conflict")
      BY <1>0, <2>1, <3>1, GiveBackErrors, CommandRowsStep DEF ReleaseCommand, TerminalizeCommand
    <3>2. CASE UNCHANGED storeVars
      BY <1>0, <3>2, SameRows
    <3>. QED  BY <1>4, <3>1, <3>2 DEF Release, Terminalize
  <2>3. WorkersKnow'
    BY <1>0, <1>4, ProceedKnows DEF Release, Terminalize
  <2>. QED  BY <2>2, <2>3 DEF TruthInv
<1>. QED  BY <1>1, <1>2, <1>3, <1>4 DEF ControlStep

LEMMA EnvironmentStepTruth ==
  ASSUME IInvType, TruthInv, EnvironmentStep, UNCHANGED providerVars
  PROVE  TruthInv'
<1>0. StoreTypeOK /\ JobsKeep /\ RowsAreTrue /\ WorkersKnow /\ UNCHANGED jobs
  BY DEF IInvType, TypeInv, ControlTypeOK, providerVars, JobsKeep, TruthInv
<1>1. ASSUME NEW w \in Workers, Crash(w)  PROVE TruthInv'
  BY <1>0, <1>1, SameRows, ProceedKnows DEF Crash, TruthInv
<1>2. ASSUME NEW a \in Attempts, NEW k \in OperatorKeys, RequestStep(a, k)  PROVE TruthInv'
  <2>1. CASE EnqueueControlCommand(a, k)
    BY <1>0, <2>1, EnqueueRows, SameWorkers DEF EnqueueControlCommand, TruthInv
  <2>2. CASE UNCHANGED storeVars /\ UNCHANGED workerVars
    BY <1>0, <2>2, SameRows, SameWorkers DEF TruthInv
  <2>. QED
    BY <1>2, <2>1, <2>2 DEF RequestStep, CancelExecutionAttempt, ReconcileExecutionAttempt,
                            RequestFails
<1>3. ASSUME NEW a \in Attempts, NEW k \in Keys,
             AbandonedLeaseExpires(a, k) \/ LateLeaseExpires(a, k)
      PROVE  TruthInv'
  <2>1. Expire(a, k)
    BY <1>3 DEF AbandonedLeaseExpires, LateLeaseExpires
  <2>2. ErrorsKept
    BY <1>0, <2>1 DEF Expire, ErrorsKept, StoreTypeOK, Command
  <2>. QED  BY <1>0, <2>1, <2>2, CommandRowsStep, SameWorkers DEF Expire, TruthInv
<1>. QED  BY <1>1, <1>2, <1>3 DEF EnvironmentStep

LEMMA InitTruth == Init => TruthInv
<1>. SUFFICES ASSUME Init PROVE TruthInv
  OBVIOUS
<1>1. RowsAreTrue
  BY DEF Init, ControlInit, StoreInit, RowsAreTrue, RowIsTrue, AbsentCommand, NewCommand
<1>2. WorkersKnow
  BY DEF Init, ControlInit, WorkersKnow
<1>. QED  BY <1>1, <1>2 DEF TruthInv

LEMMA StepTruth == IInvType /\ FenceInv /\ TruthInv /\ [Next]_vars => TruthInv'
<1>. SUFFICES ASSUME IInvType, FenceInv, TruthInv, [Next]_vars PROVE TruthInv'
  OBVIOUS
<1>0. StoreTypeOK /\ RowsAreTrue /\ WorkersKnow
  BY DEF IInvType, TypeInv, ControlTypeOK, TruthInv
<1>a. ASSUME UNCHANGED providerVars  PROVE JobsKeep
  BY <1>a DEF providerVars, JobsKeep
<1>1. ASSUME NEW w \in Workers, ControlStep(w), UNCHANGED providerVars  PROVE TruthInv'
  BY <1>1, ControlStepTruth
<1>2. ASSUME NEW w \in Workers, ProviderCall(w)  PROVE TruthInv'
  <2>1. JobsKeep /\ UNCHANGED storeVars /\ UNCHANGED cur
    BY <1>2, ProviderCallJobs, ProviderCallShape
  <2>2. PICK outcome, label :
           Resolve(w, outcome, label) /\ Knows(label, Op(w), outcome, jobs'[cur[w].attempt])
    BY <1>0, <1>2, ProviderCallKnows
  <2>3. WorkersKnow'
    BY <1>0, <2>1, <2>2, ResolveKnows
  <2>. QED  BY <1>0, <2>1, <2>3, SameRows DEF TruthInv
<1>3. ASSUME NEW w \in Workers, ReadSequences(w)  PROVE TruthInv'
  <2>0. JobsKeep /\ UNCHANGED storeVars /\ UNCHANGED jobs
    BY <1>3, <1>a DEF ReadSequences, providerVars
  <2>1. CASE Abort(w)
    BY <1>0, <2>0, <2>1, SameRows, ProceedKnows DEF TruthInv
  <2>2. CASE Goto(w, "commit") /\ UNCHANGED <<cur, intent>>
    <3>1. Knows("commit", Op(w), intent[w], jobs'[cur[w].attempt])
      BY <1>0, <1>3, <2>0 DEF WorkersKnow, Knows, ReadSequences
    <3>. QED  BY <1>0, <2>0, <2>2, <3>1, SameRows, GotoKnows DEF TruthInv
  <2>. QED  BY <1>3, <2>1, <2>2 DEF ReadSequences
<1>4. ASSUME NEW w \in Workers, Commit(w)  PROVE TruthInv'
  <2>1. RowsAreTrue'
    BY <1>4, CommitRows
  <2>. QED  BY <1>0, <1>4, <1>a, <2>1, ProceedKnows DEF Commit, TruthInv
<1>5. ASSUME NEW w \in Workers, CommitRefused(w)  PROVE TruthInv'
  <2>0. JobsKeep /\ UNCHANGED storeVars
    BY <1>5, <1>a, RefusalShape
  <2>1. CASE Abort(w) \/ Proceed(w)
    BY <1>0, <2>0, <2>1, SameRows, ProceedKnows DEF TruthInv
  <2>2. ASSUME NEW outcome \in {"failure", "fault"}, Resolve(w, outcome, "read"), UNCHANGED cur
        PROVE  TruthInv'
    <3>1. Knows("read", Op(w), outcome, jobs'[cur[w].attempt])
      BY DEF Knows, Informed
    <3>. QED  BY <1>0, <2>0, <2>2, <3>1, SameRows, ResolveKnows DEF TruthInv
  <2>3. CASE Goto(w, "terminalize") /\ UNCHANGED <<cur, intent>>
    <3>1. Knows("terminalize", Op(w), intent[w], jobs'[cur[w].attempt])
      BY DEF Knows
    <3>. QED  BY <1>0, <2>0, <2>3, <3>1, SameRows, GotoKnows DEF TruthInv
  <2>. QED  BY <1>5, <2>1, <2>2, <2>3, RefusalShape
<1>6. ASSUME NEW w \in Workers, PollAgain(w) \/ Settle(w)  PROVE TruthInv'
  <2>1. cur[w] \in Claim /\ JobsKeep /\ (Proceed(w) \/ Abort(w))
    BY <1>6, <1>a, HeldCommand DEF PollAgain, Settle
  <2>2. CASE ReleaseCommand(w, cur[w]) \/ TerminalizeCommand(w, cur[w], "conflict")
    BY <1>0, <2>1, <2>2, GiveBackErrors, CommandRowsStep, ProceedKnows
       DEF ReleaseCommand, TerminalizeCommand, TruthInv
  <2>3. CASE UNCHANGED storeVars
    BY <1>0, <2>1, <2>3, SameRows, ProceedKnows DEF TruthInv
  <2>. QED  BY <1>6, <2>2, <2>3 DEF PollAgain, Settle
<1>7. CASE EnvironmentStep /\ UNCHANGED providerVars
  BY <1>7, EnvironmentStepTruth
<1>8. ASSUME NEW a \in Attempts, JobEnds(a) \/ WatchdogDeadlinePasses(a)  PROVE TruthInv'
  <2>1. UNCHANGED storeVars /\ UNCHANGED workerVars
    BY <1>8 DEF JobEnds, WatchdogDeadlinePasses, controlVars
  <2>2. JobsKeep
    BY <1>8 DEF JobEnds, WatchdogDeadlinePasses, JobsKeep, IInvType, ProviderTypeOK
  <2>. QED  BY <1>0, <2>1, <2>2, SameRows, SameWorkers DEF TruthInv
<1>9. CASE UNCHANGED vars
  <2>1. UNCHANGED storeVars /\ UNCHANGED workerVars /\ UNCHANGED providerVars
    BY <1>9 DEF vars, controlVars
  <2>. QED  BY <1>0, <1>a, <2>1, SameRows, SameWorkers DEF TruthInv
<1>. QED
  BY <1>1, <1>2, <1>3, <1>4, <1>5, <1>6, <1>7, <1>8, <1>9 DEF Next, WorkerStep, ProviderCall

(* What an attempt claims about its job is true of the job, however late,   *)
(* repeated or overtaken the answer was that led to the claim: a success    *)
(* is a job that succeeded, a cancellation or a timeout one that stopped.   *)
THEOREM OutcomesAreTrue == Spec => []OutcomeIsOfTheJob
<1>1. TruthInv => OutcomeIsOfTheJob
  BY DEF TruthInv, RowsAreTrue, RowIsTrue, OutcomeIsOfTheJob
<1>. QED
  BY <1>1, InitType, InitFence, InitTruth, StepType, StepFence, StepTruth, PTL DEF Spec

-----------------------------------------------------------------------------
(* The event log                                                            *)

LEMMA CommitLogs ==
  ASSUME IInvType, ErrorsAreFinal, CollectAfterSuccess, NEW w \in Workers, Commit(w)
  PROVE  LogMoves
<1>1. cur[w] \in Claim /\ cur[w].key \in Keys /\ StoreTypeOK
  BY HeldCommand DEF Commit
<1>2. Op(w) = "collect" => cur[w].key = "collect"
  BY <1>1, OperationOfKey DEF Op
<1>3. None # "collect"
  BY NoneAssumption DEF WorkerKeys
<1>4. CASE PrepareCollection(w, cur[w], seen[w], reading[w])
  BY <1>1, <1>4, PrepareCollectionLogs
<1>5. CASE /\ Op(w) = "collect"
           /\ \E next \in {"collected", "failed"} :
                 CommitCollectionCompletion(w, cur[w], reading[w], next)
  BY <1>1, <1>2, <1>5, CommitCollectionCompletionLogs
<1>6. ASSUME NEW next, NEW nextKey \in {"reconcile", None},
             NEW error \in {"none", "failure", "timeout"},
             CommitCommandOutcome(w, cur[w], seen[w], reading[w], next, nextKey, error)
      PROVE  LogMoves
  BY <1>1, <1>3, <1>6, CommitCommandOutcomeLogs
<1>. QED  BY <1>4, <1>5, <1>6, CommitTransaction

LEMMA GiveBackLogs ==
  ASSUME IInvType, ErrorsAreFinal, CollectAfterSuccess, NEW w \in Workers, PollAgain(w) \/ Settle(w)
  PROVE  LogMoves
<1>1. cur[w] \in Claim /\ StoreTypeOK
  BY HeldCommand DEF PollAgain, Settle
<1>. QED
  BY <1>1, ReleaseCommandLogs, TerminalizeCommandLogs, UnchangedStoreLogs DEF PollAgain, Settle

LEMMA StepLogs ==
  ASSUME IInvType, ErrorsAreFinal, CollectAfterSuccess, [Next]_vars
  PROVE  LogMoves
<1>0. TypeInv
  BY DEF IInvType
<1>1. ASSUME NEW w \in Workers, ControlStep(w)  PROVE LogMoves
  BY <1>0, <1>1, ControlStepLogs
<1>2. ASSUME NEW w \in Workers, Commit(w)  PROVE LogMoves
  BY <1>2, CommitLogs
<1>3. ASSUME NEW w \in Workers, PollAgain(w) \/ Settle(w)  PROVE LogMoves
  BY <1>3, GiveBackLogs
<1>4. CASE EnvironmentStep
  BY <1>0, <1>4, EnvironmentStepLogs
<1>5. CASE UNCHANGED storeVars
  BY <1>5, UnchangedStoreLogs
<1>6. ASSUME NEW w \in Workers, ProviderCall(w) \/ ReadSequences(w) \/ CommitRefused(w)
      PROVE  UNCHANGED storeVars
  BY <1>6, ProviderCallShape, RefusalShape DEF ReadSequences
<1>7. ASSUME NEW a \in Attempts, JobEnds(a) \/ WatchdogDeadlinePasses(a)
      PROVE  UNCHANGED storeVars
  BY <1>7 DEF JobEnds, WatchdogDeadlinePasses, controlVars
<1>. QED
  BY <1>1, <1>2, <1>3, <1>4, <1>5, <1>6, <1>7
     DEF Next, WorkerStep, ProviderCall, vars, controlVars

LEMMA LogsStep == IInvType /\ LogInv /\ [Next]_vars => IInvType' /\ LogInv'
<1>. SUFFICES ASSUME IInvType, LogInv, [Next]_vars PROVE IInvType' /\ LogInv'
  OBVIOUS
<1>1. IInvType'
  BY StepType
<1>2. LogMoves
  BY StepLogs DEF LogInv
<1>. QED
  BY <1>1, <1>2, LogInvStep DEF LogMoves, IInvType, TypeInv, ControlTypeOK

(* Late answers, polls, lost leases, refused commits, watchdog timeouts and *)
(* cancels that meet a finished job never tear the event log from its       *)
(* attempt: it is the chain of transitions from prepared to the stored      *)
(* state, and the state version counts them.                                *)
THEOREM LogIsHistory == Spec => []EventLogIsHistory
<1>1. Init => IInvType /\ LogInv
  BY InitType, LogInvInit DEF Init
<1>2. LogInv => EventLogIsHistory
  BY DEF LogInv
<1>. QED  BY <1>1, <1>2, LogsStep, PTL DEF Spec

(* Exactly once: a command that succeeded, failed or timed out its attempt  *)
(* left one event, and one that was released, polled, refused or settled in *)
(* favour of another command left none.                                     *)
THEOREM OutcomesLoggedOnce == Spec => []OutcomesAreLoggedOnce
<1>1. Init => IInvType /\ LogInv
  BY InitType, LogInvInit DEF Init
<1>2. LogInv => OutcomesAreLoggedOnce
  BY DEF LogInv
<1>. QED  BY <1>1, <1>2, LogsStep, PTL DEF Spec

=============================================================================
