--------------------------- MODULE SimulationWorker ---------------------------
(***************************************************************************)
(* Workflow simulation: the worker that drains the commands of simulated   *)
(* attempts against the deterministic fake provider, together with the     *)
(* operator requests of CommandControl.                                    *)
(***************************************************************************)
EXTENDS CommandControl

VARIABLE
    jobs      \* jobs[a]: what the provider holds for attempt a

vars == <<controlVars, jobs>>

TypeOK ==
    /\ ControlTypeOK
    /\ jobs \in [Attempts -> {"none", "accepted", "stopped"}]

Init ==
    /\ ControlInit
    /\ jobs = [a \in Attempts |-> "none"]

-----------------------------------------------------------------------------
(* The provider call.  A fault may hit before the provider acts or after it *)
(* accepted the operation; the attempt's idempotency key makes any repeat   *)
(* of a submit the same job.                                                *)
ProviderEffect(a, operation) ==
    CASE operation = "submit" -> [jobs EXCEPT ![a] = IF @ = "none" THEN "accepted" ELSE @]
      [] operation = "cancel" -> [jobs EXCEPT ![a] = "stopped"]
      [] OTHER                -> jobs

Dispatch(w) ==
    /\ pc[w] = "dispatch"
    /\ \E outcome \in {"responded", "before_response", "after_acceptance", "malformed"} :
          /\ jobs' = IF outcome = "before_response" THEN jobs
                     ELSE ProviderEffect(cur[w].attempt, Op(w))
          /\ LET retryable == outcome \in {"before_response", "after_acceptance"}
                 again     == retryable /\ cur[w].lease < MaximumCommandAttempts IN
             /\ Goto(w, IF again THEN "release" ELSE "read")
             /\ intent' = [intent EXCEPT ![w] =
                             IF outcome = "responded" \/ again THEN "response" ELSE "failure"]
    /\ UNCHANGED <<storeVars, batch, cur, seen, reading, requests, boundVars>>

(* listAttemptEvents, listAttemptCommands and listAttemptCollections.  A    *)
(* collect whose collection is no longer prepared throws.                   *)
ReadSequences(w) ==
    /\ pc[w] = "read"
    /\ \/ /\ Op(w) = "collect" /\ intent[w] = "response"
          /\ collections[cur[w].attempt] # "prepared"
          /\ Abort(w)
       \/ /\ Op(w) = "collect" /\ intent[w] = "response" =>
                collections[cur[w].attempt] = "prepared"
          /\ reading' = [reading EXCEPT ![w] = ReadingOf(cur[w].attempt)]
          /\ Goto(w, "commit")
          /\ UNCHANGED <<batch, cur, seen, intent>>
    /\ UNCHANGED <<storeVars, requests, jobs, boundVars>>

-----------------------------------------------------------------------------
(* commitSuccessfulResponse and commitTerminalFailure                       *)

(* The state a successful response moves its attempt to.                    *)
NextState == [submit |-> "submitted", sync |-> "running", cancel |-> "cancelled"]

(* Mutant: a sync stores no reconcile to follow it.                         *)
NextKeyForgotten == [submit |-> "sync", sync |-> None, cancel |-> None]

(* The command that it stores to follow.                                    *)
NextKey == [submit |-> "sync", sync |-> "reconcile", cancel |-> None]

CommitResponse(w) ==
    CASE Op(w) = "reconcile" -> PrepareCollection(w, cur[w], seen[w], reading[w])
      [] Op(w) = "collect"   -> CommitCollectionCompletion(w, cur[w], reading[w], "collected")
      [] OTHER -> CommitCommandOutcome(w, cur[w], seen[w], reading[w],
                                       NextState[Op(w)], NextKey[Op(w)], "none")

CommitFailure(w) ==
    IF Op(w) = "collect"
    THEN CommitCollectionCompletion(w, cur[w], reading[w], "failed")
    ELSE CommitCommandOutcome(w, cur[w], seen[w], reading[w], "failed", None, "failure")

Conflict(w) ==
    IF intent[w] = "failure"
    THEN IF Op(w) = "collect"
         THEN CompletionConflict(w, cur[w], reading[w], "failed")
         ELSE CommitConflict(w, cur[w], seen[w], reading[w], "failed", None)
    ELSE CASE Op(w) = "reconcile" -> PrepareConflict(w, cur[w], seen[w], reading[w])
           [] Op(w) = "collect"   -> CompletionConflict(w, cur[w], reading[w], "collected")
           [] OTHER -> CommitConflict(w, cur[w], seen[w], reading[w],
                                      NextState[Op(w)], NextKey[Op(w)])

Commit(w) ==
    /\ pc[w] = "commit"
    /\ IF intent[w] = "response" THEN CommitResponse(w) ELSE CommitFailure(w)
    /\ Proceed(w)
    /\ UNCHANGED <<requests, jobs, boundVars>>

(* Mutant: every refused response ends its command.                         *)
TerminalizeRefused(w) ==
    /\ pc[w] = "commit"
    /\ Conflict(w) # "none"
    /\ Goto(w, "terminalize")
    /\ UNCHANGED <<storeVars, batch, cur, seen, reading, intent, requests, jobs, boundVars>>

(* A response refused for a state conflict sends a cancel to the race check *)
(* and a sync or reconcile to the yield check; any other refusal throws.    *)
CommitRefused(w) ==
    /\ pc[w] = "commit"
    /\ Conflict(w) # "none"
    /\ LET checked == intent[w] = "response" /\ Conflict(w) = "state_conflict" IN
       IF checked /\ Op(w) \in {"cancel", "sync", "reconcile"}
       THEN /\ Goto(w, IF Op(w) = "cancel" THEN "race" ELSE "yield")
            /\ UNCHANGED <<batch, cur, seen, reading, intent>>
       ELSE Abort(w)
    /\ UNCHANGED <<storeVars, requests, jobs, boundVars>>

(* resolveCancelProgressionRace: a progression won the compare-and-swap.    *)
ResolveCancelProgressionRace(w) ==
    /\ pc[w] = "race"
    /\ LET state == attempts[cur[w].attempt].state IN
       IF state = "prepared" THEN Abort(w)
       ELSE /\ Goto(w, IF IsTerminal(state) THEN "terminalize" ELSE "release")
            /\ UNCHANGED <<batch, cur, seen, reading, intent>>
    /\ UNCHANGED <<storeVars, requests, jobs, boundVars>>

(* commandMustYieldToCancellation                                           *)
CommandMustYieldToCancellation(a) ==
    \/ attempts[a].state = "cancelled"
    \/ \E k \in CancelKeys : commands[a][k].state \in {"pending", "claimed", "succeeded"}

YieldToCancellation(w) ==
    /\ pc[w] = "yield"
    /\ IF CommandMustYieldToCancellation(cur[w].attempt)
       THEN /\ Goto(w, "terminalize")
            /\ UNCHANGED <<batch, cur, seen, reading, intent>>
       ELSE Abort(w)
    /\ UNCHANGED <<storeVars, requests, jobs, boundVars>>

-----------------------------------------------------------------------------
WorkerStep(w) ==
    \/ ControlStep(w) /\ UNCHANGED jobs
    \/ Dispatch(w) \/ ReadSequences(w) \/ Commit(w) \/ CommitRefused(w)
    \/ ResolveCancelProgressionRace(w) \/ YieldToCancellation(w)

Next ==
    \/ \E w \in Workers : WorkerStep(w)
    \/ EnvironmentStep /\ UNCHANGED jobs

Spec == Init /\ [][Next]_vars

(* The scheduler ticks for ever, every await returns, and time passes.      *)
Fairness ==
    /\ \A w \in Workers : WF_vars(WorkerStep(w))
    /\ \A a \in Attempts, k \in Keys :
          WF_vars(AbandonedLeaseExpires(a, k) /\ UNCHANGED jobs)

FairSpec == Spec /\ Fairness

-----------------------------------------------------------------------------
(* The inductive invariant behind CancellationWins: whatever leads a worker *)
(* to settle a cancel command, its attempt is finished by then.             *)
RefusalsAreKept ==
    \A w \in Workers :
        /\ pc[w] = "yield" => cur[w].key \notin CancelKeys
        /\ pc[w] = "terminalize" /\ cur[w].key \in CancelKeys =>
              IsTerminal(attempts[cur[w].attempt].state)

CancellationInvariant ==
    /\ HoldsCommand
    /\ SettledCancelIsOver
    /\ RequestsAreSnapshots
    /\ CancelsLeasedAfterSubmit
    /\ RefusalsAreKept
    /\ CancellationWins

(* A cancellation of a pending submit is a zero-transport cancellation: the *)
(* comment of cancelExecutionAttempt takes pending to mean never dispatched. *)
ZeroTransportPreSubmitCancellation ==
    \A a \in Attempts :
        commands[a]["submit"].error = "cancelled_before_submit" => jobs[a] = "none"

(* The workers, their leases, retries and crashes implement the lifecycle   *)
(* an attempt promises, one transition at a time.                           *)
Lifecycle == INSTANCE AttemptLifecycle WITH
    state      <- [a \in Attempts |-> attempts[a].state],
    cancelling <- [a \in Attempts |-> HasCancelIntent(a)],
    collection <- collections

ImplementsLifecycle == Lifecycle!Spec
=============================================================================
