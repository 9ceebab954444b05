-------------------------- MODULE RealProviderWorker --------------------------
(***************************************************************************)
(* Execution on a real provider: the worker that drives a billed external  *)
(* job through CreateJob, ListJobs, GetJob and StopJob.  The job moves on  *)
(* its own, the answer of a CreateJob may be lost, a search may not find   *)
(* the job it looks for, and a wall-clock watchdog ends jobs that hang.    *)
(*                                                                         *)
(* intent[w] tells which of the worker's two try blocks an outcome belongs *)
(* to: a "fault" is committed in the handler of the provider call, where a *)
(* refusal is thrown to the scheduler; every other outcome is committed    *)
(* where a refusal ends the command.                                       *)
(***************************************************************************)
EXTENDS CommandControl

CONSTANT
    MaxPolls  \* bound: leases after which a watchdog deadline has passed

ASSUME PollsAssumption == MaxPolls \in Nat

VARIABLES
    jobs,     \* jobs[a]: the job the provider holds for attempt a
    creates,  \* creates[a]: CreateJob calls the provider accepted for a
    overdue   \* overdue[a]: the watchdog deadline of a has passed

providerVars == <<jobs, creates, overdue>>
vars == <<controlVars, providerVars>>

JobStates == {"none", "running", "succeeded", "failed", "stopped"}

TypeOK ==
    /\ ControlTypeOK
    /\ jobs \in [Attempts -> JobStates]
    /\ creates \in [Attempts -> Nat]
    /\ overdue \in [Attempts -> BOOLEAN]

Init ==
    /\ ControlInit
    /\ jobs = [a \in Attempts |-> "none"]
    /\ creates = [a \in Attempts |-> 0]
    /\ overdue = [a \in Attempts |-> FALSE]

-----------------------------------------------------------------------------
(* How the worker goes on once it knows the outcome of a provider call      *)

Resolve(w, outcome, label) ==
    /\ intent' = [intent EXCEPT ![w] = outcome]
    /\ Goto(w, label)

WithinWatchdogDeadline(w) ==
    /\ Op(w) \in {"sync", "reconcile"}
    /\ ~ overdue[cur[w].attempt]
    /\ cur[w].lease < MaxPolls

(* Mutant: the last retry ends the command and forgets its attempt.         *)
ForgetfulRetryableFault(w) ==
    IF cur[w].lease < MaximumCommandAttempts \/ WithinWatchdogDeadline(w)
    THEN Resolve(w, "fault", "release") ELSE Resolve(w, "fault", "terminalize")

(* A TransportErrorV2; anything else the SDK throws is never retryable.     *)
RetryableFault(w) ==
    IF cur[w].lease < MaximumCommandAttempts \/ WithinWatchdogDeadline(w)
    THEN Resolve(w, "fault", "release") ELSE Resolve(w, "fault", "read")

FinalFault(w) == Resolve(w, "fault", "read")

(* Mutant: a cancel takes any finished job for a stopped one.               *)
HastyObserve(w, job) ==
    Resolve(w, IF job = "failed" THEN "failure" ELSE "response", "read")

(* The branches of process on the normalized state of the observed job.     *)
Observe(w, job) ==
    CASE Op(w) = "cancel" /\ job = "succeeded"     -> Resolve(w, "response", "settle")
      [] Op(w) = "cancel" /\ job = "stopped"       -> Resolve(w, "response", "read")
      [] Op(w) = "collect"                         ->
            Resolve(w, IF job = "succeeded" THEN "response" ELSE "fault", "read")
      [] \/ Op(w) # "collect" /\ job = "failed"
         \/ Op(w) \notin {"collect", "cancel"} /\ job = "stopped" -> Resolve(w, "failure", "read")
      [] Op(w) = "reconcile" /\ job = "running"    ->
            Resolve(w, "response", IF WithinWatchdogDeadline(w) THEN "poll" ELSE "cleanup")
      [] OTHER                                     -> Resolve(w, "response", "read")

-----------------------------------------------------------------------------
(* submit: search first, and create only in the first dispatch ever.        *)

(* Mutant: every retry of a submit may create.                              *)
AlwaysPermitted(w) == cur[w].lease <= MaximumCommandAttempts

CreatePermitted(w) == cur[w].lease = 1

DispatchSubmit(w) ==
    LET job == jobs[cur[w].attempt] IN
    \/ job # "none" /\ Observe(w, job)
    \/ IF CreatePermitted(w) THEN Resolve(w, "response", "create") ELSE RetryableFault(w)
    \/ FinalFault(w)

CreateJob(w) ==
    /\ pc[w] = "create"
    /\ \E accepted, answered \in BOOLEAN :
          /\ answered => accepted
          /\ jobs' = IF accepted THEN [jobs EXCEPT ![cur[w].attempt] = "running"] ELSE jobs
          /\ creates' = IF accepted THEN [creates EXCEPT ![cur[w].attempt] = @ + 1] ELSE creates
          /\ IF answered THEN Observe(w, "running") ELSE Resolve(w, "response", "recover")
    /\ UNCHANGED <<storeVars, batch, cur, seen, reading, requests, boundVars, overdue>>

(* The answer was lost: bounded discovery is the only path left.            *)
Recover(w) ==
    /\ pc[w] = "recover"
    /\ LET job == jobs[cur[w].attempt] IN
       (job # "none" /\ Observe(w, job)) \/ RetryableFault(w) \/ FinalFault(w)
    /\ UNCHANGED <<storeVars, batch, cur, seen, reading, requests, boundVars, providerVars>>

-----------------------------------------------------------------------------
(* The other calls read the exact job the attempt refers to.                *)

DispatchExact(w) ==
    LET job == jobs[cur[w].attempt] IN
    \/ IF Op(w) = "cancel" /\ job = "running"
       THEN Resolve(w, "response", "stop") ELSE Observe(w, job)
    \/ RetryableFault(w)
    \/ FinalFault(w)

Dispatch(w) ==
    /\ pc[w] = "dispatch"
    /\ IF Op(w) = "submit" THEN DispatchSubmit(w) ELSE DispatchExact(w)
    /\ UNCHANGED <<storeVars, batch, cur, seen, reading, requests, boundVars, providerVars>>

(* cleanupAfterTimeout: look at the job, then stop it.  A job that ended by *)
(* itself, or cannot be read, leaves the cleanup unverified.                *)
Cleanup(w) ==
    /\ pc[w] = "cleanup"
    /\ \/ jobs[cur[w].attempt] = "running" /\ Resolve(w, "response", "stop")
       \/ jobs[cur[w].attempt] = "stopped" /\ Resolve(w, "timeout", "read")
       \/ Resolve(w, "failure", "read")
    /\ UNCHANGED <<storeVars, batch, cur, seen, reading, requests, boundVars, providerVars>>

(* Mutant: the answer of StopJob is trusted without the GetJob.             *)
UnverifiedStopJob(w) ==
    LET a == cur[w].attempt IN
    /\ pc[w] = "stop"
    /\ jobs' \in {jobs, [jobs EXCEPT ![a] = IF @ = "running" THEN "stopped" ELSE @]}
    /\ Resolve(w, IF Op(w) = "cancel" THEN "response" ELSE "timeout", "read")
    /\ UNCHANGED <<storeVars, batch, cur, seen, reading, requests, boundVars, creates, overdue>>

(* StopJob, then GetJob: only an observed Stopped counts as stopped.  A     *)
(* cancel retries an unverified stop, the watchdog reports it.              *)
StopJob(w) ==
    LET a == cur[w].attempt IN
    /\ pc[w] = "stop"
    /\ \/ /\ jobs[a] \in {"running", "stopped"}
          /\ jobs' = [jobs EXCEPT ![a] = "stopped"]
          /\ Resolve(w, IF Op(w) = "cancel" THEN "response" ELSE "timeout", "read")
       \/ /\ jobs' \in {jobs, [jobs EXCEPT ![a] = IF @ = "running" THEN "stopped" ELSE @]}
          /\ IF Op(w) = "cancel" THEN RetryableFault(w) \/ FinalFault(w)
                                 ELSE Resolve(w, "failure", "read")
    /\ UNCHANGED <<storeVars, batch, cur, seen, reading, requests, boundVars, creates, overdue>>

-----------------------------------------------------------------------------
(* commitTransition, prepareCollection, commitCollection and commitFailure: *)
(* read the sequences, then commit.                                         *)

ReadSequences(w) ==
    /\ pc[w] = "read"
    /\ LET absent == Op(w) = "collect" /\ intent[w] = "response"
                     /\ collections[cur[w].attempt] # "prepared" IN
       \/ absent /\ Abort(w)
       \/ /\ ~ absent
          /\ reading' = [reading EXCEPT ![w] = ReadingOf(cur[w].attempt)]
          /\ Goto(w, "commit")
          /\ UNCHANGED <<batch, cur, seen, intent>>
    /\ UNCHANGED <<storeVars, requests, boundVars, providerVars>>

NextState == [submit |-> "submitted", sync |-> "running", cancel |-> "cancelled"]
NextKey   == [submit |-> "reconcile", sync |-> "reconcile", cancel |-> None]

CommitResponse(w) ==
    CASE Op(w) = "reconcile" -> PrepareCollection(w, cur[w], seen[w], reading[w])
      [] Op(w) = "collect"   -> CommitCollectionCompletion(w, cur[w], reading[w], "collected")
      [] OTHER -> CommitCommandOutcome(w, cur[w], seen[w], reading[w],
                                       NextState[Op(w)], NextKey[Op(w)], "none")

CommitFailure(w) ==
    IF Op(w) = "collect"
    THEN CommitCollectionCompletion(w, cur[w], reading[w], "failed")
    ELSE CommitCommandOutcome(w, cur[w], seen[w], reading[w], "failed", None,
                              IF intent[w] = "timeout" THEN "timeout" ELSE "failure")

Conflict(w) ==
    LET response == intent[w] = "response" IN
    CASE Op(w) = "collect" ->
            CompletionConflict(w, cur[w], reading[w], IF response THEN "collected" ELSE "failed")
      [] Op(w) = "reconcile" /\ response -> PrepareConflict(w, cur[w], seen[w], reading[w])
      [] Op(w) # "collect" /\ ~ response ->
            CommitConflict(w, cur[w], seen[w], reading[w], "failed", None)
      [] OTHER -> CommitConflict(w, cur[w], seen[w], reading[w],
                                 NextState[Op(w)], NextKey[Op(w)])

Commit(w) ==
    /\ pc[w] = "commit"
    /\ IF intent[w] = "response" THEN CommitResponse(w) ELSE CommitFailure(w)
    /\ Proceed(w)
    /\ UNCHANGED <<requests, boundVars, providerVars>>

(* A refused fault is thrown.  A refused timeout is reported once more, as  *)
(* unverified.  A lost lease leaves the command to its new owner.  After    *)
(* any other refusal the command itself is terminalized, or, for a sealed   *)
(* scientific source, its collection is failed.                             *)
CommitRefused(w) ==
    /\ pc[w] = "commit"
    /\ Conflict(w) # "none"
    /\ CASE intent[w] = "timeout" ->
               Resolve(w, "failure", "read") /\ UNCHANGED <<batch, cur, seen, reading>>
         [] \/ intent[w] = "fault"
            \/ intent[w] # "timeout" /\ Conflict(w) = "response_invalid" -> Abort(w)
         [] intent[w] \in {"response", "failure"} /\ Conflict(w) = "lease_conflict" -> Proceed(w)
         [] OTHER ->
               /\ \/ Goto(w, "terminalize") /\ UNCHANGED intent
                  \/ Op(w) = "collect" /\ FinalFault(w)
               /\ UNCHANGED <<batch, cur, seen, reading>>
    /\ UNCHANGED <<storeVars, requests, boundVars, providerVars>>

(* REAL_PROVIDER_NOT_TERMINAL: leave the reconcile for a later poll.        *)
PollAgain(w) ==
    /\ pc[w] = "poll"
    /\ \/ ReleaseCommand(w, cur[w])
       \/ ~ RequireClaimedCommand(w, cur[w]) /\ UNCHANGED storeVars
    /\ Proceed(w)
    /\ UNCHANGED <<requests, boundVars, providerVars>>

(* A cancel that meets a succeeded job is terminalized and lets it succeed. *)
(* A lost lease leaves the command to its new owner; a command that was     *)
(* ended with another error refuses the replay twice, and that is thrown.   *)
Settle(w) ==
    /\ pc[w] = "settle"
    /\ \/ TerminalizeCommand(w, cur[w], "conflict") /\ Proceed(w)
       \/ /\ TerminalizeConflict(w, cur[w], "conflict")
          /\ IF commands[cur[w].attempt][cur[w].key].state = "terminal"
             THEN Abort(w) ELSE Proceed(w)
          /\ UNCHANGED storeVars
    /\ UNCHANGED <<requests, boundVars, providerVars>>

-----------------------------------------------------------------------------
(* The provider and the clock                                               *)

JobEnds(a) ==
    /\ jobs[a] = "running"
    /\ \E status \in {"succeeded", "failed"} : jobs' = [jobs EXCEPT ![a] = status]
    /\ UNCHANGED <<controlVars, creates, overdue>>

WatchdogDeadlinePasses(a) ==
    /\ ~ overdue[a]
    /\ overdue' = [overdue EXCEPT ![a] = TRUE]
    /\ UNCHANGED <<controlVars, jobs, creates>>

WorkerStep(w) ==
    \/ ControlStep(w) /\ UNCHANGED providerVars
    \/ Dispatch(w) \/ CreateJob(w) \/ Recover(w) \/ Cleanup(w) \/ StopJob(w)
    \/ ReadSequences(w) \/ Commit(w) \/ CommitRefused(w) \/ PollAgain(w) \/ Settle(w)

Next ==
    \/ \E w \in Workers : WorkerStep(w)
    \/ EnvironmentStep /\ UNCHANGED providerVars
    \/ \E a \in Attempts : JobEnds(a) \/ WatchdogDeadlinePasses(a)

Spec == Init /\ [][Next]_vars

(* The scheduler ticks for ever, every await returns, and time passes.  No  *)
(* job need ever end by itself.                                             *)
Fairness ==
    /\ \A w \in Workers : WF_vars(WorkerStep(w))
    /\ \A a \in Attempts : WF_vars(WatchdogDeadlinePasses(a))
    /\ \A a \in Attempts, k \in Keys :
          WF_vars(AbandonedLeaseExpires(a, k) /\ UNCHANGED providerVars)

FairSpec == Spec /\ Fairness

-----------------------------------------------------------------------------
(* At most one billed job is created for an attempt, whatever is lost,      *)
(* retried, expired or crashed: creation is fenced by the first lease.      *)
AtMostOneJob == \A a \in Attempts : creates[a] <= 1

(* What the attempt claims about its job is true of it: a success is a job  *)
(* that succeeded, a cancellation of a submitted attempt or a verified      *)
(* timeout is a job that stopped, and a known job exists.                   *)
OutcomeIsOfTheJob ==
    \A a \in Attempts :
        /\ attempts[a].state = "succeeded" => jobs[a] = "succeeded"
        /\ attempts[a].state = "cancelled" /\ attempts[a].ref => jobs[a] = "stopped"
        /\ (\E k \in Keys : commands[a][k].error = "timeout") => jobs[a] = "stopped"
        /\ attempts[a].ref => jobs[a] # "none"

(* The comment of claimCommands: a cancel of a prepared attempt waits until *)
(* the outcome of its submit converges, so there is a submit to wait for.   *)
DeferredCancelAwaitsSubmit ==
    \A a \in Attempts :
        attempts[a].state = "prepared" /\ ActiveCancel(a) => IsActive(commands[a]["submit"])

(* Test QR-3: a cancel that meets a succeeded job defers convergence to the *)
(* pending reconcile, so a reconcile is there to take over.                 *)
CancelDefersToReconcile ==
    \A w \in Workers :
        pc[w] = "settle" =>
            LET a == cur[w].attempt IN
            \/ IsTerminal(attempts[a].state)
            \/ \E k \in Keys : Operation(k) = "reconcile" /\ IsActive(commands[a][k])
=============================================================================
