----------------------------- MODULE CommandControl -----------------------------
(***************************************************************************)
(* What the two provider-command workers and the operator have in common:  *)
(* claiming a batch under leases, taking its commands one by one, the      *)
(* heartbeat before a dispatch, the release and the terminalization of a   *)
(* command, and the requests that cancel or reconcile an attempt.          *)
(*                                                                         *)
(* A worker is sequential but every repository call it awaits is a step of *)
(* its own, so any other worker or request may act in between.  It may     *)
(* also crash at any await: the restarted process claims afresh and shares *)
(* nothing with the old one, which is why the same name can be reused.     *)
(***************************************************************************)
EXTENDS ProviderCommandStore

CONSTANTS
    MaximumCommandAttempts, \* claims after which a retryable fault is final
    MaxLateLeases,          \* bound: leases lost by a worker still using them
    MaxCrashes              \* bound: crashes of workers

ASSUME BoundsAssumption ==
    /\ MaximumCommandAttempts \in Nat \ {0}
    /\ MaxLateLeases \in Nat
    /\ MaxCrashes \in Nat

VARIABLES
    pc,       \* pc[w]: the await worker w is at
    batch,    \* batch[w]: claimed commands it has not processed yet
    cur,      \* cur[w]: the command it is processing, or None
    seen,     \* seen[w]: its snapshot of the attempt, or None
    reading,  \* reading[w]: sequences and collection it read, or None
    intent,   \* intent[w]: the outcome it is about to commit
    requests, \* requests[a][k]: what an operator request has read, or None
    lateLeases, crashes

workerVars == <<pc, batch, cur, seen, reading, intent>>
boundVars == <<lateLeases, crashes>>
controlVars == <<storeVars, workerVars, requests, boundVars>>

OperatorKeys == CancelKeys \cup ReconcileKeys

Request == [seen: Attempt, read: Reading]

Labels == {"idle", "progressions", "take", "heartbeat", "dispatch", "read", "commit",
           "race", "yield", "release", "terminalize",
           "create", "recover", "stop", "cleanup", "poll", "settle"}

Intents == {"response", "failure", "fault", "timeout"}

ControlTypeOK ==
    /\ StoreTypeOK
    /\ pc \in [Workers -> Labels]
    /\ batch \in [Workers -> SUBSET Claim]
    /\ cur \in [Workers -> Claim \cup {None}]
    /\ seen \in [Workers -> Attempt \cup {None}]
    /\ reading \in [Workers -> Reading \cup {None}]
    /\ intent \in [Workers -> Intents]
    /\ requests \in [Attempts -> [OperatorKeys -> Request \cup {None}]]
    /\ lateLeases \in Nat /\ crashes \in Nat

ControlInit ==
    /\ StoreInit
    /\ pc = [w \in Workers |-> "idle"]
    /\ batch = [w \in Workers |-> {}]
    /\ cur = [w \in Workers |-> None]
    /\ seen = [w \in Workers |-> None]
    /\ reading = [w \in Workers |-> None]
    /\ intent = [w \in Workers |-> "response"]
    /\ requests = [a \in Attempts |-> [k \in OperatorKeys |-> None]]
    /\ lateLeases = 0 /\ crashes = 0

-----------------------------------------------------------------------------
(* Control of a worker                                                      *)

Goto(w, label) == pc' = [pc EXCEPT ![w] = label]

(* The worker forgets the command it holds.                                 *)
Forget(w) ==
    /\ cur' = [cur EXCEPT ![w] = None]
    /\ seen' = [seen EXCEPT ![w] = None]
    /\ reading' = [reading EXCEPT ![w] = None]
    /\ intent' = [intent EXCEPT ![w] = "response"]

(* processClaimedCommand returned: go on with the rest of the batch.        *)
Proceed(w) ==
    /\ Forget(w)
    /\ Goto(w, IF batch[w] = {} THEN "idle" ELSE "take")
    /\ UNCHANGED batch

(* processClaimedCommand threw: the rest of the batch is dropped too, and   *)
(* its commands stay claimed until their leases expire.                     *)
Abort(w) ==
    /\ Forget(w)
    /\ Goto(w, "idle")
    /\ batch' = [batch EXCEPT ![w] = {}]

Op(w) == Operation(cur[w].key)

Ready(cancels) ==
    {p \in Attempts \X Keys : (p[2] \in CancelKeys <=> cancels) /\ CommandReady(p[1], p[2])}

ClaimsOf(claimed) ==
    {[attempt |-> p[1], key |-> p[2], lease |-> commands[p[1]][p[2]].lease + 1] : p \in claimed}

-----------------------------------------------------------------------------
(* runOnce: cancellations are claimed first, then progressions.  A tick     *)
(* that finds nothing to claim changes nothing.                             *)

ClaimCancellations(w) ==
    /\ pc[w] = "idle"
    /\ Ready(TRUE) \cup Ready(FALSE) # {}
    /\ ClaimCommands(w, Ready(TRUE))
    /\ batch' = [batch EXCEPT ![w] = ClaimsOf(Ready(TRUE))]
    /\ Goto(w, "progressions")
    /\ UNCHANGED <<cur, seen, reading, intent, requests, boundVars>>

ClaimProgressions(w) ==
    /\ pc[w] = "progressions"
    /\ ClaimCommands(w, Ready(FALSE))
    /\ batch' = [batch EXCEPT ![w] = @ \cup ClaimsOf(Ready(FALSE))]
    /\ Goto(w, IF batch[w] = {} /\ Ready(FALSE) = {} THEN "idle" ELSE "take")
    /\ UNCHANGED <<cur, seen, reading, intent, requests, boundVars>>

CommandCanRunFromAttempt(operation, state) ==
    CASE operation = "submit"  -> state = "prepared"
      [] operation = "sync"    -> state = "submitted"
      [] operation = "collect" -> state = "succeeded"
      [] OTHER                 -> state \in {"submitted", "running"}

(* processClaimedCommand reads the attempt and checks it can run.           *)
Take(w) ==
    /\ pc[w] = "take"
    /\ \E c \in batch[w] :
          /\ c.key \in CancelKeys \/ \A d \in batch[w] : d.key \notin CancelKeys
          /\ cur' = [cur EXCEPT ![w] = c]
          /\ batch' = [batch EXCEPT ![w] = @ \ {c}]
          /\ seen' = [seen EXCEPT ![w] = attempts[c.attempt]]
          /\ Goto(w, IF CommandCanRunFromAttempt(Operation(c.key), attempts[c.attempt].state)
                     THEN "heartbeat" ELSE "terminalize")
    /\ UNCHANGED <<storeVars, reading, intent, requests, boundVars>>

(* heartbeatCommand: work is dispatched only under a lease still held.      *)
Heartbeat(w) ==
    /\ pc[w] = "heartbeat"
    /\ \/ /\ RequireClaimedCommand(w, cur[w])
          /\ Goto(w, "dispatch")
          /\ UNCHANGED <<batch, cur, seen, reading, intent>>
       \/ /\ ~ RequireClaimedCommand(w, cur[w])
          /\ Proceed(w)
    /\ UNCHANGED <<storeVars, requests, boundVars>>

Release(w) ==
    /\ pc[w] = "release"
    /\ \/ ReleaseCommand(w, cur[w]) /\ Proceed(w)
       \/ ~ RequireClaimedCommand(w, cur[w]) /\ Abort(w) /\ UNCHANGED storeVars
    /\ UNCHANGED <<requests, boundVars>>

Terminalize(w) ==
    /\ pc[w] = "terminalize"
    /\ \/ TerminalizeCommand(w, cur[w], "conflict") /\ Proceed(w)
       \/ TerminalizeConflict(w, cur[w], "conflict") /\ Abort(w) /\ UNCHANGED storeVars
    /\ UNCHANGED <<requests, boundVars>>

-----------------------------------------------------------------------------
(* Operator requests: read, then enqueue under the version that was read.   *)

BeginRequest(a, k) ==
    /\ requests[a][k] = None
    /\ k \notin Present(a)
    /\ requests' = [requests EXCEPT ![a][k] =
                      [seen |-> attempts[a], read |-> ReadingOf(a)]]

(* cancelExecutionAttempt                                                   *)
CancelExecutionAttempt(a, k) ==
    /\ k \in CancelKeys
    /\ ~ IsTerminal(attempts[a].state)
    /\ attempts[a].state = "prepared" => IsActive(commands[a]["submit"])
    /\ BeginRequest(a, k)
    /\ UNCHANGED <<storeVars, workerVars, boundVars>>

(* reconcileExecutionAttempt                                                *)
ReconcileExecutionAttempt(a, k) ==
    /\ k \in ReconcileKeys
    /\ attempts[a].state \in {"submitted", "running"}
    /\ BeginRequest(a, k)
    /\ UNCHANGED <<storeVars, workerVars, boundVars>>

EndRequest(a, k) == requests' = [requests EXCEPT ![a][k] = None]

EnqueueControlCommand(a, k) ==
    /\ requests[a][k] # None
    /\ LET r == requests[a][k] IN
       CancelBeforeSubmit(a, k, r.seen, r.read) \/ EnqueueIntent(a, k, r.seen, r.read)
    /\ EndRequest(a, k)
    /\ UNCHANGED <<workerVars, boundVars>>

(* The enqueue was refused, replayed, or the server died before it.         *)
RequestFails(a, k) ==
    /\ requests[a][k] # None
    /\ EndRequest(a, k)
    /\ UNCHANGED <<storeVars, workerVars, boundVars>>

-----------------------------------------------------------------------------
(* Environment: time passes and processes die.                              *)

InUse(w, a, k) ==
    \E c \in batch[w] \cup ({cur[w]} \ {None}) :
        c.attempt = a /\ c.key = k /\ c.lease = commands[a][k].lease

Expire(a, k) ==
    /\ commands[a][k].state = "claimed" /\ commands[a][k].live
    /\ commands' = [commands EXCEPT ![a][k].live = FALSE]
    /\ UNCHANGED <<attempts, events, collections, workerVars, requests, crashes>>

(* The lease of a command nobody processes any more runs out.               *)
AbandonedLeaseExpires(a, k) ==
    /\ \A w \in Workers : ~ InUse(w, a, k)
    /\ Expire(a, k)
    /\ UNCHANGED lateLeases

(* A worker is slower than its lease.                                       *)
LateLeaseExpires(a, k) ==
    /\ \E w \in Workers : InUse(w, a, k)
    /\ lateLeases < MaxLateLeases
    /\ lateLeases' = lateLeases + 1
    /\ Expire(a, k)

Crash(w) ==
    /\ pc[w] # "idle"
    /\ crashes < MaxCrashes
    /\ crashes' = crashes + 1
    /\ Abort(w)
    /\ UNCHANGED <<storeVars, requests, lateLeases>>

-----------------------------------------------------------------------------
(* The steps both workers share.                                            *)
ControlStep(w) ==
    \/ ClaimCancellations(w) \/ ClaimProgressions(w) \/ Take(w) \/ Heartbeat(w)
    \/ Release(w) \/ Terminalize(w)

RequestStep(a, k) ==
    \/ CancelExecutionAttempt(a, k) \/ ReconcileExecutionAttempt(a, k)
    \/ EnqueueControlCommand(a, k) \/ RequestFails(a, k)

EnvironmentStep ==
    \/ \E w \in Workers : Crash(w)
    \/ \E a \in Attempts, k \in OperatorKeys : RequestStep(a, k)
    \/ \E a \in Attempts, k \in Keys : AbandonedLeaseExpires(a, k) \/ LateLeaseExpires(a, k)

-----------------------------------------------------------------------------
(* Safety                                                                   *)

HasCancelIntent(a) == Present(a) \cap CancelKeys # {}

(* A durable cancellation wins: once a cancel command is stored for an      *)
(* attempt, that attempt never ends succeeded, whichever progression was    *)
(* leased, dispatched or answered before (tests PB10 of the worker).        *)
CancellationWins ==
    \A a \in Attempts : HasCancelIntent(a) => attempts[a].state # "succeeded"

(* The event log is the history of the attempt: it starts with its          *)
(* creation, each event departs from the state the previous one reached,    *)
(* the last one reached the current state, and the state version counts     *)
(* the transitions, even when several workers answer for the same attempt.  *)
Transitions(a) == {i \in 1..Len(events[a]) : events[a][i].type \in LifecycleStates}

EventLogIsHistory ==
    \A a \in Attempts :
        /\ events[a][1] = CreatedEvent
        /\ \A i \in 2..Len(events[a]) : events[a][i].prior = events[a][i - 1].next
        /\ events[a][Len(events[a])].next = attempts[a].state
        /\ attempts[a].version = Cardinality(Transitions(a))

(* Exactly once: a command that succeeded or failed its attempt has left    *)
(* one event in the log, and a command that did not has left none, however  *)
(* often it was leased, dispatched and answered.                            *)
OutcomeEvents(a, k) == {i \in 1..Len(events[a]) : events[a][i].key = k}

OutcomesAreLoggedOnce ==
    \A a \in Attempts, k \in Keys :
        Cardinality(OutcomeEvents(a, k)) =
            IF commands[a][k].state = "succeeded"
               \/ commands[a][k].error \in {"failure", "timeout"} THEN 1 ELSE 0

(* An attempt that is not finished always has a command that can move it:   *)
(* no interleaving of leases, refusals and crashes leaves it with nothing   *)
(* a worker could claim, now or once a lease expires.                       *)
CanProgress(a) ==
    \E k \in Keys :
        /\ IsActive(commands[a][k])
        /\ CommandCanRunFromAttempt(Operation(k), attempts[a].state)

NeverStuck == \A a \in Attempts : ~ IsTerminal(attempts[a].state) => CanProgress(a)

(* A collection is prepared exactly when its attempt succeeds, and its      *)
(* collect command is settled exactly when the collection is.               *)
CollectionFollowsSuccess ==
    \A a \in Attempts :
        /\ collections[a] = "none" <=> attempts[a].state # "succeeded"
        /\ collections[a] \in {"collected", "failed"} <=> IsSettled(commands[a]["collect"])

(* The parts of the inductive invariant behind CancellationWins.  A worker  *)
(* past `take' holds a command.                                             *)
HoldsCommand ==
    \A w \in Workers : pc[w] \notin {"idle", "progressions", "take"} => cur[w] \in Claim

(* No cancel command is settled while its attempt can still succeed.        *)
SettledCancelIsOver ==
    \A a \in Attempts, k \in CancelKeys :
        IsSettled(commands[a][k]) => IsTerminal(attempts[a].state)

(* A cancel request read an unfinished attempt; a version stands for a row. *)
RequestsAreSnapshots ==
    \A a \in Attempts, k \in CancelKeys :
        requests[a][k] # None =>
            LET read == requests[a][k].seen IN
            /\ ~ IsTerminal(read.state)
            /\ read.version <= attempts[a].version
            /\ read.version = attempts[a].version => read = attempts[a]

(* A cancel is leased only once its attempt has left prepared.              *)
CancelsLeasedAfterSubmit ==
    \A w \in Workers : \A c \in batch[w] :
        c.key \in CancelKeys => attempts[c.attempt].state # "prepared"

(* A finished attempt is frozen: no late answer, retry or request changes   *)
(* its state, version or external reference.                                *)
TerminalIsFinal ==
    [][\A a \in Attempts : IsTerminal(attempts[a].state) => attempts'[a] = attempts[a]]_controlVars

(* Every attempt reaches the end of its lifecycle.                          *)
EveryAttemptFinishes == \A a \in Attempts : <>IsTerminal(attempts[a].state)

(* Every command, a cancel intent too, is eventually settled.               *)
EveryCommandSettles ==
    \A a \in Attempts, k \in Keys :
        IsActive(commands[a][k]) ~> IsSettled(commands[a][k])
=============================================================================
