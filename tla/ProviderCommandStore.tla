------------------------- MODULE ProviderCommandStore -------------------------
(***************************************************************************)
(* The repository of provider-command execution: execution attempts, their *)
(* append-only event log, the durable commands that drive an external      *)
(* provider on their behalf, and the collection of results.  Every         *)
(* transaction of the repository is one operator below; it is an action    *)
(* that is enabled exactly when the transaction commits, and the matching  *)
(* ...Conflict operators say when it is refused and with which reason.     *)
(*                                                                         *)
(* Time is abstracted: a lease carries a flag `live' that an environment   *)
(* step turns off, which stands for lease_expires_at <= now.  The back-off *)
(* next_attempt_at is not recorded, since any delay is a scheduling that   *)
(* the interleaving semantics already contains.                            *)
(***************************************************************************)
EXTENDS Naturals, Sequences, FiniteSets

CONSTANTS
    Attempts,       \* identities of the execution attempts
    Workers,        \* lease owners
    CancelKeys,     \* business idempotency keys an operator cancels with
    ReconcileKeys,  \* business idempotency keys an operator reconciles with
    None            \* absence of an owner, a command or a snapshot

(* The keys `<attempt>:<operation>:1' the workers themselves use.           *)
WorkerKeys == {"submit", "sync", "reconcile", "collect"}

(* A manual reconcile may use the business key "1" and so collide with the  *)
(* automatic one; the other name spaces are disjoint.                       *)
ASSUME KeysAssumption ==
    /\ CancelKeys \cap (WorkerKeys \cup ReconcileKeys) = {}
    /\ ReconcileKeys \cap {"submit", "sync", "collect"} = {}

(* An operator makes finitely many requests of one attempt.                 *)
ASSUME FiniteKeysAssumption ==
    IsFiniteSet(CancelKeys) /\ IsFiniteSet(ReconcileKeys)

ASSUME NoneAssumption ==
    None \notin Attempts \cup Workers \cup CancelKeys \cup ReconcileKeys \cup WorkerKeys

VARIABLES
    attempts,     \* attempts[a]: lifecycle state, state version, external ref
    events,       \* events[a]: the append-only transition log of attempt a
    commands,     \* commands[a][k]: the command with idempotency key k
    collections   \* collections[a]: state of the CollectionAttempt of a

storeVars == <<attempts, events, commands, collections>>

-----------------------------------------------------------------------------
(* Types                                                                    *)

Keys == WorkerKeys \cup CancelKeys \cup ReconcileKeys

Operation(k) ==
    IF k \in CancelKeys THEN "cancel"
    ELSE IF k \in ReconcileKeys THEN "reconcile" ELSE k

LifecycleStates ==
    {"prepared", "submitted", "running", "succeeded", "failed", "cancelled"}

Attempt == [state: LifecycleStates, version: Nat, ref: BOOLEAN]

(* lease is lease_version; attempt_count is always equal to it, since both  *)
(* start at 0 and only a claim changes them.                                *)
Command == [state: {"absent", "pending", "claimed", "succeeded", "terminal"},
            owner: Workers \cup {None},
            lease: Nat,
            live:  BOOLEAN,
            error: {"none", "conflict", "failure", "timeout", "cancelled_before_submit"}]

Event == [type:  LifecycleStates \cup {"created", "collection_prepared",
                                       "collection_collected", "collection_failed"},
          prior: LifecycleStates \cup {None},
          next:  LifecycleStates,
          key:   Keys \cup {None}]

CollectionStates == {"none", "prepared", "collected", "failed"}

(* What a worker holds after a claim: the command and its lease version.    *)
Claim == [attempt: Attempts, key: Keys, lease: Nat]

(* The sequence numbers and the collection a caller read before it commits. *)
Reading == [event: Nat, command: Nat, collection: CollectionStates]

StoreTypeOK ==
    /\ attempts \in [Attempts -> Attempt]
    /\ events \in [Attempts -> Seq(Event)]
    /\ commands \in [Attempts -> [Keys -> Command]]
    /\ collections \in [Attempts -> CollectionStates]

-----------------------------------------------------------------------------
(* Predicates and reads                                                     *)

IsTerminal(state) == state \in {"succeeded", "failed", "cancelled"}

ValidAttemptTransition ==
    {<<"prepared", next>> : next \in {"submitted", "failed", "cancelled"}}
    \cup {<<"submitted", next>> :
            next \in {"submitted", "running", "succeeded", "failed", "cancelled"}}
    \cup {<<"running", next>> :
            next \in {"running", "succeeded", "failed", "cancelled"}}

Present(a) == {k \in Keys : commands[a][k].state # "absent"}

IsActive(command) == command.state \in {"pending", "claimed"}

IsSettled(command) == command.state \in {"succeeded", "terminal"}

NextCommandSequence(a) == Cardinality(Present(a)) + 1

NextEventSequence(a) == Len(events[a]) + 1

(* Mutant: the collection is not read.                                      *)
PartialReading(a) == [event |-> NextEventSequence(a), command |-> NextCommandSequence(a)]

ReadingOf(a) == [event      |-> NextEventSequence(a),
                 command    |-> NextCommandSequence(a),
                 collection |-> collections[a]]

(* The lease fence: claimed, by this owner, under this version, unexpired.  *)
RequireClaimedCommand(w, c) ==
    LET command == commands[c.attempt][c.key] IN
    /\ command.state = "claimed"
    /\ command.owner = w
    /\ command.lease = c.lease
    /\ command.live

(* Mutant: the transition is checked on the snapshot only, no CAS.          *)
UnfencedAttemptUpdate(a, seen, next) == <<seen.state, next>> \in ValidAttemptTransition

(* The attempt compare-and-swap: the caller's snapshot is still the row.    *)
ValidAttemptUpdate(a, seen, next) ==
    /\ attempts[a].version = seen.version
    /\ attempts[a].state = seen.state
    /\ <<attempts[a].state, next>> \in ValidAttemptTransition

(* Mutant: an expired lease is never claimed again.                         *)
PendingCommandReady(a, k) ==
    /\ ~ (Operation(k) = "cancel" /\ attempts[a].state = "prepared")
    /\ commands[a][k].state = "pending"

(* A cancel waits until the outcome of the submit has converged.            *)
CommandReady(a, k) ==
    /\ ~ (Operation(k) = "cancel" /\ attempts[a].state = "prepared")
    /\ \/ commands[a][k].state = "pending"
       \/ commands[a][k].state = "claimed" /\ ~ commands[a][k].live

CommandOutcomeTransition(operation, next) ==
    \/ next = "failed" /\ operation # "collect"
    \/ operation = "submit" /\ next = "submitted"
    \/ operation = "sync"   /\ next = "running"
    \/ operation = "cancel" /\ next = "cancelled"

-----------------------------------------------------------------------------
(* Row images                                                               *)

NewCommand == [state |-> "pending", owner |-> None, lease |-> 0,
               live |-> FALSE, error |-> "none"]

AbsentCommand == [NewCommand EXCEPT !.state = "absent"]

Completed(command, state, error) ==
    [state |-> state, owner |-> None, lease |-> command.lease,
     live |-> FALSE, error |-> error]

Claimed(command, w) ==
    [state |-> "claimed", owner |-> w, lease |-> command.lease + 1,
     live |-> TRUE, error |-> command.error]

Transitioned(attempt, next) ==
    [state   |-> next,
     version |-> attempt.version + 1,
     ref     |-> attempt.ref \/ next = "submitted"]

TransitionEvent(prior, next, k) ==
    [type |-> next, prior |-> prior, next |-> next, key |-> k]

CollectionEvent(state, k) ==
    [type  |-> CASE state = "prepared"  -> "collection_prepared"
                 [] state = "collected" -> "collection_collected"
                 [] OTHER               -> "collection_failed",
     prior |-> "succeeded", next |-> "succeeded", key |-> k]

CreatedEvent ==
    [type |-> "created", prior |-> None, next |-> "prepared", key |-> None]

-----------------------------------------------------------------------------
(* Every attempt is born prepared, with its created event and a pending     *)
(* submit command, in the transaction that starts the execution.            *)
StoreInit ==
    /\ attempts = [a \in Attempts |-> [state |-> "prepared", version |-> 0, ref |-> FALSE]]
    /\ events = [a \in Attempts |-> <<CreatedEvent>>]
    /\ commands = [a \in Attempts |->
                     [k \in Keys |-> IF k = "submit" THEN NewCommand ELSE AbsentCommand]]
    /\ collections = [a \in Attempts |-> "none"]

(* claimCommands: lease every command of `claimed' to w.                    *)
ClaimCommands(w, claimed) ==
    /\ commands' = [a \in Attempts |-> [k \in Keys |->
                      IF <<a, k>> \in claimed THEN Claimed(commands[a][k], w)
                                              ELSE commands[a][k]]]
    /\ UNCHANGED <<attempts, events, collections>>

(* commitCommandOutcome: attempt, event, next command and command row move  *)
(* together.  `settled' is how the command ends.                            *)
CommitCommandOutcome(w, c, seen, read, next, nextKey, error) ==
    LET a == c.attempt IN
    /\ RequireClaimedCommand(w, c)
    /\ ValidAttemptUpdate(a, seen, next)
    /\ CommandOutcomeTransition(Operation(c.key), next)
    /\ read.event = NextEventSequence(a)
    /\ nextKey # None => /\ read.command = NextCommandSequence(a)
                         /\ nextKey \notin Present(a)
    /\ attempts' = [attempts EXCEPT ![a] = Transitioned(@, next)]
    /\ events' = [events EXCEPT ![a] = Append(@, TransitionEvent(seen.state, next, c.key))]
    /\ commands' = [commands EXCEPT ![a] = [k \in Keys |->
          IF k = c.key
          THEN Completed(@[k], IF error = "none" THEN "succeeded" ELSE "terminal", error)
          ELSE IF k = nextKey THEN NewCommand ELSE @[k]]]
    /\ UNCHANGED collections

CommitConflict(w, c, seen, read, next, nextKey) ==
    LET a == c.attempt IN
    IF IsSettled(commands[a][c.key]) THEN "response_invalid"
    ELSE IF ~ RequireClaimedCommand(w, c) THEN "lease_conflict"
    ELSE IF /\ ValidAttemptUpdate(a, seen, next)
            /\ CommandOutcomeTransition(Operation(c.key), next)
            /\ read.event = NextEventSequence(a)
            /\ nextKey # None => /\ read.command = NextCommandSequence(a)
                                 /\ nextKey \notin Present(a)
    THEN "none" ELSE "state_conflict"

(* Mutant: a cancel that a worker has leased is overlooked.                 *)
PendingCancel(a) == \E k \in CancelKeys : commands[a][k].state = "pending"

ActiveCancel(a) == \E k \in CancelKeys : IsActive(commands[a][k])

(* prepareCollection: a successful reconcile freezes success, its           *)
(* collection and the collect command atomically, never past a cancel.      *)
PrepareCollection(w, c, seen, read) ==
    LET a == c.attempt IN
    /\ ~ ActiveCancel(a)
    /\ RequireClaimedCommand(w, c)
    /\ ValidAttemptUpdate(a, seen, "succeeded")
    /\ collections[a] = "none"
    /\ read.event = NextEventSequence(a)
    /\ read.command = NextCommandSequence(a)
    /\ "collect" \notin Present(a)
    /\ attempts' = [attempts EXCEPT ![a] = Transitioned(@, "succeeded")]
    /\ events' = [events EXCEPT ![a] = @ \o
          <<TransitionEvent(seen.state, "succeeded", c.key), CollectionEvent("prepared", None)>>]
    /\ collections' = [collections EXCEPT ![a] = "prepared"]
    /\ commands' = [commands EXCEPT ![a] = [k \in Keys |->
          IF k = c.key THEN Completed(@[k], "succeeded", "none")
          ELSE IF k = "collect" THEN NewCommand ELSE @[k]]]

PrepareConflict(w, c, seen, read) ==
    LET a == c.attempt IN
    IF commands[a][c.key].state = "succeeded" /\ collections[a] # "none"
    THEN "response_invalid"
    ELSE IF ActiveCancel(a) THEN "state_conflict"
    ELSE IF ~ RequireClaimedCommand(w, c) THEN "lease_conflict"
    ELSE IF /\ ValidAttemptUpdate(a, seen, "succeeded")
            /\ collections[a] = "none"
            /\ read.event = NextEventSequence(a)
            /\ read.command = NextCommandSequence(a)
            /\ "collect" \notin Present(a)
    THEN "none" ELSE "state_conflict"

(* Mutant: a collection that fails ends its command only.                   *)
CommandOnlyCompletion(w, c, read, next) ==
    LET a == c.attempt IN
    /\ RequireClaimedCommand(w, c)
    /\ collections[a] = read.collection
    /\ read.event = NextEventSequence(a)
    /\ collections' = [collections EXCEPT ![a] = IF next = "failed" THEN @ ELSE next]
    /\ events' = [events EXCEPT ![a] = Append(@, CollectionEvent(next, c.key))]
    /\ commands' = [commands EXCEPT ![a][c.key] =
          IF next = "collected" THEN Completed(@, "succeeded", "none")
                                ELSE Completed(@, "terminal", "failure")]
    /\ UNCHANGED attempts

(* commitCollectionCompletion: the collection ends collected or failed.     *)
CommitCollectionCompletion(w, c, read, next) ==
    LET a == c.attempt IN
    /\ RequireClaimedCommand(w, c)
    /\ collections[a] = read.collection
    /\ collections[a] # next
    /\ read.event = NextEventSequence(a)
    /\ collections' = [collections EXCEPT ![a] = next]
    /\ events' = [events EXCEPT ![a] = Append(@, CollectionEvent(next, c.key))]
    /\ commands' = [commands EXCEPT ![a][c.key] =
          IF next = "collected" THEN Completed(@, "succeeded", "none")
                                ELSE Completed(@, "terminal", "failure")]
    /\ UNCHANGED attempts

CompletionConflict(w, c, read, next) ==
    LET a == c.attempt IN
    IF collections[a] = next THEN "state_conflict"
    ELSE IF ~ RequireClaimedCommand(w, c) THEN "lease_conflict"
    ELSE IF collections[a] = read.collection /\ read.event = NextEventSequence(a)
    THEN "none" ELSE "state_conflict"

(* releaseCommand: back to pending, to be claimed again after a delay.  The *)
(* error code of a release is never read back and is not recorded.          *)
ReleaseCommand(w, c) ==
    /\ RequireClaimedCommand(w, c)
    /\ commands' = [commands EXCEPT ![c.attempt][c.key] =
                      Completed(@, "pending", "none")]
    /\ UNCHANGED <<attempts, events, collections>>

(* Mutant: no lease fence, so a worker that lost its lease may terminalize. *)
UnfencedTerminalizeCommand(w, c, error) ==
    /\ commands' = [commands EXCEPT ![c.attempt][c.key] =
                      Completed(@, "terminal", error)]
    /\ UNCHANGED <<attempts, events, collections>>

(* terminalizeCommand: end one command and leave its attempt alone; a       *)
(* replay on a terminal command with the same error changes nothing.        *)
TerminalizeCommand(w, c, error) ==
    LET command == commands[c.attempt][c.key] IN
    /\ \/ command.state = "terminal" /\ command.error = error
       \/ RequireClaimedCommand(w, c)
    /\ commands' = [commands EXCEPT ![c.attempt][c.key] =
                      Completed(@, "terminal", error)]
    /\ UNCHANGED <<attempts, events, collections>>

TerminalizeConflict(w, c, error) ==
    LET command == commands[c.attempt][c.key] IN
    /\ ~ (command.state = "terminal" /\ command.error = error)
    /\ ~ RequireClaimedCommand(w, c)

-----------------------------------------------------------------------------
(* enqueueControlCommand, in its three outcomes.  A prepared attempt whose  *)
(* submit is still pending is cancelled on the spot, with no provider call; *)
(* if the submit is leased the cancel becomes a durable intent.             *)

EnqueueChecks(a, k, seen, read) ==
    /\ k \notin Present(a)
    /\ attempts[a].version = seen.version
    /\ read.command = NextCommandSequence(a)

CancelBeforeSubmit(a, k, seen, read) ==
    /\ EnqueueChecks(a, k, seen, read)
    /\ k \in CancelKeys
    /\ attempts[a].state = "prepared" /\ ~ attempts[a].ref
    /\ commands[a]["submit"].state = "pending"
    /\ ValidAttemptUpdate(a, seen, "cancelled")
    /\ read.event = NextEventSequence(a)
    /\ attempts' = [attempts EXCEPT ![a] = Transitioned(@, "cancelled")]
    /\ events' = [events EXCEPT ![a] = Append(@, TransitionEvent(seen.state, "cancelled", k))]
    /\ commands' = [commands EXCEPT
          ![a]["submit"] = Completed(@, "terminal", "cancelled_before_submit"),
          ![a][k] = Completed(NewCommand, "succeeded", "none")]
    /\ UNCHANGED collections

EnqueueIntent(a, k, seen, read) ==
    /\ EnqueueChecks(a, k, seen, read)
    /\ k \in CancelKeys /\ attempts[a].state = "prepared" /\ ~ attempts[a].ref =>
          commands[a]["submit"].state = "claimed"
    /\ commands' = [commands EXCEPT ![a][k] = NewCommand]
    /\ UNCHANGED <<attempts, events, collections>>
=============================================================================
