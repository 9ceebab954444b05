--------------------------- MODULE AttemptLifecycle ---------------------------
(***************************************************************************)
(* What provider-command execution promises of one execution attempt, with *)
(* no workers, leases or retries: a lifecycle that only moves forward, a   *)
(* cancellation that is either honoured or overtaken by a failure but      *)
(* never by a success, and a collection that exists for successes only.    *)
(***************************************************************************)
CONSTANTS Attempts

VARIABLES
    state,       \* state[a]: the lifecycle state
    cancelling,  \* cancelling[a]: a cancellation was accepted
    collection   \* collection[a]: where the results are

vars == <<state, cancelling, collection>>

Init ==
    /\ state = [a \in Attempts |-> "prepared"]
    /\ cancelling = [a \in Attempts |-> FALSE]
    /\ collection = [a \in Attempts |-> "none"]

Terminal(a) == state[a] \in {"succeeded", "failed", "cancelled"}

Move(a, next) == state' = [state EXCEPT ![a] = next]

Submit(a) == state[a] = "prepared"  /\ Move(a, "submitted") /\ UNCHANGED <<cancelling, collection>>

Run(a) == state[a] = "submitted" /\ Move(a, "running") /\ UNCHANGED <<cancelling, collection>>

Fail(a) == ~ Terminal(a) /\ Move(a, "failed") /\ UNCHANGED <<cancelling, collection>>

(* Success and the collection of its results are one step.                  *)
Succeed(a) ==
    /\ state[a] \in {"submitted", "running"}
    /\ ~ cancelling[a]
    /\ Move(a, "succeeded")
    /\ collection' = [collection EXCEPT ![a] = "prepared"]
    /\ UNCHANGED cancelling

RequestCancel(a) ==
    /\ ~ Terminal(a)
    /\ cancelling' = [cancelling EXCEPT ![a] = TRUE]
    /\ UNCHANGED <<state, collection>>

Cancel(a) ==
    /\ cancelling[a]
    /\ state[a] \in {"submitted", "running"}
    /\ Move(a, "cancelled")
    /\ UNCHANGED <<cancelling, collection>>

(* Nothing was submitted yet: the cancellation takes effect at once.        *)
CancelPrepared(a) ==
    /\ state[a] = "prepared"
    /\ Move(a, "cancelled")
    /\ cancelling' = [cancelling EXCEPT ![a] = TRUE]
    /\ UNCHANGED collection

Collect(a) ==
    /\ collection[a] = "prepared"
    /\ \E next \in {"collected", "failed"} : collection' = [collection EXCEPT ![a] = next]
    /\ UNCHANGED <<state, cancelling>>

Next ==
    \E a \in Attempts :
        \/ Submit(a) \/ Run(a) \/ Succeed(a) \/ Fail(a)
        \/ RequestCancel(a) \/ Cancel(a) \/ CancelPrepared(a) \/ Collect(a)

Spec == Init /\ [][Next]_vars
=============================================================================
