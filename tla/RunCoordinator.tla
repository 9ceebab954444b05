---------------------------- MODULE RunCoordinator ----------------------------
(***************************************************************************)
(* One run of the paper-implementation run coordinator: a lane of slots    *)
(* that callers advance under a lease.  A caller takes the lease, reads    *)
(* the persisted steps, and runs the first slot that has not passed until  *)
(* one of them parks the run.  Every write of the run row is fenced on the *)
(* caller's lease; the insert of a step is not, and a heartbeat precedes   *)
(* it.  Callers may be slower than their lease, a write may fail, and the  *)
(* backend may crash; nothing but the next advance picks the run up again. *)
(*                                                                         *)
(* What a slot computes is its outcome and the provider calls it spent;    *)
(* "blocked" stands for failed_runtime too, which is treated alike.  The   *)
(* decision queue, which no coordinator reads, is not a variable.          *)
(* Every caller holds the lease under an id of its own.                    *)
(***************************************************************************)
EXTENDS Integers, Sequences

CONSTANTS
    Callers,          \* callers of advance, their holder ids
    LaneLength,       \* slots of the lane
    DecisionSlots,    \* the slots whose review is a human decision
    InitialEnvelope,  \* the budget the run is created with
    MaxEnvelope,      \* bound: the largest budget a raise asks for
    SlotCalls,        \* bound: the numbers of provider calls a slot may spend
    MaxDisturbances,  \* bound: crashes, failing writes, leases too short
    None

VARIABLES
    row,          \* the row of the run
    steps,        \* its persisted steps, in the order of their inserts
    pc,           \* pc[c]: the await caller c is at
    local,        \* local[c]: its local variables
    disturbances

vars == <<row, steps, pc, local, disturbances>>

Lane == 1..LaneLength

Budget == [steps : Nat, calls : Nat]
Covers(e, f) == e.steps >= f.steps /\ e.calls >= f.calls

ASSUME CoordinatorAssumption ==
    /\ None \notin Callers
    /\ LaneLength \in Nat \ {0}
    /\ DecisionSlots \subseteq Lane
    /\ InitialEnvelope \in Budget /\ MaxEnvelope \in Budget
    /\ InitialEnvelope.steps > 0 /\ InitialEnvelope.calls > 0
    /\ Covers(MaxEnvelope, InitialEnvelope)
    /\ SlotCalls \subseteq Nat /\ 0 \in SlotCalls
    /\ MaxDisturbances \in Nat

Envelopes == [steps : 0..MaxEnvelope.steps, calls : 0..MaxEnvelope.calls]

Statuses == {"created", "advancing", "waiting_review", "blocked",
             "budget_exhausted", "completed", "failed"}
Terminal == row.status \in {"completed", "failed"}

Outcomes == {"passed", "blocked", "waiting_review"}
Step == [index : Lane, outcome : Outcomes, calls : SlotCalls, accepted : BOOLEAN]

(* tier: a blocked slot that could not reserve its calls.                   *)
Result == [index : Lane, outcome : Outcomes, calls : SlotCalls,
           accepted : BOOLEAN, tier : BOOLEAN]

Locals == [entry : Statuses, raise : Envelopes \cup {None}, accept : BOOLEAN,
           envelope : Envelopes, consumed : Budget, taken : Budget,
           log : Seq(Step), result : Result \cup {None}]

Nothing == [steps |-> 0, calls |-> 0]

Fresh == [entry |-> "created", raise |-> None, accept |-> FALSE,
          envelope |-> InitialEnvelope, consumed |-> Nothing, taken |-> Nothing,
          log |-> <<>>, result |-> None]

PCs == {"idle", "acquire", "raise", "list", "accept", "loop", "slot",
        "report", "step", "count", "queue", "settle", "release"}

TypeOK ==
    /\ row \in [status : Statuses, envelope : Envelopes, consumed : Budget,
                holder : Callers \cup {None}, live : BOOLEAN]
    /\ steps \in Seq(Step)
    /\ pc \in [Callers -> PCs]
    /\ local \in [Callers -> Locals]
    /\ disturbances \in 0..MaxDisturbances

(* createCoordinatorRun.                                                    *)
Init ==
    /\ row = [status |-> "created", envelope |-> InitialEnvelope,
              consumed |-> Nothing, holder |-> None, live |-> FALSE]
    /\ steps = <<>>
    /\ pc = [c \in Callers |-> "idle"]
    /\ local = [c \in Callers |-> Fresh]
    /\ disturbances = 0

-----------------------------------------------------------------------------
(* What the persisted steps say                                             *)

Passed(log, i) == \E j \in 1..Len(log) : log[j].index = i /\ log[j].outcome = "passed"

Complete(log) == \A i \in Lane : Passed(log, i)

IsNext(log, i) == ~ Passed(log, i) /\ \A k \in 1..(i - 1) : Passed(log, k)

Parked(log, i) ==
    \E j \in 1..Len(log) : log[j].index = i /\ log[j].outcome = "waiting_review"

Calls(log) ==
    LET sum[n \in 0..Len(log)] == IF n = 0 THEN 0 ELSE sum[n - 1] + log[n].calls
    IN  sum[Len(log)]

Consumed(log) == [steps |-> Len(log), calls |-> Calls(log)]

(* Mutant: the budgets are off by one.                                      *)
LaxExhausted(c) ==
    \/ Len(local[c].log) > local[c].envelope.steps
    \/ Calls(local[c].log) > local[c].envelope.calls

Exhausted(c) ==
    \/ Len(local[c].log) + 1 > local[c].envelope.steps
    \/ Calls(local[c].log) >= local[c].envelope.calls

-----------------------------------------------------------------------------
(* The lease.  A write of the row carries the whole row the caller knows.   *)

Mine(c) == row.holder = c

Known(c, live) ==
    [status |-> "advancing", envelope |-> local[c].envelope,
     consumed |-> local[c].consumed, holder |-> c, live |-> live]

(* Mutant: a stale caller's heartbeat is not refused.                       *)
UnfencedHeartbeat(c) == row' = Known(c, TRUE)

(* persistRun of withBumpedLease.                                           *)
Heartbeat(c) == Mine(c) /\ row' = Known(c, TRUE)

Return(c) ==
    /\ pc' = [pc EXCEPT ![c] = "idle"]
    /\ local' = [local EXCEPT ![c] = Fresh]

Disturb == disturbances < MaxDisturbances /\ disturbances' = disturbances + 1

Goto(c, label) == pc' = [pc EXCEPT ![c] = label]

(* finish: parks the run and releases the lease.                            *)
Finish(c, status) ==
    /\ Mine(c)
    /\ row' = [Known(c, FALSE) EXCEPT !.status = status, !.holder = None]
    /\ Return(c)
    /\ UNCHANGED <<steps, disturbances>>

(* A rejected advance restores the status it read on entry.                 *)
Reject(c) == Finish(c, local[c].entry)

-----------------------------------------------------------------------------
(* Entering an advance                                                      *)

Request(c) ==
    /\ pc[c] = "idle"
    /\ ~ Terminal
    /\ \E raise \in {None} \cup {e \in Envelopes : Covers(e, row.envelope)}, accept \in BOOLEAN :
          /\ row.status = "budget_exhausted" => raise # None
          /\ local' = [local EXCEPT ![c] = [Fresh EXCEPT
                !.entry = row.status, !.raise = raise, !.accept = accept]]
    /\ Goto(c, "acquire")
    /\ UNCHANGED <<row, steps, disturbances>>

(* Mutant: a terminal run can be leased again.                              *)
LaxAcquirable(c) == row.holder \in {None, c} \/ ~ row.live

Acquirable(c) == ~ Terminal /\ (row.holder \in {None, c} \/ ~ row.live)

Acquire(c) ==
    /\ pc[c] = "acquire"
    /\ Acquirable(c)
    /\ row' = [row EXCEPT !.status = "advancing", !.holder = c, !.live = TRUE]
    /\ local' = [local EXCEPT ![c].envelope = row.envelope,
                              ![c].consumed = row.consumed, ![c].taken = row.consumed]
    /\ Goto(c, IF local[c].raise = None THEN "list" ELSE "raise")
    /\ UNCHANGED <<steps, disturbances>>

(* The reads that follow the compare-and-set fail: nobody gives the lease   *)
(* back.                                                                    *)
AbandonAcquired(c) ==
    /\ pc[c] = "acquire"
    /\ Acquirable(c)
    /\ row' = [row EXCEPT !.status = "advancing", !.holder = c, !.live = TRUE]
    /\ Return(c)
    /\ Disturb
    /\ UNCHANGED steps

(* CONCURRENT_ADVANCE, or the run has become terminal.                      *)
RefuseAdvance(c) ==
    /\ pc[c] = "acquire"
    /\ ~ Acquirable(c)
    /\ Return(c)
    /\ UNCHANGED <<row, steps, disturbances>>

Larger(m, n) == IF m >= n THEN m ELSE n

(* Mutant: the raise is added to the envelope.                              *)
RaisedOnTop(e, r) == [steps |-> e.steps + r.steps, calls |-> e.calls + r.calls]

(* Mutant: the envelope becomes what the caller asked for before it held    *)
(* the lease.                                                               *)
RaisedToRequest(e, r) == r

Raised(e, r) == [steps |-> Larger(e.steps, r.steps), calls |-> Larger(e.calls, r.calls)]

(* The raise against the row under the lease; an override of payloads, the  *)
(* other reason for this write, is a raise to the same envelope.            *)
RaiseEnvelope(c) ==
    LET raised == Raised(local[c].envelope, local[c].raise) IN
    /\ pc[c] = "raise"
    /\ Mine(c)
    /\ row' = [Known(c, row.live) EXCEPT !.envelope = raised]
    /\ local' = [local EXCEPT ![c].envelope = raised, ![c].raise = None]
    /\ Goto(c, "list")
    /\ UNCHANGED <<steps, disturbances>>

ListSteps(c) ==
    /\ pc[c] = "list"
    /\ local' = [local EXCEPT ![c].log = steps]
    /\ Goto(c, IF local[c].accept THEN "accept" ELSE "loop")
    /\ UNCHANGED <<row, steps, disturbances>>

-----------------------------------------------------------------------------
(* Confirm-and-continue: a human decision passes the slot it was parked at. *)

(* validateReviewAcceptance.                                                *)
Acceptable(c, i) ==
    /\ IsNext(local[c].log, i)
    /\ Parked(local[c].log, i)
    /\ i \in DecisionSlots
    /\ Len(local[c].log) + 1 <= local[c].envelope.steps

AcceptReview(c) ==
    /\ pc[c] = "accept"
    /\ \E i \in Lane :
          /\ Acceptable(c, i)
          /\ local' = [local EXCEPT ![c].result =
                [index |-> i, outcome |-> "passed", calls |-> 0,
                 accepted |-> TRUE, tier |-> FALSE]]
    /\ Heartbeat(c)
    /\ Goto(c, "step")
    /\ UNCHANGED <<steps, disturbances>>

(* Nothing to accept, or the decision the request names does not decide it. *)
RejectAcceptance(c) == pc[c] = "accept" /\ Reject(c)

-----------------------------------------------------------------------------
(* The loop                                                                 *)

(* The counters of the row are a cache of the steps, rebuilt on entry.      *)
RebuildConsumed(c) ==
    /\ pc[c] = "loop"
    /\ local[c].consumed # Consumed(local[c].log)
    /\ Mine(c)
    /\ row' = [Known(c, row.live) EXCEPT !.consumed = Consumed(local[c].log)]
    /\ local' = [local EXCEPT ![c].consumed = Consumed(local[c].log)]
    /\ UNCHANGED <<steps, pc, disturbances>>

AtLoop(c) == pc[c] = "loop" /\ local[c].consumed = Consumed(local[c].log)

FinishCompleted(c) == AtLoop(c) /\ Complete(local[c].log) /\ Finish(c, "completed")

(* Mutant: an override re-runs a slot that waits for a human decision.      *)
NoDecision(c, i) == FALSE

AwaitsDecision(c, i) == i \in DecisionSlots /\ Parked(local[c].log, i)

RejectAtDecision(c) ==
    /\ AtLoop(c)
    /\ \E i \in Lane : IsNext(local[c].log, i) /\ AwaitsDecision(c, i)
    /\ Reject(c)

FinishExhausted(c) ==
    /\ AtLoop(c)
    /\ \E i \in Lane : IsNext(local[c].log, i) /\ ~ AwaitsDecision(c, i)
    /\ Exhausted(c)
    /\ Finish(c, "budget_exhausted")

SlotToRun(c, i) ==
    IsNext(local[c].log, i) /\ ~ AwaitsDecision(c, i) /\ ~ Exhausted(c)

(* The heartbeat before the slot.                                           *)
StartSlot(c) ==
    /\ AtLoop(c)
    /\ \E i \in Lane :
          /\ SlotToRun(c, i)
          /\ local' = [local EXCEPT ![c].result =
                [index |-> i, outcome |-> "blocked", calls |-> 0,
                 accepted |-> FALSE, tier |-> FALSE]]
    /\ Heartbeat(c)
    /\ Goto(c, "slot")
    /\ UNCHANGED <<steps, disturbances>>

(* runSlot: whatever it returns or throws is an outcome.                    *)
RunSlot(c) ==
    /\ pc[c] = "slot"
    /\ \E outcome \in Outcomes, calls \in SlotCalls, tier \in BOOLEAN :
          /\ tier => outcome # "passed" /\ calls = 0
          /\ local' = [local EXCEPT ![c].result =
                [@ EXCEPT !.outcome = outcome, !.calls = calls, !.tier = tier]]
    /\ Goto(c, "report")
    /\ UNCHANGED <<row, steps, disturbances>>

(* The heartbeat before the step.                                           *)
ReportSlot(c) ==
    /\ pc[c] = "report"
    /\ Heartbeat(c)
    /\ Goto(c, "step")
    /\ UNCHANGED <<steps, local, disturbances>>

StepOf(r) == [index |-> r.index, outcome |-> r.outcome, calls |-> r.calls,
              accepted |-> r.accepted]

(* persistStep: not fenced.                                                 *)
PersistStep(c) ==
    LET step == StepOf(local[c].result) IN
    /\ pc[c] = "step"
    /\ steps' = Append(steps, step)
    /\ local' = [local EXCEPT ![c].log = Append(@, step)]
    /\ Goto(c, "count")
    /\ UNCHANGED <<row, disturbances>>

AfterCount(r) ==
    IF r.outcome = "passed" /\ r.accepted THEN "loop"
    ELSE IF r.outcome = "blocked" THEN "queue" ELSE "settle"

CountStep(c) ==
    LET consumed == Consumed(local[c].log) IN
    /\ pc[c] = "count"
    /\ Mine(c)
    /\ row' = [Known(c, TRUE) EXCEPT !.consumed = consumed]
    /\ local' = [local EXCEPT ![c].consumed = consumed]
    /\ Goto(c, AfterCount(local[c].result))
    /\ UNCHANGED <<steps, disturbances>>

EnqueueBlocker(c) ==
    /\ pc[c] = "queue"
    /\ Goto(c, "settle")
    /\ UNCHANGED <<row, steps, local, disturbances>>

Overspent(c) == Calls(local[c].log) > local[c].envelope.calls

FinishParked(c) ==
    /\ pc[c] = "settle"
    /\ LET r == local[c].result IN
       \/ (r.tier \/ Overspent(c)) /\ Finish(c, "budget_exhausted")
       \/ /\ ~ r.tier /\ ~ Overspent(c) /\ r.outcome = "waiting_review"
          /\ Finish(c, "waiting_review")
       \/ /\ ~ r.tier /\ ~ Overspent(c) /\ r.outcome = "blocked"
          /\ Finish(c, "blocked")

ContinueLoop(c) ==
    /\ pc[c] = "settle"
    /\ local[c].result.outcome = "passed" /\ ~ Overspent(c)
    /\ local' = [local EXCEPT ![c].result = None]
    /\ Goto(c, "loop")
    /\ UNCHANGED <<row, steps, disturbances>>

-----------------------------------------------------------------------------
(* Failures                                                                 *)

Writing == {"raise", "accept", "loop", "report", "count", "settle"}

(* A fenced write that finds another holder: the caller gives up.           *)
FencedOut(c) ==
    /\ pc[c] \in Writing
    /\ ~ Mine(c)
    /\ Return(c)
    /\ UNCHANGED <<row, steps, disturbances>>

(* A write fails, or its answer is lost: when it took effect, the caller is *)
(* already at the next await.                                               *)
FailWrite(c) ==
    /\ pc[c] \in Writing \cup {"step", "queue"}
    /\ Goto(c, "release")
    /\ Disturb
    /\ UNCHANGED <<row, steps, local>>

(* tryReleaseOwnLease, which may fail too.                                  *)
ReleaseLease(c) ==
    /\ pc[c] = "release"
    /\ row' = IF Mine(c) THEN [row EXCEPT !.holder = None, !.live = FALSE] ELSE row
    /\ Return(c)
    /\ UNCHANGED <<steps, disturbances>>

KeepLease(c) ==
    /\ pc[c] = "release"
    /\ Return(c)
    /\ UNCHANGED <<row, steps, disturbances>>

(* A read fails, or a slot request cannot be built: tryMarkFailed writes    *)
(* the row as the advance knew it before the loop.                          *)
MarkFailed(c) ==
    /\ \/ pc[c] = "list"
       \/ pc[c] = "accept" /\ \E i \in Lane : Acceptable(c, i)
       \/ AtLoop(c) /\ \E i \in Lane : SlotToRun(c, i)
    /\ row' = IF Mine(c)
              THEN [Known(c, FALSE) EXCEPT
                       !.status = "failed", !.consumed = local[c].taken, !.holder = None]
              ELSE row
    /\ Return(c)
    /\ Disturb
    /\ UNCHANGED <<steps>>

Crash ==
    /\ pc' = [c \in Callers |-> "idle"]
    /\ local' = [c \in Callers |-> Fresh]
    /\ Disturb
    /\ UNCHANGED <<row, steps>>

(* Time passes.  The insert of a step follows the heartbeat at once, never  *)
(* later than the lease that heartbeat renewed.                             *)
AtWork(c) == pc[c] \notin {"idle", "acquire"}

LeaseExpires ==
    /\ row.holder # None
    /\ row.live
    /\ pc[row.holder] # "step"
    /\ row' = [row EXCEPT !.live = FALSE]
    /\ IF AtWork(row.holder) THEN Disturb ELSE UNCHANGED disturbances
    /\ UNCHANGED <<steps, pc, local>>

-----------------------------------------------------------------------------
Enter(c) ==
    Request(c) \/ Acquire(c) \/ AbandonAcquired(c) \/ RefuseAdvance(c) \/ RaiseEnvelope(c)
    \/ ListSteps(c) \/ AcceptReview(c) \/ RejectAcceptance(c)

Loop(c) ==
    RebuildConsumed(c) \/ FinishCompleted(c) \/ RejectAtDecision(c) \/ FinishExhausted(c)
    \/ StartSlot(c) \/ RunSlot(c) \/ ReportSlot(c) \/ PersistStep(c) \/ CountStep(c)
    \/ EnqueueBlocker(c) \/ FinishParked(c) \/ ContinueLoop(c)

Fail(c) ==
    FencedOut(c) \/ FailWrite(c) \/ ReleaseLease(c) \/ KeepLease(c) \/ MarkFailed(c)

Next ==
    \/ \E c \in Callers : Enter(c) \/ Loop(c) \/ Fail(c)
    \/ Crash
    \/ LeaseExpires

Spec == Init /\ [][Next]_vars

-----------------------------------------------------------------------------
(* Properties                                                               *)

Before(j) == SubSeq(steps, 1, j - 1)

(* The persisted steps walk the lane in order: a slot is attempted only     *)
(* after every slot before it passed, and never again once it passed, no    *)
(* matter how advances, takeovers and crashes interleave.                   *)
LaneOrder == \A j \in 1..Len(steps) : IsNext(Before(j), steps[j].index)

(* A slot parked for a human decision is never executed again: the only     *)
(* step that can follow the park is the acceptance of a decision, and an    *)
(* acceptance follows a park.                                               *)
ParkedDecisionStands ==
    \A j \in 1..Len(steps) :
        steps[j].accepted <=>
            steps[j].index \in DecisionSlots /\ Parked(Before(j), steps[j].index)

(* The steps never outnumber the envelope, and no slot runs once the calls  *)
(* of the steps before it have used the envelope up, although every advance *)
(* decides on a copy of the steps and of the envelope.                      *)
BudgetIsKept ==
    /\ Len(steps) <= row.envelope.steps
    /\ \A j \in 1..Len(steps) : ~ steps[j].accepted => Calls(Before(j)) < row.envelope.calls

(* Raises only ever grow the envelope, also when they were validated        *)
(* against a row that has changed since, and no write of an advance that    *)
(* started before a raise takes it back.                                    *)
EnvelopeNeverShrinks == [][Covers(row'.envelope, row.envelope)]_row

(* A run completes only with every slot passed, and neither an advance that *)
(* entered before nor one that was overtaken changes a terminal run.        *)
TerminalIsFinal ==
    [][/\ row'.status = "completed" => Complete(steps)
       /\ Terminal => UNCHANGED <<row, steps>>]_<<row, steps>>
=============================================================================
