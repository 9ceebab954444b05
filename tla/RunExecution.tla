----------------------------- MODULE RunExecution -----------------------------
(***************************************************************************)
(* Starting attempts of frozen runs.  A start request reads the run, plans *)
(* one attempt for every cell that needs one and commits them together;    *)
(* the retry of a run is a start like any other.  Between the reads and    *)
(* the commit other requests start the same run, its attempts end, a newer *)
(* run becomes the head of the branch, and an operator closes the cycle.   *)
(* The readiness of the run's assets, which both ends of a start check, is *)
(* not a variable: it may change at any time, so a start may be refused at *)
(* any time.                                                               *)
(*                                                                         *)
(* The revisions behind the runs move as RevisionPipeline allows, which    *)
(* IntegrationRelay implements.  An attempt is active, succeeded, failed   *)
(* or cancelled: CommandControl has the steps in between.                  *)
(***************************************************************************)
EXTENDS Integers, Sequences

CONSTANTS
    Branches,      \* branches of the cycle
    MaxRevisions,  \* bound: revisions per branch
    Cells,         \* the cells of every run
    Keys,          \* business idempotency keys of starts
    Clients,       \* callers of the start operations
    Executable,    \* the runs with an execution bundle: real-provider runs
    RetryCeiling,  \* RetryCeiling[v][cell]: max_attempts of its task spec
    None

VARIABLES
    stage,       \* of the revisions, see RevisionPipeline
    sealed,      \* the cycle is closed
    lineage,     \* lineage[v][cell]: the attempts of the cell, oldest first
    request,     \* request[c]: the start caller c is about to commit, or None
    accounting   \* the attempt states the closure recorded, or None

vars == <<stage, sealed, lineage, request, accounting>>

Runs == Branches \X (1..MaxRevisions)

ASSUME RunAssumption ==
    /\ MaxRevisions \in Nat
    /\ RetryCeiling \in [Runs -> [Cells -> Nat \ {0}]]
    /\ Cells # {}
    /\ Executable \subseteq Runs

Pipeline == INSTANCE RevisionPipeline

-----------------------------------------------------------------------------
AttemptStates == {"active", "succeeded", "failed", "cancelled"}

Attempt == [key : Keys, state : AttemptStates,
            collection : {"none", "prepared", "collected", "failed"}]

NewAttempt(k) == [key |-> k, state |-> "active", collection |-> "none"]

(* The sequence number of the attempt planned for a cell, 0 for none.       *)
Request == [run : Runs, key : Keys, plan : [Cells -> Nat]]

Tries(v, cell) == Len(lineage[v][cell])

TypeOK ==
    /\ stage \in [Runs -> {"unknown", "admitted", "frozen", "ignored", "head", "acknowledged"}]
    /\ sealed \in BOOLEAN
    /\ lineage \in [Runs -> [Cells -> Seq(Attempt)]]
    /\ \A v \in Runs, cell \in Cells : Tries(v, cell) <= RetryCeiling[v][cell]
    /\ request \in [Clients -> Request \cup {None}]
    /\ accounting = None \/ accounting \in [Runs -> [Cells -> Seq(AttemptStates)]]

Init ==
    /\ Pipeline!Init
    /\ lineage = [v \in Runs |-> [cell \in Cells |-> <<>>]]
    /\ request = [c \in Clients |-> None]
    /\ accounting = None

-----------------------------------------------------------------------------
(* What a start reads                                                       *)

(* The run's own head acknowledgement is the latest one of its branch.      *)
LatestAcknowledged(v) ==
    /\ stage[v] = "acknowledged"
    /\ \A t \in 1..MaxRevisions : t > v[2] => stage[<<v[1], t>>] # "acknowledged"

Attempted(v, cell) == lineage[v][cell] # <<>>
Started(v) == \E cell \in Cells : Attempted(v, cell)
Latest(v, cell) == lineage[v][cell][Tries(v, cell)]

StartedWith(v, k) ==
    \E cell \in Cells : \E i \in 1..Tries(v, cell) : lineage[v][cell][i].key = k

(* Mutant: a retry starts every cell again.                                 *)
EveryCell(v) == Cells

(* The cells a start must attempt: all of them first, the failed and        *)
(* cancelled ones later.                                                    *)
CellsToAttempt(v) ==
    {cell \in Cells : Started(v) => Latest(v, cell).state \in {"failed", "cancelled"}}

(* Mutant: the ceiling is off by one.                                       *)
LaxSelectable(v) ==
    /\ CellsToAttempt(v) # {}
    /\ \A cell \in Cells : Started(v) => Latest(v, cell).state # "active"
    /\ \A cell \in CellsToAttempt(v) : Tries(v, cell) <= RetryCeiling[v][cell]

(* selectExactAttemptCells and assertStartShape refuse otherwise.           *)
Selectable(v) ==
    /\ CellsToAttempt(v) # {}
    /\ \A cell \in Cells : Started(v) => Latest(v, cell).state # "active"
    /\ \A cell \in CellsToAttempt(v) : Tries(v, cell) < RetryCeiling[v][cell]

Plan(v) == [cell \in Cells |-> IF cell \in CellsToAttempt(v) THEN Tries(v, cell) + 1 ELSE 0]

(* Mutant: any run may start.                                               *)
HeadlessStartable(v) == ~ sealed

(* The closure of the cycle and the head of the branch.                     *)
Startable(v) == ~ sealed /\ LatestAcknowledged(v)

-----------------------------------------------------------------------------
(* The start operations.  A key that started the run before is replayed,    *)
(* by either check, and changes nothing.                                    *)

ReadStart(c, v, k) ==
    /\ request[c] = None
    /\ ~ StartedWith(v, k)
    /\ Startable(v)
    /\ Selectable(v)
    /\ request' = [request EXCEPT ![c] = [run |-> v, key |-> k, plan |-> Plan(v)]]
    /\ UNCHANGED <<stage, sealed, lineage, accounting>>

(* Mutant: the transaction trusts the plan.                                 *)
UncheckedPlan(c) == TRUE

(* assertStartShape: the plan is what the transaction would plan itself.    *)
PlanStands(c) ==
    LET v == request[c].run IN Selectable(v) /\ request[c].plan = Plan(v)

CommitStart(c) ==
    LET v == request[c].run IN
    /\ request[c] # None
    /\ ~ StartedWith(v, request[c].key)
    /\ Startable(v)
    /\ PlanStands(c)
    /\ lineage' = [lineage EXCEPT ![v] = [cell \in Cells |->
          IF request[c].plan[cell] # 0
          THEN Append(@[cell], NewAttempt(request[c].key)) ELSE @[cell]]]
    /\ request' = [request EXCEPT ![c] = None]
    /\ UNCHANGED <<stage, sealed, accounting>>

(* The transaction replays the key or refuses the start, or it is aborted   *)
(* (P2002, or P2034 three times): nothing is written.  An answer that is    *)
(* lost after the commit is a repetition of the key.                        *)
EndStart(c) ==
    /\ request[c] # None
    /\ request' = [request EXCEPT ![c] = None]
    /\ UNCHANGED <<stage, sealed, lineage, accounting>>

StartStep ==
    \E c \in Clients :
        \/ \E v \in Runs, k \in Keys : ReadStart(c, v, k)
        \/ CommitStart(c)
        \/ EndStart(c)

-----------------------------------------------------------------------------
(* Attempts end, and the collection of a success is prepared with it and    *)
(* completes later.                                                         *)

Update(v, cell, i, attempt) == lineage' = [lineage EXCEPT ![v][cell][i] = attempt]

EndAttempt(v, cell, i) ==
    /\ lineage[v][cell][i].state = "active"
    /\ \E state \in AttemptStates \ {"active"} :
          Update(v, cell, i, [lineage[v][cell][i] EXCEPT
              !.state = state,
              !.collection = IF state = "succeeded" THEN "prepared" ELSE "none"])
    /\ UNCHANGED <<stage, sealed, request, accounting>>

CompleteCollection(v, cell, i) ==
    /\ lineage[v][cell][i].collection = "prepared"
    /\ \E outcome \in {"collected", "failed"} :
          Update(v, cell, i, [lineage[v][cell][i] EXCEPT !.collection = outcome])
    /\ UNCHANGED <<stage, sealed, request, accounting>>

AttemptStep ==
    \E v \in Runs, cell \in Cells : \E i \in 1..Tries(v, cell) :
        EndAttempt(v, cell, i) \/ CompleteCollection(v, cell, i)

-----------------------------------------------------------------------------
(* Revisions and closure                                                    *)

RevisionStep ==
    /\ \E b \in Branches, s \in 1..MaxRevisions :
          \/ Pipeline!Admit(b, s) \/ Pipeline!Freeze(b, s) \/ Pipeline!BecomeHead(b, s)
          \/ Pipeline!Ignore(b, s) \/ Pipeline!Acknowledge(b, s)
    /\ UNCHANGED <<lineage, request, accounting>>

(* listCycleActiveRealAttempts: attempts of any revision count.             *)
ActiveRealAttempt ==
    \E v \in Executable, cell \in Cells :
        \E i \in 1..Tries(v, cell) : lineage[v][cell][i].state = "active"

States(v) == [cell \in Cells |-> [i \in 1..Tries(v, cell) |-> lineage[v][cell][i].state]]

IsHeadRun(v) == Pipeline!Newest(v[1], v[2])

(* The ordered_cells of the watermark: the attempts of the head runs.       *)
Accounting == [v \in Runs |-> IF IsHeadRun(v) THEN States(v) ELSE [cell \in Cells |-> <<>>]]

(* Mutant: an active attempt does not block the closure.                    *)
UnfencedCloseCycle ==
    /\ Pipeline!Seal
    /\ accounting' = Accounting
    /\ UNCHANGED <<lineage, request>>

(* The caller's expectation is an input, and only the one equal to the      *)
(* watermark the transaction rebuilds gets past it.                         *)
CloseCycle ==
    /\ ~ ActiveRealAttempt
    /\ Pipeline!Seal
    /\ accounting' = Accounting
    /\ UNCHANGED <<lineage, request>>

Next == StartStep \/ AttemptStep \/ RevisionStep \/ CloseCycle

Spec == Init /\ [][Next]_vars

-----------------------------------------------------------------------------
(* The status projection of a run                                           *)

LatestOf(v) == {Latest(v, cell) : cell \in {d \in Cells : Attempted(v, d)}}

HasFailed(attempt) == attempt.state = "failed" \/ attempt.collection = "failed"
IsBlocked(attempt) == attempt.state = "cancelled"
HasPassed(attempt) == attempt.state = "succeeded" /\ attempt.collection = "collected"

DeriveStatus(v) ==
    IF ~ Started(v) THEN "not_started"
    ELSE IF \E attempt \in LatestOf(v) : HasFailed(attempt) THEN "workflow_simulation_failed"
    ELSE IF \E attempt \in LatestOf(v) : IsBlocked(attempt) THEN "workflow_simulation_blocked"
    ELSE IF (\A cell \in Cells : Attempted(v, cell)) /\ \A attempt \in LatestOf(v) : HasPassed(attempt)
    THEN "workflow_simulation_passed"
    ELSE "in_progress"

-----------------------------------------------------------------------------
(* Properties                                                               *)

(* However starts race each other and the ends of attempts, the cells of a  *)
(* run are started together, a cell is tried again only after a failure or  *)
(* a cancel and never beyond the ceiling, and one key starts a cell once.   *)
StartedTogether(v) == Started(v) => \A cell \in Cells : Attempted(v, cell)

TriedAgainAfterFailure(v) ==
    \A cell \in Cells : \A i \in 1..Tries(v, cell) :
        i < Tries(v, cell) => lineage[v][cell][i].state \in {"failed", "cancelled"}

KeysStartOnce(v) ==
    \A cell \in Cells : \A i, j \in 1..Tries(v, cell) :
        lineage[v][cell][i].key = lineage[v][cell][j].key => i = j

LineageIsExact ==
    \A v \in Runs : StartedTogether(v) /\ TriedAgainAfterFailure(v) /\ KeysStartOnce(v)

(* What the closure recorded of the real-provider attempts stays true: none *)
(* is active, none ends and none starts after it, although starts were in   *)
(* flight when it committed.                                                *)
ClosedAccountingStands ==
    sealed =>
        /\ ~ ActiveRealAttempt
        /\ \A v \in Executable : IsHeadRun(v) => accounting[v] = States(v)

(* A run that a newer acknowledged run has superseded gets no new attempt,  *)
(* whatever was planned before.                                             *)
SupersededRunsStayPut ==
    [][\A v \in Runs, cell \in Cells :
          stage[v] = "acknowledged" /\ ~ LatestAcknowledged(v) =>
              Tries(v, cell)' = Tries(v, cell)]_lineage

(* A run that passed stays passed: no retry and no late collection takes    *)
(* the verdict back.                                                        *)
PassedIsFinal ==
    [][\A v \in Runs :
          DeriveStatus(v) = "workflow_simulation_passed" =>
              DeriveStatus(v)' = "workflow_simulation_passed"]_lineage
=============================================================================
