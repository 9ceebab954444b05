---------------------------- MODULE ExperimentSpine ----------------------------
(***************************************************************************)
(* The durable state of the experiment spine of one validation cycle and   *)
(* the transactions on it: paper implementation (PI) admits revisions of a *)
(* branch, experiment foundation (EF) freezes a run for each, PI moves the *)
(* head of the branch to it, EF acknowledges, and an operator closes the   *)
(* cycle.  The two domains talk through outboxes and inboxes only, which   *)
(* IntegrationRelay carries.                                               *)
(*                                                                         *)
(* Generated ids are not modelled: an event is known by what it announces, *)
(* because each domain stores one of a kind per revision.  What the code   *)
(* decides by comparing generated ids is said where it matters.            *)
(***************************************************************************)
EXTENDS Integers, FiniteSets

CONSTANTS
    Branches,      \* branch keys of the cycle
    Keys,          \* admission business keys; a key always carries the same plan
    Clients,       \* callers of the admission service
    Relays,        \* relay processes
    MaxRevisions,  \* bound: revisions admitted per branch
    MaxCounter,    \* the limit of the 32-bit state version
    None

ASSUME SpineAssumption ==
    /\ MaxRevisions \in Nat
    /\ MaxCounter \in Nat
    /\ None \notin Relays

VARIABLES
    branch,      \* branch[b]: the branch row
    admissions,  \* admissions[b][k]: the revision admitted under key k, or 0
    runs,        \* the <<branch, revision>> pairs with a frozen EF run
    closed,      \* the cycle has its immutable closure
    revoked,     \* the readiness attestation was revoked
    outbox,      \* outbox[e]: the relay state of event e
    receipt,     \* receipt[e]: the inbox outcome of e's only consumer
    client,      \* client[c]: the admission caller c is at
    watermark    \* the readiness evaluation the closing operator holds, or None

spineVars == <<branch, admissions, runs, closed, revoked>>
integrationVars == <<outbox, receipt>>
requestVars == <<client, watermark>>
storeVars == <<spineVars, integrationVars, requestVars>>

-----------------------------------------------------------------------------
Revisions == 1..MaxRevisions

Admitted(b, s) == [type |-> "WorkOrderRevisionAdmitted", branch |-> b, seq |-> s]
Frozen(b, s)   == [type |-> "RunManifestFrozen",         branch |-> b, seq |-> s]
Advanced(b, s) == [type |-> "BranchHeadAdvanced",        branch |-> b, seq |-> s]

(* The closure speaks of the cycle; it has neither branch nor revision.     *)
CycleClosed == [type |-> "ValidationCycleClosed", branch |-> None, seq |-> 0]

RevisionEvents(types) == [type : types, branch : Branches, seq : Revisions]

PiEvents == RevisionEvents({"WorkOrderRevisionAdmitted", "BranchHeadAdvanced"}) \cup {CycleClosed}
EfEvents == RevisionEvents({"RunManifestFrozen"})
Events == PiEvents \cup EfEvents

Branch == [version : 0..MaxCounter, current : 0..MaxRevisions, head : 0..MaxRevisions]

OutboxRow == [status : {"absent", "pending", "leased", "delivered", "terminal"},
              owner : Relays \cup {None}, live : BOOLEAN]

Receipts == {"none", "processed", "ignored_stale"}

Answers == {"none", "admitted", "replayed", "CYCLE_ALREADY_CLOSED", "CONCURRENT_ADVANCE",
            "BRANCH_SCOPE_CONFLICT", "ADMISSION_IDEMPOTENCY_CONFLICT"}

(* While its commit is pending a client holds the branch it read.           *)
Client == [pending : BOOLEAN, branch : Branches \cup {None}, key : Keys \cup {None},
           version : 0..MaxCounter, current : 0..MaxRevisions, answer : Answers]

IdleClient == [pending |-> FALSE, branch |-> None, key |-> None,
               version |-> 0, current |-> 0, answer |-> "none"]

(* Per branch: its current revision and the head, if acknowledged, or 0.    *)
Watermarks == [Branches -> [current : 0..MaxRevisions, head : 0..MaxRevisions]]

SpineTypeOK ==
    /\ branch \in [Branches -> Branch]
    /\ admissions \in [Branches -> [Keys -> 0..MaxRevisions]]
    /\ runs \in SUBSET (Branches \X Revisions)
    /\ closed \in BOOLEAN
    /\ revoked \in BOOLEAN
    /\ outbox \in [Events -> OutboxRow]
    /\ receipt \in [Events -> Receipts]
    /\ client \in [Clients -> Client]
    /\ watermark \in Watermarks \cup {None}

NoRow == [status |-> "absent", owner |-> None, live |-> FALSE]
PendingRow == [status |-> "pending", owner |-> None, live |-> FALSE]

SpineInit ==
    /\ branch = [b \in Branches |-> [version |-> 0, current |-> 0, head |-> 0]]
    /\ admissions = [b \in Branches |-> [k \in Keys |-> 0]]
    /\ runs = {}
    /\ closed = FALSE
    /\ revoked = FALSE
    /\ outbox = [e \in Events |-> NoRow]
    /\ receipt = [e \in Events |-> "none"]
    /\ client = [c \in Clients |-> IdleClient]
    /\ watermark = None

-----------------------------------------------------------------------------
(* Outbox and inbox writes of a transaction                                 *)

Emit(e) == outbox' = [outbox EXCEPT ![e] = PendingRow]

Receive(e, outcome) == receipt' = [receipt EXCEPT ![e] = outcome]

-----------------------------------------------------------------------------
(* Admission: admitEnabled reads the branch, then commitAdmission checks    *)
(* again and writes revision, branch and outbox in one transaction.         *)

AnswerClient(c, answer) == client' = [client EXCEPT ![c] = [IdleClient EXCEPT !.answer = answer]]

(* The closure also completes the cycle, so that a closed cycle fails the   *)
(* gate on its lifecycle before a replay is looked for.                     *)
ReadBranch(c, b, k) ==
    /\ ~ client[c].pending
    /\ IF closed THEN AnswerClient(c, "BRANCH_SCOPE_CONFLICT")
       ELSE IF admissions[b][k] # 0 THEN AnswerClient(c, "replayed")
       ELSE IF branch[b].version >= MaxCounter THEN AnswerClient(c, "CONCURRENT_ADVANCE")
       ELSE /\ branch[b].current < MaxRevisions
            /\ client' = [client EXCEPT ![c] =
                  [pending |-> TRUE, branch |-> b, key |-> k, version |-> branch[b].version,
                   current |-> branch[b].current, answer |-> "none"]]
    /\ UNCHANGED <<spineVars, integrationVars, watermark>>

(* The transaction finds the key already admitted: it is a replay only if   *)
(* the stored revision has the sequence the caller computed.                *)
ReplayAdmission(c) ==
    LET b == client[c].branch
        stored == admissions[b][client[c].key]
    IN  /\ client[c].pending
        /\ stored # 0
        /\ AnswerClient(c, IF stored = client[c].current + 1
                           THEN "replayed" ELSE "ADMISSION_IDEMPOTENCY_CONFLICT")
        /\ UNCHANGED <<spineVars, integrationVars, watermark>>

UnfencedAdmissionConflict(c) == IF closed THEN "CYCLE_ALREADY_CLOSED" ELSE "none"

AdmissionConflict(c) ==
    LET b == client[c].branch IN
    IF closed THEN "CYCLE_ALREADY_CLOSED"
    ELSE IF branch[b].version # client[c].version THEN "CONCURRENT_ADVANCE"
    ELSE "none"

RefuseAdmission(c) ==
    /\ client[c].pending
    /\ admissions[client[c].branch][client[c].key] = 0
    /\ AdmissionConflict(c) # "none"
    /\ AnswerClient(c, AdmissionConflict(c))
    /\ UNCHANGED <<spineVars, integrationVars, watermark>>

CommitAdmission(c) ==
    LET b == client[c].branch
        s == client[c].current + 1
    IN  /\ client[c].pending
        /\ admissions[b][client[c].key] = 0
        /\ AdmissionConflict(c) = "none"
        /\ branch' = [branch EXCEPT ![b].version = client[c].version + 1, ![b].current = s]
        /\ admissions' = [admissions EXCEPT ![b][client[c].key] = s]
        /\ Emit(Admitted(b, s))
        /\ AnswerClient(c, "admitted")
        /\ UNCHANGED <<runs, closed, revoked, receipt, watermark>>

AdmissionStep ==
    \E c \in Clients :
        \/ \E b \in Branches, k \in Keys : ReadBranch(c, b, k)
        \/ ReplayAdmission(c) \/ RefuseAdmission(c) \/ CommitAdmission(c)

-----------------------------------------------------------------------------
(* Closure: the operator evaluates readiness and later closes with what the *)
(* evaluation said; the transaction evaluates again and compares.           *)

(* headMatchesCurrentScope: the current revision has the head of the branch *)
(* and experiment foundation acknowledged it.                               *)
HeadMatchesCurrentScope(b) ==
    LET s == branch[b].current IN
    /\ s # 0
    /\ branch[b].head = s
    /\ <<b, s>> \in runs
    /\ receipt[Advanced(b, s)] = "processed"

Watermark ==
    [b \in Branches |->
        [current |-> branch[b].current,
         head |-> IF HeadMatchesCurrentScope(b) THEN branch[b].head ELSE 0]]

AdmittedBranches == {b \in Branches : branch[b].current # 0}

NoBlocker == \A b \in AdmittedBranches : HeadMatchesCurrentScope(b)

EvaluateReadiness ==
    /\ ~ closed
    /\ watermark = None
    /\ AdmittedBranches # {}
    /\ watermark' = Watermark
    /\ UNCHANGED <<spineVars, integrationVars, client>>

CloseCycle ==
    /\ watermark # None
    /\ ~ closed
    /\ watermark = Watermark
    /\ NoBlocker
    /\ closed' = TRUE
    /\ Emit(CycleClosed)
    /\ watermark' = None
    /\ UNCHANGED <<branch, admissions, runs, revoked, receipt, client>>

(* Closed already, CYCLE_CLOSURE_SCOPE_DRIFT, or BRANCH_HEAD_NOT_FROZEN.    *)
RefuseClosure ==
    /\ watermark # None
    /\ closed \/ watermark # Watermark \/ ~ NoBlocker
    /\ watermark' = None
    /\ UNCHANGED <<spineVars, integrationVars, client>>

ClosureStep == EvaluateReadiness \/ CloseCycle \/ RefuseClosure

(* Lifecycle revocation of the attestation the revisions bind.              *)
RevokeReadiness ==
    /\ ~ revoked
    /\ revoked' = TRUE
    /\ UNCHANGED <<branch, admissions, runs, closed, integrationVars, requestVars>>
=============================================================================
