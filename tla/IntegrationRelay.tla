---------------------------- MODULE IntegrationRelay ----------------------------
(***************************************************************************)
(* ExperimentV2IntegrationRelayService and the consumers it delivers to.   *)
(* A relay leases due rows of the PI outbox, then of the EF outbox, and    *)
(* delivers them one after the other: the consumer reads its inbox, reads  *)
(* the authority it needs, commits its own transaction, and only then is   *)
(* the row marked.  Each of these awaits is a step, so a second relay that *)
(* took over an expired lease, an admission or the closure of the cycle    *)
(* may come in between.                                                    *)
(***************************************************************************)
EXTENDS ExperimentSpine

CONSTANTS
    BatchLimit,      \* limit_per_domain
    Disturbances,    \* the kinds of disturbance an instance allows
    MaxDisturbances  \* bound: how many of them

DisturbanceKinds == {"late_lease", "crash", "fault", "lost_answer", "serialization", "revocation"}

ASSUME RelayAssumption ==
    /\ BatchLimit \in Nat \ {0}
    /\ Disturbances \subseteq DisturbanceKinds
    /\ MaxDisturbances \in Nat

VARIABLES
    pc,           \* pc[r]: the await relay r is at
    claims,       \* claims[r]: the events it leased and has not delivered yet
    handling,     \* handling[r]: the event it is delivering, or None
    seen,         \* seen[r]: the branch version its head consumer read
    disturbances  \* how many disturbances have happened

relayVars == <<pc, claims, handling, seen>>
vars == <<storeVars, relayVars, disturbances>>

Labels == {"claim", "claim_ef", "deliver", "receipt", "authority", "commit", "stale",
           "repeat", "mark", "terminalize", "release"}

TypeOK ==
    /\ SpineTypeOK
    /\ pc \in [Relays -> Labels]
    /\ claims \in [Relays -> SUBSET Events]
    /\ handling \in [Relays -> Events \cup {None}]
    /\ seen \in [Relays -> 0..MaxCounter]
    /\ disturbances \in Nat

Init ==
    /\ SpineInit
    /\ pc = [r \in Relays |-> "claim"]
    /\ claims = [r \in Relays |-> {}]
    /\ handling = [r \in Relays |-> None]
    /\ seen = [r \in Relays |-> 0]
    /\ disturbances = 0

Goto(r, label) == pc' = [pc EXCEPT ![r] = label]

(* A consumer step that only moves the relay on.                            *)
Answer(r, label) == Goto(r, label) /\ UNCHANGED <<storeVars, claims, handling, seen, disturbances>>

Disturb(kind) ==
    /\ kind \in Disturbances
    /\ disturbances < MaxDisturbances
    /\ disturbances' = disturbances + 1

-----------------------------------------------------------------------------
(* Claiming                                                                 *)

PendingRelayReady(e) == outbox[e].status = "pending"

(* isRelayReady; the retry delay of a released row is over when it is read. *)
RelayReady(e) ==
    \/ outbox[e].status = "pending"
    \/ outbox[e].status = "leased" /\ ~ outbox[e].live

Batches(domain) ==
    LET ready == {e \in domain : RelayReady(e)}
    IN  {batch \in SUBSET ready :
            \/ batch = ready /\ Cardinality(ready) <= BatchLimit
            \/ Cardinality(batch) = BatchLimit}

ClaimOutbox(r, domain) ==
    \E batch \in Batches(domain) :
        /\ outbox' = [e \in Events |->
                        IF e \in batch
                        THEN [status |-> "leased", owner |-> r, live |-> TRUE] ELSE outbox[e]]
        /\ claims' = [claims EXCEPT ![r] = claims[r] \cup batch]

ClaimPi(r) ==
    /\ pc[r] = "claim"
    /\ \E e \in Events : RelayReady(e)
    /\ ClaimOutbox(r, PiEvents)
    /\ Goto(r, "claim_ef")
    /\ UNCHANGED <<spineVars, receipt, requestVars, handling, seen, disturbances>>

ClaimEf(r) ==
    /\ pc[r] = "claim_ef"
    /\ ClaimOutbox(r, EfEvents)
    /\ Goto(r, "deliver")
    /\ UNCHANGED <<spineVars, receipt, requestVars, handling, seen, disturbances>>

(* The PI claims go first.  The order within a domain is that of creation,  *)
(* with ties broken by random ids; any order is allowed here.               *)
Deliver(r) ==
    /\ pc[r] = "deliver"
    /\ claims[r] # {}
    /\ \E e \in (IF claims[r] \cap PiEvents # {} THEN claims[r] \cap PiEvents ELSE claims[r]) :
          /\ handling' = [handling EXCEPT ![r] = e]
          /\ claims' = [claims EXCEPT ![r] = @ \ {e}]
          /\ Goto(r, "receipt")
    /\ UNCHANGED <<storeVars, seen, disturbances>>

DrainEnds(r) ==
    /\ pc[r] = "deliver"
    /\ claims[r] = {}
    /\ Answer(r, "claim")

-----------------------------------------------------------------------------
(* Consuming: the inbox first.  A stored receipt is an exact replay.  The   *)
(* projection feed reads no authority: it looks the receipt up in the       *)
(* transaction that stores it.                                              *)

ReadReceipt(r) ==
    /\ pc[r] = "receipt"
    /\ Answer(r, IF receipt[handling[r]] # "none" THEN "mark"
                 ELSE IF handling[r] = CycleClosed THEN "commit" ELSE "authority")

(* consume of the materialization service: closure fence and readiness.     *)
ReadMaterializationAuthority(r) ==
    /\ pc[r] = "authority"
    /\ handling[r].type = "WorkOrderRevisionAdmitted"
    /\ Answer(r, IF closed \/ revoked THEN "terminalize" ELSE "commit")

UnboundedHeadDecision(b, s) ==
    IF closed THEN "terminalize"
    ELSE IF s < branch[b].current THEN "stale"
    ELSE IF branch[b].head = s THEN "repeat"
    ELSE "commit"

(* consume of the head service: closure fence, branch, sequence and head.   *)
HeadDecision(b, s) ==
    IF closed THEN "terminalize"
    ELSE IF s > branch[b].current THEN "release"
    ELSE IF s < branch[b].current THEN "stale"
    ELSE IF branch[b].head = s THEN "repeat"
    ELSE IF branch[b].version >= MaxCounter THEN "terminalize"
    ELSE "commit"

ReadHeadAuthority(r) ==
    /\ pc[r] = "authority"
    /\ handling[r].type = "RunManifestFrozen"
    /\ Goto(r, HeadDecision(handling[r].branch, handling[r].seq))
    /\ seen' = [seen EXCEPT ![r] = branch[handling[r].branch].version]
    /\ UNCHANGED <<storeVars, claims, handling, disturbances>>

(* consume of the acknowledgement service: the frozen run must be visible.  *)
ReadAcknowledgementAuthority(r) ==
    /\ pc[r] = "authority"
    /\ handling[r].type = "BranchHeadAdvanced"
    /\ Answer(r, IF <<handling[r].branch, handling[r].seq>> \in runs THEN "commit" ELSE "release")

-----------------------------------------------------------------------------
(* Committing.  What a transaction does and where the relay goes on are     *)
(* kept apart, because the answer of a commit that took effect may be lost. *)

(* commitMaterialization.  A second relay finds the run of the first one,   *)
(* whose generated ids differ from its own: MATERIALIZATION_KEY_CONFLICT.   *)
MaterializationRefused(b, s) == <<b, s>> \in runs \/ closed \/ revoked

Materialize(b, s) ==
    /\ ~ MaterializationRefused(b, s)
    /\ runs' = runs \cup {<<b, s>>}
    /\ Receive(Admitted(b, s), "processed")
    /\ Emit(Frozen(b, s))
    /\ UNCHANGED <<branch, admissions, closed, revoked, requestVars>>

UnfencedHeadAdvanceRefused(b, s, version) == receipt[Frozen(b, s)] # "none"

(* commitHeadAdvance.  A stored receipt is no replay here either, because   *)
(* the BranchHeadAdvanced event of the winner has another id.               *)
HeadAdvanceRefused(b, s, version) ==
    \/ receipt[Frozen(b, s)] # "none"
    \/ closed
    \/ branch[b].version # version
    \/ branch[b].current # s

AdvanceHead(b, s, version) ==
    /\ ~ HeadAdvanceRefused(b, s, version)
    /\ branch' = [branch EXCEPT ![b].version = version + 1, ![b].head = s]
    /\ Receive(Frozen(b, s), "processed")
    /\ Emit(Advanced(b, s))
    /\ UNCHANGED <<admissions, runs, closed, revoked, requestVars>>

OverwritingReceiptAllows(e, outcome) == TRUE

(* findPiInboxReplay, findEfInboxReplay: the first outcome stays, and only  *)
(* the same outcome is a replay of it.                                      *)
ReceiptAllows(e, outcome) == receipt[e] \in {"none", outcome}

(* recordInboxOutcome and commitAcknowledgement look for the receipt, then  *)
(* insert it.  Of two deliveries that both found none the second violates   *)
(* the unique key of the inbox and is refused, whatever its outcome.        *)
RecordRefused(e) == receipt[e] # "none"

Record(e, outcome) ==
    /\ ReceiptAllows(e, outcome)
    /\ Receive(e, outcome)
    /\ UNCHANGED <<spineVars, outbox, requestVars>>

(* The transaction relay r is about to run, and when it may be refused.  A  *)
(* repeated head was read after its receipt was stored, which is found.     *)
Transaction(r) ==
    LET e == handling[r] IN
    \/ pc[r] = "commit" /\ e.type = "WorkOrderRevisionAdmitted" /\ Materialize(e.branch, e.seq)
    \/ pc[r] = "commit" /\ e.type = "RunManifestFrozen" /\ AdvanceHead(e.branch, e.seq, seen[r])
    \/ pc[r] = "commit" /\ e.type \in {"BranchHeadAdvanced", "ValidationCycleClosed"}
                        /\ Record(e, "processed")
    \/ pc[r] = "stale"  /\ Record(e, "ignored_stale")
    \/ pc[r] = "repeat" /\ Record(e, "processed")

Refused(r) ==
    LET e == handling[r] IN
    \/ pc[r] = "commit" /\ e.type = "WorkOrderRevisionAdmitted" /\ MaterializationRefused(e.branch, e.seq)
    \/ pc[r] = "commit" /\ e.type = "RunManifestFrozen" /\ HeadAdvanceRefused(e.branch, e.seq, seen[r])
    \/ pc[r] = "commit" /\ e.type \in {"BranchHeadAdvanced", "ValidationCycleClosed"}
                        /\ RecordRefused(e)
    \/ pc[r] = "stale"  /\ RecordRefused(e)
    \/ pc[r] = "repeat" /\ ~ ReceiptAllows(e, "processed")

Commit(r) ==
    /\ Transaction(r)
    /\ Goto(r, "mark")
    /\ UNCHANGED <<claims, handling, seen, disturbances>>

CommitAnswerLost(r) ==
    /\ Transaction(r)
    /\ Goto(r, "release")
    /\ Disturb("lost_answer")
    /\ UNCHANGED <<claims, handling, seen>>

SettledCommitRefused(r) == Refused(r) /\ Answer(r, "mark")

(* A constraint error becomes an AppError other than PREREQUISITE_NOT_READY *)
(* and so is final for the relay.  The projection feed passes it on as it   *)
(* is, which the relay takes for an infrastructure failure.                 *)
CommitRefused(r) ==
    /\ Refused(r)
    /\ Answer(r, IF handling[r] = CycleClosed THEN "release" ELSE "terminalize")

(* P2034 on every one of the three tries: MATERIALIZATION_KEY_CONFLICT or   *)
(* BRANCH_HEAD_CAS_CONFLICT although nothing was decided.                   *)
SerializationFails(r) ==
    /\ pc[r] = "commit"
    /\ handling[r].type \in {"WorkOrderRevisionAdmitted", "RunManifestFrozen"}
    /\ Goto(r, "terminalize")
    /\ Disturb("serialization")
    /\ UNCHANGED <<storeVars, claims, handling, seen>>

TerminalFault(r) ==
    /\ pc[r] \in {"receipt", "authority", "commit", "stale", "repeat", "mark"}
    /\ Goto(r, "terminalize")
    /\ Disturb("fault")
    /\ UNCHANGED <<storeVars, claims, handling, seen>>

(* Any other infrastructure failure of an await of the consumer, or of the  *)
(* marker: not an AppError, hence retryable.                                *)
Fault(r) ==
    /\ pc[r] \in {"receipt", "authority", "commit", "stale", "repeat", "mark"}
    /\ Goto(r, "release")
    /\ Disturb("fault")
    /\ UNCHANGED <<storeVars, claims, handling, seen>>

-----------------------------------------------------------------------------
(* Settling the row.  Only the owner of the lease may, expired or not; the  *)
(* error of a relay that lost it is swallowed.                              *)

Holds(r, e) == outbox[e].status = "leased" /\ outbox[e].owner = r

Settle(r, row) ==
    /\ outbox' = IF Holds(r, handling[r]) THEN [outbox EXCEPT ![handling[r]] = row] ELSE outbox
    /\ handling' = [handling EXCEPT ![r] = None]
    /\ Goto(r, "deliver")
    /\ UNCHANGED <<spineVars, receipt, requestVars, claims, seen, disturbances>>

MarkOutboxDelivered(r) ==
    pc[r] = "mark" /\ Settle(r, [status |-> "delivered", owner |-> None, live |-> FALSE])

MarkOutboxTerminal(r) ==
    pc[r] = "terminalize" /\ Settle(r, [status |-> "terminal", owner |-> None, live |-> FALSE])

ReleaseOutbox(r) ==
    pc[r] = "release" /\ Settle(r, PendingRow)

(* A terminal mark that fails becomes a release; a release that fails       *)
(* leaves the row leased.  It is not counted: only a fault, a lost answer,  *)
(* a refused closure receipt or a revision that is not visible yet leads to *)
(* a release.                                                               *)
TerminalMarkFails(r) ==
    /\ pc[r] = "terminalize"
    /\ Disturb("fault")
    /\ Goto(r, "release")
    /\ UNCHANGED <<storeVars, claims, handling, seen>>

ReleaseFails(r) ==
    /\ pc[r] = "release"
    /\ "fault" \in Disturbances
    /\ handling' = [handling EXCEPT ![r] = None]
    /\ Goto(r, "deliver")
    /\ UNCHANGED <<storeVars, claims, seen, disturbances>>

-----------------------------------------------------------------------------
(* Leases, crashes and the rest of the world                                *)

InHand(e) == \E r \in Relays : Holds(r, e) /\ (e \in claims[r] \/ handling[r] = e)

ExpireLease(e) ==
    /\ outbox[e].status = "leased"
    /\ outbox[e].live
    /\ outbox' = [outbox EXCEPT ![e].live = FALSE]
    /\ UNCHANGED <<spineVars, receipt, requestVars, relayVars>>

AbandonedLeaseExpires(e) == ~ InHand(e) /\ ExpireLease(e) /\ UNCHANGED disturbances

LateLeaseExpires(e) == InHand(e) /\ ExpireLease(e) /\ Disturb("late_lease")

(* The process restarts with a new worker id and no memory; a drain whose   *)
(* second claim query throws forgets its first claims in the same way.      *)
Crash(r) ==
    /\ pc[r] # "claim"
    /\ Disturb("crash")
    /\ Goto(r, "claim")
    /\ claims' = [claims EXCEPT ![r] = {}]
    /\ handling' = [handling EXCEPT ![r] = None]
    /\ UNCHANGED <<storeVars, seen>>

ReadinessRevoked == RevokeReadiness /\ Disturb("revocation") /\ UNCHANGED relayVars

RequestStep == (AdmissionStep \/ ClosureStep) /\ UNCHANGED <<relayVars, disturbances>>

DrainStep(r) ==
    \/ ClaimPi(r) \/ ClaimEf(r) \/ Deliver(r) \/ DrainEnds(r)
    \/ ReadReceipt(r)
    \/ ReadMaterializationAuthority(r) \/ ReadHeadAuthority(r) \/ ReadAcknowledgementAuthority(r)
    \/ Commit(r) \/ CommitRefused(r)
    \/ MarkOutboxDelivered(r) \/ MarkOutboxTerminal(r) \/ ReleaseOutbox(r)

DisturbedStep(r) ==
    CommitAnswerLost(r) \/ SerializationFails(r) \/ Fault(r)
    \/ TerminalMarkFails(r) \/ ReleaseFails(r) \/ Crash(r)

LeaseStep == \E e \in Events : AbandonedLeaseExpires(e) \/ LateLeaseExpires(e)

Next ==
    \/ \E r \in Relays : DrainStep(r) \/ DisturbedStep(r)
    \/ RequestStep
    \/ LeaseStep
    \/ ReadinessRevoked

Fairness ==
    /\ \A r \in Relays : WF_vars(DrainStep(r))
    /\ \A e \in Events : WF_vars(AbandonedLeaseExpires(e))

Spec == Init /\ [][Next]_vars /\ Fairness

-----------------------------------------------------------------------------
(* Properties                                                               *)

Newer(b, s) == branch[b].current > s

(* The head of a branch is the newest revision whose RunManifestFrozen was  *)
(* processed, however often and by whom it was delivered: a redelivery or a *)
(* late relay never moves the head back or leaves it behind its receipt.    *)
HeadIsNewestProcessed ==
    \A b \in Branches :
        /\ branch[b].head # 0 => receipt[Frozen(b, branch[b].head)] = "processed"
        /\ \A s \in Revisions : receipt[Frozen(b, s)] = "processed" => s <= branch[b].head

(* Every effect is announced by an event of its own and nothing else is:    *)
(* the transactional outbox of each domain agrees with its state.           *)
EffectsAreAnnounced ==
    \A b \in Branches, s \in Revisions :
        /\ outbox[Admitted(b, s)].status # "absent" <=> s <= branch[b].current
        /\ outbox[Frozen(b, s)].status # "absent" <=> receipt[Admitted(b, s)] = "processed"
        /\ outbox[Advanced(b, s)].status # "absent" <=> receipt[Frozen(b, s)] = "processed"
        /\ receipt[Advanced(b, s)] # "none" => receipt[Frozen(b, s)] = "processed"

(* A row is marked delivered only if its consumer has durably received the  *)
(* event, even by a relay whose lease had expired before it marked.         *)
DeliveredIsReceived ==
    \A e \in Events : outbox[e].status = "delivered" => receipt[e] # "none"

(* "Unknown errors include infrastructure failures and remain retryable":   *)
(* an event dropped without a receipt was of no use any more: its revision  *)
(* is superseded, the cycle closed, its readiness revoked or the version    *)
(* counter of its branch exhausted.  (It holds unless a transaction gives   *)
(* up after its serialization retries, see SerializationFails.)             *)
Obsolete(e) ==
    \/ closed
    \/ e.type = "WorkOrderRevisionAdmitted" /\ revoked
    \/ e.type = "RunManifestFrozen"
       /\ (Newer(e.branch, e.seq) \/ branch[e.branch].version >= MaxCounter)

NoLiveEventIsDropped ==
    \A e \in Events : outbox[e].status = "terminal" /\ receipt[e] = "none" => Obsolete(e)

(* A closed cycle is complete: every admitted branch has its newest         *)
(* revision frozen, at its head and acknowledged, and stays so.             *)
ClosedCycleIsComplete ==
    closed => \A b \in AdmittedBranches : HeadMatchesCurrentScope(b)

(* After the closure no admission, materialization or head advance that was *)
(* in flight takes effect.                                                  *)
ClosedCycleIsSealed ==
    [][closed => UNCHANGED <<branch, admissions, runs, closed>>]_vars

(* One business key admits one revision, and each revision has one key,     *)
(* with any number of concurrent and repeated commands.                     *)
KeysAdmitOnce ==
    \A b \in Branches :
        /\ \A s \in 1..branch[b].current : \E k \in Keys : admissions[b][k] = s
        /\ \A j, k \in Keys : admissions[b][j] = admissions[b][k] /\ j # k => admissions[b][j] = 0

(* Behind outboxes, leases, redelivery and races, the spine implements the  *)
(* revision pipeline.                                                       *)
StageOf(b, s) ==
    IF s > branch[b].current THEN "unknown"
    ELSE IF receipt[Admitted(b, s)] = "none" THEN "admitted"
    ELSE IF receipt[Frozen(b, s)] = "none" THEN "frozen"
    ELSE IF receipt[Frozen(b, s)] = "ignored_stale" THEN "ignored"
    ELSE IF receipt[Advanced(b, s)] = "none" THEN "head"
    ELSE "acknowledged"

Pipeline == INSTANCE RevisionPipeline WITH
    stage <- [v \in Branches \X Revisions |-> StageOf(v[1], v[2])],
    sealed <- closed

ImplementsPipeline == Pipeline!Spec

(* Every announced event is delivered or given up: leases lost, relays that *)
(* crash and writes that fail delay it only.                                *)
EveryEventSettles ==
    \A e \in Events :
        outbox[e].status # "absent" ~> outbox[e].status \in {"delivered", "terminal"}

(* An admitted revision is acknowledged at the head of its branch unless a  *)
(* newer one supersedes it, its readiness is revoked or the version counter *)
(* of the branch is exhausted.                                              *)
AdmittedRevisionsConverge ==
    \A b \in Branches, s \in Revisions :
        branch[b].current = s ~>
            \/ receipt[Advanced(b, s)] = "processed"
            \/ Newer(b, s) \/ revoked \/ branch[b].version >= MaxCounter

-----------------------------------------------------------------------------
(* What the repository says of the spine and the code does not keep         *)

(* "exact redelivery without terminalization": an event whose effect is     *)
(* committed is never terminalized.                                         *)
RedeliveryConverges ==
    \A e \in Events : receipt[e] = "processed" => outbox[e].status # "terminal"
=============================================================================
