------------------------ MODULE IntegrationRelayProofs ------------------------
(***************************************************************************)
(* Theorems about the experiment spine and the relay that connects its     *)
(* domains, for any number of branches, revisions, keys, callers, relays   *)
(* and disturbances: effects and their announcements agree, the head of a  *)
(* branch is its newest processed revision, a closed cycle stays complete, *)
(* a relay gives up no event that is still of use, and the spine           *)
(* implements the revision pipeline.                                       *)
(***************************************************************************)
EXTENDS IntegrationRelay, TLAPS

-----------------------------------------------------------------------------
(* Events                                                                   *)

LEMMA EventTypes ==
  ASSUME NEW b \in Branches, NEW s \in Revisions
  PROVE  /\ Admitted(b, s) \in Events /\ Frozen(b, s) \in Events /\ Advanced(b, s) \in Events
         /\ CycleClosed \in Events
BY DEF Events, PiEvents, EfEvents, RevisionEvents, Admitted, Frozen, Advanced, CycleClosed

(* An event is the one its fields say.                                      *)
LEMMA EventCases ==
  ASSUME NEW e \in Events
  PROVE  \/ /\ e.type = "WorkOrderRevisionAdmitted"
            /\ e.branch \in Branches /\ e.seq \in Revisions /\ e = Admitted(e.branch, e.seq)
         \/ /\ e.type = "RunManifestFrozen"
            /\ e.branch \in Branches /\ e.seq \in Revisions /\ e = Frozen(e.branch, e.seq)
         \/ /\ e.type = "BranchHeadAdvanced"
            /\ e.branch \in Branches /\ e.seq \in Revisions /\ e = Advanced(e.branch, e.seq)
         \/ e.type = "ValidationCycleClosed" /\ e = CycleClosed
BY DEF Events, PiEvents, EfEvents, RevisionEvents, Admitted, Frozen, Advanced, CycleClosed

(* Different announcements are different events.                            *)
LEMMA EventsDiffer ==
  ASSUME NEW b, NEW s, NEW c, NEW t
  PROVE  /\ Admitted(b, s) = Admitted(c, t) <=> b = c /\ s = t
         /\ Frozen(b, s) = Frozen(c, t) <=> b = c /\ s = t
         /\ Advanced(b, s) = Advanced(c, t) <=> b = c /\ s = t
         /\ Admitted(b, s) # Frozen(c, t) /\ Admitted(b, s) # Advanced(c, t)
         /\ Frozen(b, s) # Advanced(c, t)
         /\ CycleClosed # Admitted(b, s) /\ CycleClosed # Frozen(b, s)
         /\ CycleClosed # Advanced(b, s)
<1>1. /\ Admitted(b, s).branch = b /\ Admitted(b, s).seq = s
      /\ Admitted(c, t).branch = c /\ Admitted(c, t).seq = t
      /\ Frozen(b, s).branch = b /\ Frozen(b, s).seq = s
      /\ Frozen(c, t).branch = c /\ Frozen(c, t).seq = t
      /\ Advanced(b, s).branch = b /\ Advanced(b, s).seq = s
      /\ Advanced(c, t).branch = c /\ Advanced(c, t).seq = t
  BY DEF Admitted, Frozen, Advanced
<1>2. /\ Admitted(b, s).type = "WorkOrderRevisionAdmitted"
      /\ Frozen(b, s).type = "RunManifestFrozen" /\ Frozen(c, t).type = "RunManifestFrozen"
      /\ Advanced(b, s).type = "BranchHeadAdvanced" /\ Advanced(c, t).type = "BranchHeadAdvanced"
      /\ CycleClosed.type = "ValidationCycleClosed"
  BY DEF Admitted, Frozen, Advanced, CycleClosed
<1>. QED  BY <1>1, <1>2

-----------------------------------------------------------------------------
(* Type correctness                                                         *)

(* A pending caller is about to write a version and a revision in range.    *)
ClientInRange(c) ==
    client[c].pending =>
        /\ client[c].branch \in Branches /\ client[c].key \in Keys
        /\ client[c].version < MaxCounter /\ client[c].current < MaxRevisions

Delivering == {"receipt", "authority", "commit", "stale", "repeat", "mark", "terminalize",
               "release"}

(* A relay in a delivery has an event, and a head version below the limit.  *)
RelayInRange(r) ==
    /\ pc[r] \in Delivering => handling[r] \in Events
    /\ pc[r] = "commit" /\ handling[r].type = "RunManifestFrozen" => seen[r] < MaxCounter
    /\ pc[r] \in {"stale", "repeat"} => handling[r].type = "RunManifestFrozen"

InRange ==
    /\ TypeOK
    /\ \A c \in Clients : ClientInRange(c)
    /\ \A r \in Relays : RelayInRange(r)

LEMMA IdleType ==
  ASSUME NEW answer \in Answers
  PROVE  /\ [IdleClient EXCEPT !.answer = answer] \in Client
         /\ [IdleClient EXCEPT !.answer = answer].pending = FALSE
         /\ IdleClient \in Client
<1>1. 0 \in 0..MaxCounter /\ 0 \in 0..MaxRevisions /\ "none" \in Answers
  BY SpineAssumption DEF Answers
<1>2. IdleClient \in Client /\ IdleClient.pending = FALSE
  BY <1>1 DEF IdleClient, Client
<1>3. [IdleClient EXCEPT !.answer = answer] \in Client
  BY <1>2 DEF Client
<1>4. [IdleClient EXCEPT !.answer = answer].pending = IdleClient.pending
  BY <1>2 DEF Client
<1>. QED  BY <1>2, <1>3, <1>4

LEMMA InitInRange == Init => InRange
<1>. SUFFICES ASSUME Init PROVE InRange
  OBVIOUS
<1>1. SpineTypeOK
  <2>1. 0 \in 0..MaxCounter /\ 0 \in 0..MaxRevisions
    BY SpineAssumption
  <2>2. [version |-> 0, current |-> 0, head |-> 0] \in Branch
    BY <2>1 DEF Branch
  <2>3. branch \in [Branches -> Branch] /\ admissions \in [Branches -> [Keys -> 0..MaxRevisions]]
    BY <2>1, <2>2 DEF Init, SpineInit
  <2>4. outbox \in [Events -> OutboxRow] /\ receipt \in [Events -> Receipts]
    BY DEF Init, SpineInit, NoRow, OutboxRow, Receipts
  <2>5. client \in [Clients -> Client]
    BY IdleType DEF Init, SpineInit, Answers
  <2>. QED  BY <2>3, <2>4, <2>5 DEF Init, SpineInit, SpineTypeOK
<1>2. TypeOK
  BY <1>1, SpineAssumption DEF Init, TypeOK, Labels
<1>3. /\ \A c \in Clients : ClientInRange(c)
      /\ \A r \in Relays : RelayInRange(r)
  BY DEF Init, SpineInit, IdleClient, ClientInRange, RelayInRange, Delivering
<1>. QED  BY <1>2, <1>3 DEF InRange

LEMMA EmitType ==
  ASSUME SpineTypeOK, NEW e \in Events, Emit(e)
  PROVE  outbox' \in [Events -> OutboxRow]
BY DEF SpineTypeOK, Emit, PendingRow, OutboxRow

LEMMA ReceiveType ==
  ASSUME SpineTypeOK, NEW e \in Events, NEW outcome \in Receipts, Receive(e, outcome)
  PROVE  receipt' \in [Events -> Receipts]
BY DEF SpineTypeOK, Receive

LEMMA AnswerType ==
  ASSUME SpineTypeOK, \A d \in Clients : ClientInRange(d), NEW c \in Clients,
         NEW answer \in Answers, AnswerClient(c, answer), UNCHANGED branch
  PROVE  client' \in [Clients -> Client] /\ \A d \in Clients : ClientInRange(d)'
<1>1. [IdleClient EXCEPT !.answer = answer] \in Client
      /\ [IdleClient EXCEPT !.answer = answer].pending = FALSE
  BY IdleType
<1>2. client' \in [Clients -> Client]
  BY <1>1 DEF SpineTypeOK, AnswerClient
<1>3. \A d \in Clients : client'[d] = client[d] \/ client'[d].pending = FALSE
  BY <1>1 DEF SpineTypeOK, AnswerClient
<1>. QED  BY <1>2, <1>3 DEF ClientInRange

LEMMA RequestInRange ==
  ASSUME InRange, RequestStep
  PROVE  InRange'
<1>0. /\ SpineTypeOK /\ UNCHANGED <<pc, claims, handling, seen, disturbances>>
      /\ \A r \in Relays : RelayInRange(r)'
  BY DEF InRange, TypeOK, RequestStep, relayVars, RelayInRange
<1>1. ASSUME NEW c \in Clients, NEW b \in Branches, NEW k \in Keys, ReadBranch(c, b, k)
      PROVE  SpineTypeOK' /\ \A d \in Clients : ClientInRange(d)'
  <2>0. UNCHANGED <<branch, admissions, runs, closed, revoked, outbox, receipt, watermark>>
    BY <1>1 DEF ReadBranch, spineVars, integrationVars
  <2>1. CASE \E answer \in {"replayed", "BRANCH_SCOPE_CONFLICT", "CONCURRENT_ADVANCE"} :
                AnswerClient(c, answer)
    BY <1>0, <2>0, <2>1, AnswerType DEF Answers, SpineTypeOK, InRange
  <2>2. CASE /\ branch[b].version < MaxCounter /\ branch[b].current < MaxRevisions
             /\ client' = [client EXCEPT ![c] =
                  [pending |-> TRUE, branch |-> b, key |-> k, version |-> branch[b].version,
                   current |-> branch[b].current, answer |-> "none"]]
    <3>1. branch[b] \in Branch
      BY <1>0 DEF SpineTypeOK
    <3>2. [pending |-> TRUE, branch |-> b, key |-> k, version |-> branch[b].version,
           current |-> branch[b].current, answer |-> "none"] \in Client
      BY <3>1 DEF Client, Branch, Answers
    <3>3. client' \in [Clients -> Client]
      BY <1>0, <2>2, <3>2 DEF SpineTypeOK
    <3>4. \A d \in Clients : ClientInRange(d)'
      BY <1>0, <2>2 DEF InRange, ClientInRange, SpineTypeOK
    <3>. QED  BY <1>0, <2>0, <3>3, <3>4 DEF SpineTypeOK
  <2>3. branch[b].version \in Int /\ MaxCounter \in Int
    BY <1>0, SpineAssumption DEF SpineTypeOK, Branch
  <2>. QED  BY <1>1, <2>1, <2>2, <2>3 DEF ReadBranch
<1>2. ASSUME NEW c \in Clients, ReplayAdmission(c) \/ RefuseAdmission(c)
      PROVE  SpineTypeOK' /\ \A d \in Clients : ClientInRange(d)'
  <2>1. /\ UNCHANGED <<branch, admissions, runs, closed, revoked, outbox, receipt, watermark>>
        /\ \E answer \in Answers : AnswerClient(c, answer)
    BY <1>2 DEF ReplayAdmission, RefuseAdmission, AdmissionConflict, Answers, spineVars,
       integrationVars
  <2>. QED  BY <1>0, <2>1, AnswerType DEF SpineTypeOK, InRange
<1>3. ASSUME NEW c \in Clients, CommitAdmission(c)
      PROVE  SpineTypeOK' /\ \A d \in Clients : ClientInRange(d)'
  <2>. DEFINE b == client[c].branch
              s == client[c].current + 1
  <2>1. /\ b \in Branches /\ client[c].key \in Keys
        /\ client[c].version \in Nat /\ client[c].version < MaxCounter
        /\ client[c].current \in Nat /\ client[c].current < MaxRevisions
    BY <1>0, <1>3 DEF CommitAdmission, InRange, ClientInRange, SpineTypeOK, Client
  <2>2. client[c].version + 1 \in 0..MaxCounter /\ s \in Revisions /\ s \in 0..MaxRevisions
    BY <2>1, SpineAssumption DEF Revisions
  <2>3. branch' \in [Branches -> Branch]
    <3>1. [branch[b] EXCEPT !.version = client[c].version + 1, !.current = s] \in Branch
      BY <1>0, <2>1, <2>2 DEF SpineTypeOK, Branch
    <3>2. branch' = [branch EXCEPT ![b] =
                        [branch[b] EXCEPT !.version = client[c].version + 1, !.current = s]]
      BY <1>0, <1>3, <2>1 DEF CommitAdmission, SpineTypeOK
    <3>. QED  BY <1>0, <2>1, <3>1, <3>2 DEF SpineTypeOK
  <2>4. admissions' \in [Branches -> [Keys -> 0..MaxRevisions]]
    BY <1>0, <1>3, <2>1, <2>2 DEF CommitAdmission, SpineTypeOK
  <2>5. outbox' \in [Events -> OutboxRow]
    BY <1>0, <1>3, <2>1, <2>2, EmitType, EventTypes DEF CommitAdmission
  <2>6. client' \in [Clients -> Client] /\ \A d \in Clients : ClientInRange(d)'
    <3>1. [IdleClient EXCEPT !.answer = "admitted"] \in Client
          /\ [IdleClient EXCEPT !.answer = "admitted"].pending = FALSE
      BY IdleType DEF Answers
    <3>2. \A d \in Clients : client'[d] = client[d] \/ client'[d].pending = FALSE
      BY <1>0, <1>3, <3>1 DEF CommitAdmission, AnswerClient, SpineTypeOK
    <3>3. client' \in [Clients -> Client]
      BY <1>0, <1>3, <3>1 DEF CommitAdmission, AnswerClient, SpineTypeOK
    <3>. QED  BY <3>2, <3>3 DEF InRange, ClientInRange
  <2>. QED  BY <1>0, <1>3, <2>3, <2>4, <2>5, <2>6 DEF CommitAdmission, SpineTypeOK
<1>4. CASE ClosureStep
  <2>1. Watermark \in Watermarks
    BY <1>0, SpineAssumption DEF Watermark, Watermarks, SpineTypeOK, Branch
  <2>2. SpineTypeOK'
    BY <1>0, <1>4, <2>1, EmitType, EventTypes, EventCases
       DEF ClosureStep, EvaluateReadiness, CloseCycle, RefuseClosure, SpineTypeOK, spineVars,
           integrationVars, Events, PiEvents
  <2>3. UNCHANGED client
    BY <1>4 DEF ClosureStep, EvaluateReadiness, CloseCycle, RefuseClosure
  <2>. QED  BY <1>0, <2>2, <2>3 DEF InRange, TypeOK, ClientInRange
<1>. QED  BY <1>0, <1>1, <1>2, <1>3, <1>4 DEF RequestStep, AdmissionStep, InRange, TypeOK

(* The steps of a relay.                                                    *)
LEMMA GotoInRange ==
  ASSUME TypeOK, NEW r \in Relays, NEW label \in Labels, Goto(r, label)
  PROVE  /\ pc' \in [Relays -> Labels] /\ pc'[r] = label
         /\ \A q \in Relays \ {r} : pc'[q] = pc[q]
BY DEF TypeOK, Goto

(* A step of relay r that moves it to a label fit for what it handles.      *)
LEMMA MoveInRange ==
  ASSUME InRange, NEW r \in Relays, NEW label \in Labels, Goto(r, label),
         SpineTypeOK', \A c \in Clients : ClientInRange(c)', disturbances' \in Nat,
         claims' \in [Relays -> SUBSET Events],
         UNCHANGED handling, seen' \in [Relays -> 0..MaxCounter],
         \A q \in Relays \ {r} : seen'[q] = seen[q],
         label \in Delivering => handling[r] \in Events,
         label = "commit" /\ handling[r].type = "RunManifestFrozen" => seen'[r] < MaxCounter,
         label \in {"stale", "repeat"} => handling[r].type = "RunManifestFrozen"
  PROVE  InRange'
<1>1. \A q \in Relays \ {r} : RelayInRange(q)'
  BY GotoInRange DEF InRange, RelayInRange
<1>2. RelayInRange(r)'
  BY GotoInRange DEF InRange, RelayInRange
<1>. QED  BY <1>1, <1>2, GotoInRange DEF InRange, TypeOK

LEMMA UnmovedStore ==
  ASSUME InRange, UNCHANGED storeVars
  PROVE  SpineTypeOK' /\ \A c \in Clients : ClientInRange(c)'
BY DEF InRange, TypeOK, SpineTypeOK, storeVars, spineVars, integrationVars, requestVars,
       ClientInRange

LEMMA DisturbType ==
  ASSUME TypeOK, NEW kind, Disturb(kind)
  PROVE  disturbances' \in Nat
BY DEF TypeOK, Disturb

LEMMA ClaimInRange ==
  ASSUME InRange, NEW r \in Relays, ClaimPi(r) \/ ClaimEf(r)
  PROVE  InRange'
<1>0. TypeOK /\ SpineTypeOK
  BY DEF InRange, TypeOK
<1>1. PICK domain \in {PiEvents, EfEvents}, label \in {"claim_ef", "deliver"} :
        /\ ClaimOutbox(r, domain) /\ Goto(r, label)
        /\ UNCHANGED <<spineVars, receipt, requestVars, handling, seen, disturbances>>
  BY DEF ClaimPi, ClaimEf
<1>2. domain \subseteq Events
  BY <1>1 DEF Events
<1>3. PICK batch \in Batches(domain) :
        /\ outbox' = [e \in Events |->
                        IF e \in batch
                        THEN [status |-> "leased", owner |-> r, live |-> TRUE] ELSE outbox[e]]
        /\ claims' = [claims EXCEPT ![r] = claims[r] \cup batch]
  BY <1>1 DEF ClaimOutbox
<1>4. batch \subseteq Events
  BY <1>2 DEF Batches
<1>5. outbox' \in [Events -> OutboxRow]
  BY <1>0, <1>3 DEF SpineTypeOK, OutboxRow
<1>6. claims' \in [Relays -> SUBSET Events]
  BY <1>0, <1>3, <1>4 DEF TypeOK
<1>7. SpineTypeOK' /\ \A c \in Clients : ClientInRange(c)'
  BY <1>0, <1>1, <1>5 DEF SpineTypeOK, spineVars, requestVars, InRange, ClientInRange
<1>8. label \in Labels /\ label \notin Delivering /\ label \notin {"commit", "stale", "repeat"}
  BY DEF Labels, Delivering
<1>. QED  BY <1>0, <1>1, <1>6, <1>7, <1>8, MoveInRange DEF TypeOK

LEMMA DeliverInRange ==
  ASSUME InRange, NEW r \in Relays, Deliver(r)
  PROVE  InRange'
<1>0. TypeOK
  BY DEF InRange
<1>1. PICK e \in claims[r] :
        /\ handling' = [handling EXCEPT ![r] = e]
        /\ claims' = [claims EXCEPT ![r] = @ \ {e}]
        /\ Goto(r, "receipt")
  BY DEF Deliver
<1>2. e \in Events
  BY <1>0 DEF TypeOK
<1>3. SpineTypeOK' /\ (\A c \in Clients : ClientInRange(c)') /\ UNCHANGED <<seen, disturbances>>
  BY UnmovedStore DEF Deliver
<1>4. "receipt" \in Labels
  BY DEF Labels
<1>5. /\ pc' \in [Relays -> Labels] /\ pc'[r] = "receipt"
      /\ \A q \in Relays \ {r} : pc'[q] = pc[q]
  BY <1>0, <1>1, <1>4, GotoInRange
<1>6. /\ handling' \in [Relays -> Events \cup {None}] /\ handling'[r] = e
      /\ \A q \in Relays \ {r} : handling'[q] = handling[q]
  BY <1>0, <1>1, <1>2 DEF TypeOK
<1>7. claims' \in [Relays -> SUBSET Events]
  BY <1>0, <1>1 DEF TypeOK
<1>8. \A q \in Relays \ {r} : RelayInRange(q)'
  BY <1>3, <1>5, <1>6 DEF InRange, RelayInRange
<1>9. RelayInRange(r)'
  BY <1>2, <1>5, <1>6 DEF RelayInRange
<1>. QED  BY <1>0, <1>3, <1>5, <1>6, <1>7, <1>8, <1>9 DEF InRange, TypeOK

(* A consumer step that only decides where to go on.                        *)
LEMMA AnswerInRange ==
  ASSUME InRange, NEW r \in Relays, NEW label \in Labels, Answer(r, label),
         label \in Delivering => handling[r] \in Events,
         label = "commit" => handling[r].type # "RunManifestFrozen",
         label \notin {"stale", "repeat"}
  PROVE  InRange'
<1>1. /\ SpineTypeOK' /\ (\A c \in Clients : ClientInRange(c)')
      /\ Goto(r, label) /\ UNCHANGED <<claims, handling, seen, disturbances>>
  BY UnmovedStore DEF Answer
<1>2. claims' \in [Relays -> SUBSET Events] /\ seen' \in [Relays -> 0..MaxCounter]
      /\ disturbances' \in Nat
  BY <1>1 DEF InRange, TypeOK
<1>. QED  BY <1>1, <1>2, MoveInRange

LEMMA ReadInRange ==
  ASSUME InRange, NEW r \in Relays,
         \/ DrainEnds(r) \/ ReadReceipt(r)
         \/ ReadMaterializationAuthority(r) \/ ReadAcknowledgementAuthority(r)
         \/ CommitRefused(r)
  PROVE  InRange'
<1>0. pc[r] \in Delivering => handling[r] \in Events
  BY DEF InRange, RelayInRange
<1>1. CASE DrainEnds(r)
  BY <1>1, AnswerInRange DEF DrainEnds, Labels, Delivering
<1>2. CASE ReadReceipt(r)
  BY <1>0, <1>2, AnswerInRange DEF ReadReceipt, CycleClosed, Labels, Delivering
<1>3. CASE ReadMaterializationAuthority(r)
  BY <1>0, <1>3, AnswerInRange DEF ReadMaterializationAuthority, Labels, Delivering
<1>4. CASE ReadAcknowledgementAuthority(r)
  BY <1>0, <1>4, AnswerInRange DEF ReadAcknowledgementAuthority, Labels, Delivering
<1>5. CASE CommitRefused(r)
  <2>1. pc[r] \in Delivering
    BY <1>5 DEF CommitRefused, Refused, Delivering
  <2>. QED  BY <1>0, <1>5, <2>1, AnswerInRange DEF CommitRefused, Labels
<1>. QED  BY <1>1, <1>2, <1>3, <1>4, <1>5

LEMMA ReadHeadInRange ==
  ASSUME InRange, NEW r \in Relays, ReadHeadAuthority(r)
  PROVE  InRange'
<1>. DEFINE e == handling[r]
            label == HeadDecision(e.branch, e.seq)
<1>1. e \in Events /\ e.type = "RunManifestFrozen"
  BY DEF ReadHeadAuthority, InRange, RelayInRange, Delivering
<1>2. e.branch \in Branches
  BY <1>1, EventCases
<1>3. branch[e.branch].version \in 0..MaxCounter
  BY <1>2 DEF InRange, TypeOK, SpineTypeOK, Branch
<1>4. label \in Labels
  BY DEF HeadDecision, Labels
<1>5. label = "commit" => branch[e.branch].version < MaxCounter
  BY <1>3, SpineAssumption DEF HeadDecision
<1>6. /\ SpineTypeOK' /\ (\A c \in Clients : ClientInRange(c)')
      /\ Goto(r, label) /\ UNCHANGED <<claims, handling, disturbances>>
      /\ seen' = [seen EXCEPT ![r] = branch[e.branch].version]
  BY UnmovedStore DEF ReadHeadAuthority
<1>. HIDE DEF label, e
<1>7. /\ claims' \in [Relays -> SUBSET Events] /\ disturbances' \in Nat
      /\ seen' \in [Relays -> 0..MaxCounter] /\ seen'[r] = branch[e.branch].version
      /\ \A q \in Relays \ {r} : seen'[q] = seen[q]
  BY <1>3, <1>6 DEF InRange, TypeOK
<1>. QED  BY <1>1, <1>4, <1>5, <1>6, <1>7, MoveInRange DEF e

(* The transactions a relay runs.                                           *)
LEMMA TransactionCases ==
  ASSUME InRange, NEW r \in Relays, Transaction(r)
  PROVE  \/ \E b \in Branches, s \in Revisions :
               handling[r] = Admitted(b, s) /\ pc[r] = "commit" /\ Materialize(b, s)
         \/ \E b \in Branches, s \in Revisions :
               /\ handling[r] = Frozen(b, s) /\ pc[r] = "commit"
               /\ seen[r] \in Nat /\ seen[r] < MaxCounter /\ AdvanceHead(b, s, seen[r])
         \/ \E b \in Branches, s \in Revisions :
               handling[r] = Advanced(b, s) /\ pc[r] = "commit" /\ Record(Advanced(b, s), "processed")
         \/ handling[r] = CycleClosed /\ pc[r] = "commit" /\ Record(CycleClosed, "processed")
         \/ \E b \in Branches, s \in Revisions :
               handling[r] = Frozen(b, s) /\ pc[r] = "stale" /\ Record(Frozen(b, s), "ignored_stale")
         \/ \E b \in Branches, s \in Revisions :
               handling[r] = Frozen(b, s) /\ pc[r] = "repeat" /\ Record(Frozen(b, s), "processed")
<1>. DEFINE e == handling[r]
<1>1. e \in Events
  BY DEF Transaction, InRange, RelayInRange, Delivering
<1>2. pc[r] \in {"stale", "repeat"} => e.type = "RunManifestFrozen"
  BY DEF InRange, RelayInRange
<1>3. pc[r] = "commit" /\ e.type = "RunManifestFrozen" => seen[r] \in Nat /\ seen[r] < MaxCounter
  BY SpineAssumption DEF InRange, RelayInRange, TypeOK
<1>. HIDE DEF e
<1>4. \/ pc[r] = "commit" /\ e.type = "WorkOrderRevisionAdmitted" /\ Materialize(e.branch, e.seq)
      \/ pc[r] = "commit" /\ e.type = "RunManifestFrozen" /\ AdvanceHead(e.branch, e.seq, seen[r])
      \/ pc[r] = "commit" /\ e.type \in {"BranchHeadAdvanced", "ValidationCycleClosed"}
                          /\ Record(e, "processed")
      \/ pc[r] = "stale"  /\ Record(e, "ignored_stale")
      \/ pc[r] = "repeat" /\ Record(e, "processed")
  BY DEF Transaction, e
<1>. QED  BY <1>1, <1>2, <1>3, <1>4, EventCases DEF e

LEMMA TransactionType ==
  ASSUME InRange, NEW r \in Relays, Transaction(r)
  PROVE  SpineTypeOK' /\ \A c \in Clients : ClientInRange(c)'
<1>0. SpineTypeOK
  BY DEF InRange, TypeOK
<1>1. ASSUME NEW b \in Branches, NEW s \in Revisions, Materialize(b, s)
      PROVE  SpineTypeOK' /\ UNCHANGED client
  <2>1. outbox' \in [Events -> OutboxRow] /\ receipt' \in [Events -> Receipts]
    BY <1>0, <1>1, EventTypes, EmitType, ReceiveType DEF Materialize, Receipts
  <2>2. runs' \in SUBSET (Branches \X Revisions)
    BY <1>0, <1>1 DEF Materialize, SpineTypeOK
  <2>. QED  BY <1>0, <1>1, <2>1, <2>2 DEF Materialize, SpineTypeOK, requestVars
<1>2. ASSUME NEW b \in Branches, NEW s \in Revisions, NEW version \in Nat,
             version < MaxCounter, AdvanceHead(b, s, version)
      PROVE  SpineTypeOK' /\ UNCHANGED client
  <2>1. outbox' \in [Events -> OutboxRow] /\ receipt' \in [Events -> Receipts]
    BY <1>0, <1>2, EventTypes, EmitType, ReceiveType DEF AdvanceHead, Receipts
  <2>2. branch' \in [Branches -> Branch]
    <3>1. version + 1 \in 0..MaxCounter /\ s \in 0..MaxRevisions
      BY <1>2, SpineAssumption DEF Revisions
    <3>2. [branch[b] EXCEPT !.version = version + 1, !.head = s] \in Branch
      BY <1>0, <3>1 DEF SpineTypeOK, Branch
    <3>3. branch' = [branch EXCEPT ![b] = [branch[b] EXCEPT !.version = version + 1, !.head = s]]
      BY <1>0, <1>2 DEF AdvanceHead, SpineTypeOK
    <3>. QED  BY <1>0, <3>2, <3>3 DEF SpineTypeOK
  <2>. QED  BY <1>0, <1>2, <2>1, <2>2 DEF AdvanceHead, SpineTypeOK, requestVars
<1>3. ASSUME NEW e \in Events, NEW outcome \in Receipts, Record(e, outcome)
      PROVE  SpineTypeOK' /\ UNCHANGED client
  BY <1>0, <1>3, ReceiveType DEF Record, SpineTypeOK, spineVars, requestVars
<1>4. SpineTypeOK' /\ UNCHANGED client
  <2>1. "processed" \in Receipts /\ "ignored_stale" \in Receipts
    BY DEF Receipts
  <2>2. CASE \E b \in Branches, s \in Revisions : Materialize(b, s)
    BY <1>1, <2>2
  <2>3. CASE \E b \in Branches, s \in Revisions :
                seen[r] \in Nat /\ seen[r] < MaxCounter /\ AdvanceHead(b, s, seen[r])
    BY <1>2, <2>3
  <2>4. CASE \E e \in Events, outcome \in Receipts : Record(e, outcome)
    BY <1>3, <2>4
  <2>5. \/ \E b \in Branches, s \in Revisions : Materialize(b, s)
        \/ \E b \in Branches, s \in Revisions :
              seen[r] \in Nat /\ seen[r] < MaxCounter /\ AdvanceHead(b, s, seen[r])
        \/ \E b \in Branches, s \in Revisions :
              Record(Advanced(b, s), "processed")
        \/ Record(CycleClosed, "processed")
        \/ \E b \in Branches, s \in Revisions :
              Record(Frozen(b, s), "ignored_stale") \/ Record(Frozen(b, s), "processed")
    BY TransactionCases
  <2>. QED  BY <2>1, <2>2, <2>3, <2>4, <2>5, EventTypes, CycleClosed \in Events DEF Events, PiEvents
<1>. QED  BY <1>4 DEF InRange, ClientInRange

(* A step of relay r to the mark, the give-up or the release of its event.  *)
LEMMA SettlingInRange ==
  ASSUME InRange, NEW r \in Relays, NEW label \in {"mark", "terminalize", "release"},
         pc[r] \in Delivering, Goto(r, label), SpineTypeOK', \A c \in Clients : ClientInRange(c)',
         disturbances' \in Nat, UNCHANGED <<claims, handling, seen>>
  PROVE  InRange'
<1>1. label \in Labels /\ label \notin {"commit", "stale", "repeat"} /\ handling[r] \in Events
  BY DEF Labels, InRange, RelayInRange
<1>2. claims' \in [Relays -> SUBSET Events] /\ seen' \in [Relays -> 0..MaxCounter]
      /\ UNCHANGED handling /\ \A q \in Relays \ {r} : seen'[q] = seen[q]
  BY DEF InRange, TypeOK
<1>. QED  BY <1>1, <1>2, MoveInRange

LEMMA CommitInRange ==
  ASSUME InRange, NEW r \in Relays, Commit(r) \/ CommitAnswerLost(r)
  PROVE  InRange'
<1>1. Transaction(r) /\ TypeOK
  BY DEF Commit, CommitAnswerLost, InRange
<1>2. pc[r] \in Delivering
  BY <1>1 DEF Transaction, Delivering
<1>3. SpineTypeOK' /\ \A c \in Clients : ClientInRange(c)'
  BY <1>1, TransactionType
<1>4. UNCHANGED <<claims, handling, seen>> /\ disturbances' \in Nat
  BY <1>1, DisturbType DEF Commit, CommitAnswerLost, TypeOK
<1>5. Goto(r, "mark") \/ Goto(r, "release")
  BY DEF Commit, CommitAnswerLost
<1>. QED  BY <1>2, <1>3, <1>4, <1>5, SettlingInRange

LEMMA FailureInRange ==
  ASSUME InRange, NEW r \in Relays, SerializationFails(r) \/ Fault(r) \/ TerminalMarkFails(r)
  PROVE  InRange'
<1>1. pc[r] \in Delivering /\ TypeOK /\ UNCHANGED storeVars
  BY DEF SerializationFails, Fault, TerminalMarkFails, Delivering, InRange
<1>2. UNCHANGED <<claims, handling, seen>> /\ disturbances' \in Nat
  BY <1>1, DisturbType DEF SerializationFails, Fault, TerminalMarkFails
<1>3. Goto(r, "terminalize") \/ Goto(r, "release")
  BY DEF SerializationFails, Fault, TerminalMarkFails
<1>. QED  BY <1>1, <1>2, <1>3, UnmovedStore, SettlingInRange

(* A relay that is done with its event, or forgets it.                      *)
LEMMA LetGoInRange ==
  ASSUME InRange, NEW r \in Relays, NEW label \in {"deliver", "claim"}, Goto(r, label),
         SpineTypeOK', \A c \in Clients : ClientInRange(c)', disturbances' \in Nat,
         claims' \in [Relays -> SUBSET Events],
         handling' = [handling EXCEPT ![r] = None], UNCHANGED seen
  PROVE  InRange'
<1>1. TypeOK /\ label \in Labels /\ label \notin Delivering
      /\ label \notin {"commit", "stale", "repeat"}
  BY DEF InRange, Labels, Delivering
<1>2. handling' \in [Relays -> Events \cup {None}]
      /\ \A q \in Relays \ {r} : handling'[q] = handling[q]
  BY <1>1 DEF TypeOK
<1>3. \A q \in Relays : RelayInRange(q)'
  BY <1>1, <1>2, GotoInRange DEF InRange, RelayInRange
<1>. QED  BY <1>1, <1>2, <1>3, GotoInRange DEF InRange, TypeOK

LEMMA SettleInRange ==
  ASSUME InRange, NEW r \in Relays,
         \/ MarkOutboxDelivered(r) \/ MarkOutboxTerminal(r) \/ ReleaseOutbox(r)
  PROVE  InRange'
<1>0. SpineTypeOK /\ TypeOK
  BY DEF InRange, TypeOK
<1>1. PICK row \in OutboxRow : pc[r] \in Delivering /\ Settle(r, row)
  BY DEF MarkOutboxDelivered, MarkOutboxTerminal, ReleaseOutbox, PendingRow, OutboxRow, Delivering
<1>2. outbox' \in [Events -> OutboxRow]
  BY <1>0, <1>1 DEF Settle, SpineTypeOK
<1>3. SpineTypeOK' /\ \A c \in Clients : ClientInRange(c)'
  BY <1>0, <1>1, <1>2 DEF Settle, SpineTypeOK, spineVars, requestVars, InRange, ClientInRange
<1>4. /\ Goto(r, "deliver") /\ handling' = [handling EXCEPT ![r] = None]
      /\ UNCHANGED <<claims, seen, disturbances>>
  BY <1>1 DEF Settle
<1>. QED  BY <1>0, <1>3, <1>4, LetGoInRange DEF TypeOK

LEMMA ForgetInRange ==
  ASSUME InRange, NEW r \in Relays, ReleaseFails(r) \/ Crash(r)
  PROVE  InRange'
<1>0. TypeOK
  BY DEF InRange
<1>1. UNCHANGED storeVars /\ UNCHANGED seen /\ handling' = [handling EXCEPT ![r] = None]
  BY DEF ReleaseFails, Crash
<1>2. disturbances' \in Nat /\ claims' \in [Relays -> SUBSET Events]
  BY <1>0, DisturbType DEF ReleaseFails, Crash, TypeOK
<1>3. Goto(r, "deliver") \/ Goto(r, "claim")
  BY DEF ReleaseFails, Crash
<1>. QED  BY <1>1, <1>2, <1>3, UnmovedStore, LetGoInRange

LEMMA LeaseInRange ==
  ASSUME InRange, LeaseStep
  PROVE  InRange'
<1>0. SpineTypeOK /\ TypeOK
  BY DEF InRange, TypeOK
<1>1. PICK e \in Events : ExpireLease(e) /\ disturbances' \in Nat
  BY <1>0, DisturbType DEF LeaseStep, AbandonedLeaseExpires, LateLeaseExpires, TypeOK
<1>2. outbox' \in [Events -> OutboxRow]
  BY <1>0, <1>1 DEF ExpireLease, SpineTypeOK, OutboxRow
<1>. QED  BY <1>0, <1>1, <1>2 DEF ExpireLease, SpineTypeOK, spineVars, requestVars, relayVars,
             InRange, ClientInRange, RelayInRange, TypeOK

LEMMA RevocationInRange ==
  ASSUME InRange, ReadinessRevoked
  PROVE  InRange'
<1>1. disturbances' \in Nat
  BY DisturbType DEF ReadinessRevoked, InRange
<1>. QED  BY <1>1 DEF ReadinessRevoked, RevokeReadiness, SpineTypeOK, integrationVars, requestVars,
             relayVars, InRange, ClientInRange, RelayInRange, TypeOK

LEMMA StepInRange == InRange /\ [Next]_vars => InRange'
<1>. SUFFICES ASSUME InRange, [Next]_vars PROVE InRange'
  OBVIOUS
<1>1. ASSUME NEW r \in Relays, DrainStep(r) \/ DisturbedStep(r)
      PROVE  InRange'
  BY <1>1, ClaimInRange, DeliverInRange, ReadInRange, ReadHeadInRange, CommitInRange,
     FailureInRange, SettleInRange, ForgetInRange DEF DrainStep, DisturbedStep
<1>2. CASE UNCHANGED vars
  <2>1. UNCHANGED storeVars /\ UNCHANGED <<pc, claims, handling, seen, disturbances>>
    BY <1>2 DEF vars, relayVars
  <2>. QED  BY <2>1, UnmovedStore DEF InRange, TypeOK, RelayInRange
<1>. QED  BY <1>1, <1>2, RequestInRange, LeaseInRange, RevocationInRange DEF Next

(* The store and the relays keep their types, however the requests, the     *)
(* relays and the disturbances interleave.                                  *)
THEOREM TypeCorrect == Spec => []TypeOK
<1>1. InRange => TypeOK
  BY DEF InRange
<1>. QED  BY <1>1, InitInRange, StepInRange, PTL DEF Spec

-----------------------------------------------------------------------------
(* The invariant                                                            *)

(* What holds of a revision: its effects, the events that announce them and *)
(* the receipts agree, and its processed run is not above the head.         *)
RevisionStands(b, s) ==
    /\ outbox[Admitted(b, s)].status # "absent" <=> s <= branch[b].current
    /\ outbox[Frozen(b, s)].status # "absent" <=> receipt[Admitted(b, s)] = "processed"
    /\ outbox[Advanced(b, s)].status # "absent" <=> receipt[Frozen(b, s)] = "processed"
    /\ receipt[Admitted(b, s)] # "none" => s <= branch[b].current
    /\ receipt[Frozen(b, s)] # "none" => receipt[Admitted(b, s)] = "processed"
    /\ receipt[Advanced(b, s)] # "none" => receipt[Frozen(b, s)] = "processed"
    /\ <<b, s>> \in runs <=> receipt[Admitted(b, s)] = "processed"
    /\ receipt[Admitted(b, s)] \in {"none", "processed"}
    /\ receipt[Advanced(b, s)] \in {"none", "processed"}
    /\ receipt[Frozen(b, s)] = "processed" => s <= branch[b].head

HeadStands(b) == branch[b].head # 0 => receipt[Frozen(b, branch[b].head)] = "processed"

(* The sequence a caller computed is the next one, unless the version it    *)
(* compares has moved on.                                                   *)
ClientIsFresh(c) ==
    client[c].pending =>
        /\ client[c].version <= branch[client[c].branch].version
        /\ client[c].version = branch[client[c].branch].version
              => client[c].current = branch[client[c].branch].current

KeysStand(b) ==
    /\ \A k \in Keys : admissions[b][k] <= branch[b].current
    /\ \A s \in 1..branch[b].current : \E k \in Keys : admissions[b][k] = s
    /\ \A j, k \in Keys : admissions[b][j] = admissions[b][k] /\ j # k => admissions[b][j] = 0

(* Readiness is evaluated of a cycle that admitted something.               *)
EvaluationStands == watermark # None => \E b \in Branches : watermark[b].current # 0

(* What a relay has read of an event stays true while it acts on it.        *)
RelayKnows(r) ==
    /\ \A e \in claims[r] : outbox[e].status # "absent"
    /\ pc[r] \in Delivering => outbox[handling[r]].status # "absent"
    /\ pc[r] = "stale" => handling[r].seq < branch[handling[r].branch].current
    /\ pc[r] = "repeat" => receipt[handling[r]] = "processed"
    /\ pc[r] = "mark" => receipt[handling[r]] # "none"

SpineInv ==
    /\ \A b \in Branches, s \in Revisions : RevisionStands(b, s)
    /\ \A b \in Branches : HeadStands(b)
    /\ \A b \in Branches : KeysStand(b)

IInv ==
    /\ InRange
    /\ SpineInv
    /\ \A c \in Clients : ClientIsFresh(c)
    /\ ClosedCycleIsComplete
    /\ EvaluationStands
    /\ DeliveredIsReceived
    /\ \A r \in Relays : RelayKnows(r)

LEMMA InitIInv == Init => IInv
<1>. SUFFICES ASSUME Init PROVE IInv
  OBVIOUS
<1>1. InRange
  BY InitInRange
<1>2. ASSUME NEW b \in Branches, NEW s \in Revisions
      PROVE  RevisionStands(b, s)
  <2>1. branch[b].current = 0 /\ branch[b].head = 0 /\ ~ (s <= 0)
    BY SpineAssumption DEF Init, SpineInit, Revisions
  <2>2. \A e \in Events : outbox[e].status = "absent" /\ receipt[e] = "none"
    BY DEF Init, SpineInit, NoRow
  <2>3. runs = {}
    BY DEF Init, SpineInit
  <2>. QED  BY <2>1, <2>2, <2>3, EventTypes DEF RevisionStands
<1>3. ASSUME NEW b \in Branches PROVE HeadStands(b) /\ KeysStand(b)
  BY DEF Init, SpineInit, HeadStands, KeysStand
<1>4. /\ \A c \in Clients : ClientIsFresh(c)
      /\ EvaluationStands
  BY DEF Init, SpineInit, IdleClient, ClientIsFresh, EvaluationStands
<1>5. ClosedCycleIsComplete /\ DeliveredIsReceived
  BY DEF Init, SpineInit, NoRow, ClosedCycleIsComplete, DeliveredIsReceived
<1>6. \A r \in Relays : RelayKnows(r)
  BY DEF Init, RelayKnows, Delivering
<1>. QED  BY <1>1, <1>2, <1>3, <1>4, <1>5, <1>6 DEF IInv, SpineInv

-----------------------------------------------------------------------------
(* What the steps do to the spine                                           *)

SameAnnounced ==
    \A e \in Events : outbox'[e].status = "absent" <=> outbox[e].status = "absent"

SpineUnmoved == UNCHANGED <<branch, admissions, runs, closed, receipt>> /\ SameAnnounced

Known(e) == outbox[e].status # "absent"

(* Every step does nothing to the spine or is one of seven transactions.    *)
SpineStep ==
    \/ SpineUnmoved
    \/ \E c \in Clients : CommitAdmission(c)
    \/ \E b \in Branches, s \in Revisions :
          \/ Known(Admitted(b, s)) /\ Materialize(b, s)
          \/ Known(Frozen(b, s)) /\ \E version \in Nat : AdvanceHead(b, s, version)
          \/ /\ Known(Frozen(b, s)) /\ s < branch[b].current
             /\ Record(Frozen(b, s), "ignored_stale")
          \/ Known(Advanced(b, s)) /\ Record(Advanced(b, s), "processed")
    \/ Known(CycleClosed) /\ Record(CycleClosed, "processed")
    \/ CloseCycle

LEMMA RequestIsSpineStep ==
  ASSUME InRange, RequestStep
  PROVE  SpineStep
<1>1. ASSUME NEW c \in Clients, NEW b \in Branches, NEW k \in Keys, ReadBranch(c, b, k)
      PROVE  SpineUnmoved
  BY <1>1 DEF ReadBranch, SpineUnmoved, SameAnnounced, spineVars, integrationVars
<1>2. ASSUME NEW c \in Clients, ReplayAdmission(c) \/ RefuseAdmission(c)
      PROVE  SpineUnmoved
  BY <1>2 DEF ReplayAdmission, RefuseAdmission, SpineUnmoved, SameAnnounced, spineVars,
     integrationVars
<1>3. CASE EvaluateReadiness \/ RefuseClosure
  BY <1>3 DEF EvaluateReadiness, RefuseClosure, SpineUnmoved, SameAnnounced, SpineStep, spineVars,
     integrationVars
<1>. QED  BY <1>1, <1>2, <1>3 DEF RequestStep, AdmissionStep, ClosureStep, SpineStep

LEMMA TransactionIsSpineStep ==
  ASSUME IInv, NEW r \in Relays, Transaction(r)
  PROVE  SpineStep
<1>0. InRange /\ RelayKnows(r) /\ SpineTypeOK
  BY DEF IInv, InRange, TypeOK
<1>1. pc[r] \in Delivering /\ outbox[handling[r]].status # "absent"
  BY <1>0 DEF Transaction, RelayKnows, Delivering
<1>2. ASSUME NEW b \in Branches, NEW s \in Revisions, handling[r] = Frozen(b, s), pc[r] = "repeat",
             Record(Frozen(b, s), "processed")
      PROVE  SpineUnmoved
  <2>1. receipt[Frozen(b, s)] = "processed"
    BY <1>0, <1>2 DEF RelayKnows
  <2>2. receipt' = receipt
    BY <1>0, <1>2, <2>1, EventTypes DEF Record, Receive, SpineTypeOK
  <2>. QED  BY <1>2, <2>2 DEF Record, SpineUnmoved, SameAnnounced, spineVars
<1>3. ASSUME NEW b \in Branches, NEW s \in Revisions, handling[r] = Frozen(b, s), pc[r] = "stale"
      PROVE  s < branch[b].current
  <2>1. Frozen(b, s).branch = b /\ Frozen(b, s).seq = s
    BY DEF Frozen
  <2>. QED  BY <1>0, <1>3, <2>1 DEF RelayKnows
<1>. QED  BY <1>0, <1>1, <1>2, <1>3, TransactionCases DEF SpineStep, Known

LEMMA StepIsSpineStep ==
  ASSUME IInv, [Next]_vars
  PROVE  SpineStep
<1>0. InRange /\ SpineTypeOK /\ TypeOK
  BY DEF IInv, InRange, TypeOK
<1>1. ASSUME UNCHANGED storeVars PROVE SpineStep
  BY <1>1 DEF SpineStep, SpineUnmoved, SameAnnounced, storeVars, spineVars, integrationVars
<1>2. ASSUME NEW r \in Relays, ClaimPi(r) \/ ClaimEf(r) PROVE SpineStep
  <2>1. PICK domain \in {PiEvents, EfEvents} :
          ClaimOutbox(r, domain) /\ UNCHANGED <<spineVars, receipt>>
    BY <1>2 DEF ClaimPi, ClaimEf
  <2>2. PICK batch \in Batches(domain) :
          outbox' = [e \in Events |->
                        IF e \in batch
                        THEN [status |-> "leased", owner |-> r, live |-> TRUE] ELSE outbox[e]]
    BY <2>1 DEF ClaimOutbox
  <2>3. \A e \in batch : outbox[e].status # "absent"
    BY DEF Batches, RelayReady
  <2>. QED  BY <2>1, <2>2, <2>3 DEF SpineStep, SpineUnmoved, SameAnnounced, spineVars
<1>3. ASSUME NEW r \in Relays,
             MarkOutboxDelivered(r) \/ MarkOutboxTerminal(r) \/ ReleaseOutbox(r)
      PROVE  SpineStep
  <2>1. PICK row \in OutboxRow : row.status # "absent" /\ Settle(r, row)
    BY <1>3 DEF MarkOutboxDelivered, MarkOutboxTerminal, ReleaseOutbox, PendingRow, OutboxRow
  <2>2. SameAnnounced
    BY <1>0, <2>1 DEF Settle, Holds, SameAnnounced, SpineTypeOK
  <2>. QED  BY <2>1, <2>2 DEF SpineStep, SpineUnmoved, Settle, spineVars
<1>4. ASSUME NEW e \in Events, ExpireLease(e) PROVE SpineStep
  <2>1. SameAnnounced
    BY <1>0, <1>4 DEF ExpireLease, SameAnnounced, SpineTypeOK, OutboxRow
  <2>. QED  BY <1>4, <2>1 DEF SpineStep, SpineUnmoved, ExpireLease, spineVars
<1>5. CASE ReadinessRevoked
  BY <1>5 DEF ReadinessRevoked, RevokeReadiness, SpineStep, SpineUnmoved, SameAnnounced,
     integrationVars
<1>6. ASSUME NEW r \in Relays, DrainStep(r) \/ DisturbedStep(r) PROVE SpineStep
  <2>1. CASE Commit(r) \/ CommitAnswerLost(r)
    BY <2>1, TransactionIsSpineStep DEF Commit, CommitAnswerLost
  <2>2. CASE \/ Deliver(r) \/ DrainEnds(r) \/ ReadReceipt(r) \/ ReadMaterializationAuthority(r)
             \/ ReadHeadAuthority(r) \/ ReadAcknowledgementAuthority(r) \/ CommitRefused(r)
             \/ SerializationFails(r) \/ Fault(r) \/ TerminalMarkFails(r) \/ ReleaseFails(r)
             \/ Crash(r)
    BY <1>1, <2>2 DEF Deliver, DrainEnds, ReadReceipt, ReadMaterializationAuthority,
       ReadHeadAuthority, ReadAcknowledgementAuthority, CommitRefused, Answer, SerializationFails,
       Fault, TerminalMarkFails, ReleaseFails, Crash
  <2>. QED  BY <1>2, <1>3, <1>6, <2>1, <2>2 DEF DrainStep, DisturbedStep
<1>7. CASE LeaseStep
  BY <1>4, <1>7 DEF LeaseStep, AbandonedLeaseExpires, LateLeaseExpires
<1>. QED  BY <1>0, <1>1, <1>5, <1>6, <1>7, RequestIsSpineStep DEF Next, vars

-----------------------------------------------------------------------------
(* The spine transactions keep the spine in order                           *)

LEMMA UnmovedStands ==
  ASSUME InRange, SpineInv, SpineUnmoved
  PROVE  SpineInv'
<1>1. ASSUME NEW b \in Branches, NEW s \in Revisions
      PROVE  RevisionStands(b, s)'
  <2>1. RevisionStands(b, s)
    BY DEF SpineInv
  <2>. QED  BY <2>1, EventTypes DEF SpineUnmoved, SameAnnounced, RevisionStands
<1>2. ASSUME NEW b \in Branches PROVE HeadStands(b)' /\ KeysStand(b)'
  <2>1. HeadStands(b) /\ KeysStand(b)
    BY DEF SpineInv
  <2>. QED  BY <2>1 DEF SpineUnmoved, HeadStands, KeysStand
<1>. QED  BY <1>1, <1>2 DEF SpineInv

(* A revision and the branch it belongs to are numbers.                     *)
LEMMA Numbers ==
  ASSUME InRange, NEW b \in Branches
  PROVE  /\ branch[b].current \in Nat /\ branch[b].current <= MaxRevisions
         /\ branch[b].head \in Nat /\ branch[b].head <= MaxRevisions
         /\ branch[b].version \in Nat /\ branch[b].version <= MaxCounter
         /\ branch[b].head # 0 => branch[b].head \in Revisions
         /\ branch[b].current # 0 => branch[b].current \in Revisions
         /\ \A k \in Keys : admissions[b][k] \in Nat
BY SpineAssumption DEF InRange, TypeOK, SpineTypeOK, Branch, Revisions

LEMMA CommitAdmissionEffect ==
  ASSUME InRange, NEW c \in Clients, ClientIsFresh(c), CommitAdmission(c)
  PROVE  LET b == client[c].branch
             k == client[c].key
             s == branch[b].current + 1
         IN  /\ b \in Branches /\ k \in Keys /\ s \in Revisions
             /\ admissions[b][k] = 0
             /\ ~ closed
             /\ branch'[b].version = branch[b].version + 1
             /\ branch'[b].current = s /\ branch'[b].head = branch[b].head
             /\ \A d \in Branches \ {b} : branch'[d] = branch[d]
             /\ admissions'[b] = [admissions[b] EXCEPT ![k] = s]
             /\ \A d \in Branches \ {b} : admissions'[d] = admissions[d]
             /\ \A e \in Events \ {Admitted(b, s)} : outbox'[e] = outbox[e]
             /\ outbox'[Admitted(b, s)].status = "pending"
             /\ UNCHANGED <<runs, closed, receipt, watermark>>
<1>. DEFINE b == client[c].branch
            k == client[c].key
            s == client[c].current + 1
<1>1. b \in Branches /\ k \in Keys /\ client[c].current < MaxRevisions
  BY DEF CommitAdmission, InRange, ClientInRange
<1>2. ~ closed /\ branch[b].version = client[c].version
  BY DEF CommitAdmission, AdmissionConflict
<1>3. branch[b].current = client[c].current /\ client[c].current \in Nat
  <2>1. client[c].current \in Nat
    BY DEF InRange, TypeOK, SpineTypeOK, Client
  <2>. QED  BY <1>2, <2>1 DEF CommitAdmission, ClientIsFresh
<1>4. s \in Revisions
  BY <1>1, <1>3, SpineAssumption DEF Revisions
<1>5. /\ branch' = [branch EXCEPT ![b].version = client[c].version + 1, ![b].current = s]
      /\ admissions' = [admissions EXCEPT ![b][k] = s]
      /\ outbox' = [outbox EXCEPT ![Admitted(b, s)] = PendingRow]
      /\ admissions[b][k] = 0
      /\ UNCHANGED <<runs, closed, receipt, watermark>>
  BY DEF CommitAdmission, Emit
<1>. HIDE DEF b, k, s
<1>6. /\ branch'[b].version = client[c].version + 1
      /\ branch'[b].current = s /\ branch'[b].head = branch[b].head
      /\ \A d \in Branches \ {b} : branch'[d] = branch[d]
  BY <1>1, <1>5 DEF InRange, TypeOK, SpineTypeOK, Branch
<1>7. /\ admissions'[b] = [admissions[b] EXCEPT ![k] = s]
      /\ \A d \in Branches \ {b} : admissions'[d] = admissions[d]
  BY <1>1, <1>5 DEF InRange, TypeOK, SpineTypeOK
<1>8. /\ \A e \in Events \ {Admitted(b, s)} : outbox'[e] = outbox[e]
      /\ outbox'[Admitted(b, s)].status = "pending"
  BY <1>1, <1>4, <1>5, EventTypes DEF InRange, TypeOK, SpineTypeOK, PendingRow
<1>9. s = branch[b].current + 1
  BY <1>3 DEF s
<1>. QED  BY <1>1, <1>2, <1>4, <1>5, <1>6, <1>7, <1>8, <1>9 DEF b, k

LEMMA AdmissionStands ==
  ASSUME InRange, SpineInv, NEW c \in Clients, ClientIsFresh(c), CommitAdmission(c)
  PROVE  SpineInv'
<1>. DEFINE b == client[c].branch
            k == client[c].key
            s == branch[b].current + 1
<1>0. /\ b \in Branches /\ k \in Keys /\ s \in Revisions
      /\ admissions[b][k] = 0
      /\ branch'[b].current = s /\ branch'[b].head = branch[b].head
      /\ \A d \in Branches \ {b} : branch'[d] = branch[d]
      /\ admissions'[b] = [admissions[b] EXCEPT ![k] = s]
      /\ \A d \in Branches \ {b} : admissions'[d] = admissions[d]
      /\ \A e \in Events \ {Admitted(b, s)} : outbox'[e] = outbox[e]
      /\ outbox'[Admitted(b, s)].status = "pending"
      /\ UNCHANGED <<runs, receipt>>
      /\ s = branch[b].current + 1
  BY CommitAdmissionEffect
<1>. HIDE DEF b, k, s
<1>1. branch[b].current \in Nat /\ \A j \in Keys : admissions[b][j] \in Nat
  BY <1>0, Numbers
<1>2. ASSUME NEW d \in Branches, NEW t \in Revisions
      PROVE  RevisionStands(d, t)'
  <2>1. RevisionStands(d, t) /\ t \in Nat /\ t >= 1
    BY SpineAssumption DEF SpineInv, Revisions
  <2>2. /\ outbox'[Frozen(d, t)] = outbox[Frozen(d, t)]
        /\ outbox'[Advanced(d, t)] = outbox[Advanced(d, t)]
        /\ ~ (d = b /\ t = s) => outbox'[Admitted(d, t)] = outbox[Admitted(d, t)]
        /\ d = b /\ t = s => outbox'[Admitted(d, t)].status = "pending"
    BY <1>0, EventTypes, EventsDiffer
  <2>3. CASE d = b
    BY <1>0, <1>1, <2>1, <2>2, <2>3 DEF RevisionStands
  <2>4. CASE d # b
    BY <1>0, <2>1, <2>2, <2>4 DEF RevisionStands
  <2>. QED  BY <2>3, <2>4
<1>3. ASSUME NEW d \in Branches PROVE HeadStands(d)'
  BY <1>0 DEF SpineInv, HeadStands
<1>4. ASSUME NEW d \in Branches PROVE KeysStand(d)'
  <2>1. CASE d # b
    BY <1>0, <2>1 DEF SpineInv, KeysStand
  <2>2. CASE d = b
    <3>1. KeysStand(b)
      BY <1>0 DEF SpineInv
    <3>2. /\ admissions'[b][k] = s
          /\ \A j \in Keys \ {k} : admissions'[b][j] = admissions[b][j]
      BY <1>0 DEF InRange, TypeOK, SpineTypeOK
    <3>3. \A j \in Keys : admissions'[b][j] <= branch'[b].current
      BY <1>0, <1>1, <3>1, <3>2 DEF KeysStand
    <3>4. ASSUME NEW t \in 1..branch'[b].current
          PROVE  \E j \in Keys : admissions'[b][j] = t
      <4>1. CASE t = s
        BY <1>0, <3>2, <4>1
      <4>2. CASE t # s
        <5>1. t \in 1..branch[b].current
          BY <1>0, <1>1, <3>4, <4>2
        <5>2. PICK j \in Keys : admissions[b][j] = t
          BY <3>1, <5>1 DEF KeysStand
        <5>. QED  BY <1>0, <3>2, <5>1, <5>2
      <4>. QED  BY <4>1, <4>2
    <3>5. ASSUME NEW j \in Keys, NEW m \in Keys, admissions'[b][j] = admissions'[b][m], j # m
          PROVE  admissions'[b][j] = 0
      BY <1>0, <1>1, <3>1, <3>2, <3>5 DEF KeysStand
    <3>. QED  BY <2>2, <3>3, <3>4, <3>5 DEF KeysStand
  <2>. QED  BY <2>1, <2>2
<1>. QED  BY <1>2, <1>3, <1>4 DEF SpineInv

(* Receiving one event and emitting another disturbs no other row.          *)
LEMMA ReceiveEffect ==
  ASSUME InRange, NEW e \in Events, NEW outcome, Receive(e, outcome)
  PROVE  receipt'[e] = outcome /\ \A d \in Events \ {e} : receipt'[d] = receipt[d]
BY DEF InRange, TypeOK, SpineTypeOK, Receive

LEMMA EmitEffect ==
  ASSUME InRange, NEW e \in Events, Emit(e)
  PROVE  outbox'[e].status = "pending" /\ \A d \in Events \ {e} : outbox'[d] = outbox[d]
BY DEF InRange, TypeOK, SpineTypeOK, Emit, PendingRow

LEMMA MaterializeStands ==
  ASSUME InRange, SpineInv, NEW b \in Branches, NEW s \in Revisions, Known(Admitted(b, s)),
         Materialize(b, s)
  PROVE  SpineInv'
<1>1. /\ receipt'[Admitted(b, s)] = "processed"
      /\ \A d \in Events \ {Admitted(b, s)} : receipt'[d] = receipt[d]
      /\ outbox'[Frozen(b, s)].status = "pending"
      /\ \A d \in Events \ {Frozen(b, s)} : outbox'[d] = outbox[d]
      /\ runs' = runs \cup {<<b, s>>}
      /\ UNCHANGED <<branch, admissions>>
  BY EventTypes, ReceiveEffect, EmitEffect DEF Materialize
<1>2. ASSUME NEW d \in Branches, NEW t \in Revisions
      PROVE  RevisionStands(d, t)'
  <2>1. RevisionStands(d, t)
    BY DEF SpineInv
  <2>2. /\ outbox'[Admitted(d, t)] = outbox[Admitted(d, t)]
        /\ outbox'[Advanced(d, t)] = outbox[Advanced(d, t)]
        /\ receipt'[Frozen(d, t)] = receipt[Frozen(d, t)]
        /\ receipt'[Advanced(d, t)] = receipt[Advanced(d, t)]
    BY <1>1, EventTypes, EventsDiffer
  <2>3. CASE d = b /\ t = s
    <3>1. outbox[Admitted(b, s)].status # "absent"
      BY DEF Known
    <3>. QED  BY <1>1, <2>1, <2>2, <2>3, <3>1 DEF RevisionStands
  <2>4. CASE ~ (d = b /\ t = s)
    <3>1. /\ outbox'[Frozen(d, t)] = outbox[Frozen(d, t)]
          /\ receipt'[Admitted(d, t)] = receipt[Admitted(d, t)]
          /\ <<d, t>> \in runs' <=> <<d, t>> \in runs
      BY <1>1, <2>4, EventTypes, EventsDiffer
    <3>. QED  BY <1>1, <2>1, <2>2, <3>1 DEF RevisionStands
  <2>. QED  BY <2>3, <2>4
<1>3. ASSUME NEW d \in Branches PROVE HeadStands(d)' /\ KeysStand(d)'
  <2>1. branch[d].head # 0 => receipt'[Frozen(d, branch[d].head)] = receipt[Frozen(d, branch[d].head)]
    BY <1>1, Numbers, EventTypes, EventsDiffer
  <2>. QED  BY <1>1, <2>1 DEF SpineInv, HeadStands, KeysStand
<1>. QED  BY <1>2, <1>3 DEF SpineInv

LEMMA AdvanceHeadEffect ==
  ASSUME InRange, NEW b \in Branches, NEW s \in Revisions, NEW version \in Nat,
         AdvanceHead(b, s, version)
  PROVE  /\ receipt[Frozen(b, s)] = "none" /\ ~ closed /\ branch[b].current = s
         /\ branch'[b].version = branch[b].version + 1
         /\ branch'[b].current = branch[b].current /\ branch'[b].head = s
         /\ \A d \in Branches \ {b} : branch'[d] = branch[d]
         /\ receipt'[Frozen(b, s)] = "processed"
         /\ \A d \in Events \ {Frozen(b, s)} : receipt'[d] = receipt[d]
         /\ outbox'[Advanced(b, s)].status = "pending"
         /\ \A d \in Events \ {Advanced(b, s)} : outbox'[d] = outbox[d]
         /\ UNCHANGED <<admissions, runs, closed>>
<1>1. /\ receipt[Frozen(b, s)] = "none" /\ ~ closed
      /\ branch[b].version = version /\ branch[b].current = s
  BY DEF AdvanceHead, HeadAdvanceRefused
<1>2. /\ branch'[b].version = version + 1 /\ branch'[b].current = branch[b].current
      /\ branch'[b].head = s
      /\ \A d \in Branches \ {b} : branch'[d] = branch[d]
  BY DEF AdvanceHead, InRange, TypeOK, SpineTypeOK, Branch
<1>. QED  BY <1>1, <1>2, EventTypes, ReceiveEffect, EmitEffect DEF AdvanceHead

LEMMA AdvanceHeadStands ==
  ASSUME InRange, SpineInv, NEW b \in Branches, NEW s \in Revisions, Known(Frozen(b, s)),
         NEW version \in Nat, AdvanceHead(b, s, version)
  PROVE  SpineInv'
<1>1. /\ receipt[Frozen(b, s)] = "none" /\ branch[b].current = s
      /\ branch'[b].current = branch[b].current /\ branch'[b].head = s
      /\ \A d \in Branches \ {b} : branch'[d] = branch[d]
      /\ receipt'[Frozen(b, s)] = "processed"
      /\ \A d \in Events \ {Frozen(b, s)} : receipt'[d] = receipt[d]
      /\ outbox'[Advanced(b, s)].status = "pending"
      /\ \A d \in Events \ {Advanced(b, s)} : outbox'[d] = outbox[d]
      /\ UNCHANGED <<admissions, runs>>
  BY AdvanceHeadEffect
<1>2. ASSUME NEW d \in Branches, NEW t \in Revisions
      PROVE  RevisionStands(d, t)'
  <2>1. RevisionStands(d, t) /\ t \in Nat
    BY SpineAssumption DEF SpineInv, Revisions
  <2>2. /\ outbox'[Admitted(d, t)] = outbox[Admitted(d, t)]
        /\ outbox'[Frozen(d, t)] = outbox[Frozen(d, t)]
        /\ receipt'[Admitted(d, t)] = receipt[Admitted(d, t)]
        /\ receipt'[Advanced(d, t)] = receipt[Advanced(d, t)]
    BY <1>1, EventTypes, EventsDiffer
  <2>3. CASE d = b /\ t = s
    <3>1. outbox[Frozen(b, s)].status # "absent"
      BY DEF Known
    <3>. QED  BY <1>1, <2>1, <2>2, <2>3, <3>1 DEF RevisionStands
  <2>4. CASE ~ (d = b /\ t = s)
    <3>1. /\ outbox'[Advanced(d, t)] = outbox[Advanced(d, t)]
          /\ receipt'[Frozen(d, t)] = receipt[Frozen(d, t)]
      BY <1>1, <2>4, EventTypes, EventsDiffer
    <3>2. receipt[Frozen(d, t)] = "processed" => t <= branch'[d].head
      <4>1. CASE d = b
        BY <1>1, <2>1, <4>1 DEF RevisionStands
      <4>2. CASE d # b
        BY <1>1, <2>1, <4>2 DEF RevisionStands
      <4>. QED  BY <4>1, <4>2
    <3>3. branch'[d].current = branch[d].current
      BY <1>1
    <3>. QED  BY <1>1, <2>1, <2>2, <3>1, <3>2, <3>3 DEF RevisionStands
  <2>. QED  BY <2>3, <2>4
<1>3. ASSUME NEW d \in Branches PROVE HeadStands(d)' /\ KeysStand(d)'
  <2>1. KeysStand(d)'
    BY <1>1 DEF SpineInv, KeysStand
  <2>2. CASE d = b
    BY <1>1, <2>1, <2>2 DEF HeadStands
  <2>3. CASE d # b
    <3>1. branch[d].head # 0 => receipt'[Frozen(d, branch[d].head)] = receipt[Frozen(d, branch[d].head)]
      BY <1>1, <2>3, Numbers, EventTypes, EventsDiffer
    <3>. QED  BY <1>1, <2>1, <2>3, <3>1 DEF SpineInv, HeadStands
  <2>. QED  BY <2>2, <2>3
<1>. QED  BY <1>2, <1>3 DEF SpineInv

LEMMA RecordEffect ==
  ASSUME InRange, NEW e \in Events, NEW outcome \in Receipts, Record(e, outcome)
  PROVE  /\ receipt[e] \in {"none", outcome}
         /\ receipt'[e] = outcome /\ \A d \in Events \ {e} : receipt'[d] = receipt[d]
         /\ UNCHANGED <<branch, admissions, runs, closed, outbox, client, watermark>>
BY ReceiveEffect DEF Record, ReceiptAllows, spineVars, requestVars

LEMMA IgnoreStands ==
  ASSUME InRange, SpineInv, NEW b \in Branches, NEW s \in Revisions, Known(Frozen(b, s)),
         Record(Frozen(b, s), "ignored_stale")
  PROVE  SpineInv'
<1>1. /\ receipt[Frozen(b, s)] \in {"none", "ignored_stale"}
      /\ receipt'[Frozen(b, s)] = "ignored_stale"
      /\ \A d \in Events \ {Frozen(b, s)} : receipt'[d] = receipt[d]
      /\ UNCHANGED <<branch, admissions, runs, outbox>>
  BY EventTypes, RecordEffect DEF Receipts
<1>2. ASSUME NEW d \in Branches, NEW t \in Revisions
      PROVE  RevisionStands(d, t)' /\ (receipt'[Frozen(d, t)] = "processed"
                                          <=> receipt[Frozen(d, t)] = "processed")
  <2>1. RevisionStands(d, t)
    BY DEF SpineInv
  <2>2. /\ receipt'[Admitted(d, t)] = receipt[Admitted(d, t)]
        /\ receipt'[Advanced(d, t)] = receipt[Advanced(d, t)]
    BY <1>1, EventTypes, EventsDiffer
  <2>3. CASE d = b /\ t = s
    <3>1. outbox[Frozen(b, s)].status # "absent"
      BY DEF Known
    <3>. QED  BY <1>1, <2>1, <2>2, <2>3, <3>1 DEF RevisionStands
  <2>4. CASE ~ (d = b /\ t = s)
    <3>1. receipt'[Frozen(d, t)] = receipt[Frozen(d, t)]
      BY <1>1, <2>4, EventTypes, EventsDiffer
    <3>. QED  BY <1>1, <2>1, <2>2, <3>1 DEF RevisionStands
  <2>. QED  BY <2>3, <2>4
<1>3. ASSUME NEW d \in Branches PROVE HeadStands(d)' /\ KeysStand(d)'
  BY <1>1, <1>2, Numbers DEF SpineInv, HeadStands, KeysStand
<1>. QED  BY <1>2, <1>3 DEF SpineInv

LEMMA AcknowledgeStands ==
  ASSUME InRange, SpineInv, NEW b \in Branches, NEW s \in Revisions, Known(Advanced(b, s)),
         Record(Advanced(b, s), "processed")
  PROVE  SpineInv'
<1>1. /\ receipt'[Advanced(b, s)] = "processed"
      /\ \A d \in Events \ {Advanced(b, s)} : receipt'[d] = receipt[d]
      /\ UNCHANGED <<branch, admissions, runs, outbox>>
  BY EventTypes, RecordEffect DEF Receipts
<1>2. ASSUME NEW d \in Branches, NEW t \in Revisions
      PROVE  RevisionStands(d, t)' /\ receipt'[Frozen(d, t)] = receipt[Frozen(d, t)]
  <2>1. RevisionStands(d, t)
    BY DEF SpineInv
  <2>2. /\ receipt'[Admitted(d, t)] = receipt[Admitted(d, t)]
        /\ receipt'[Frozen(d, t)] = receipt[Frozen(d, t)]
    BY <1>1, EventTypes, EventsDiffer
  <2>3. CASE d = b /\ t = s
    <3>1. outbox[Advanced(b, s)].status # "absent"
      BY DEF Known
    <3>. QED  BY <1>1, <2>1, <2>2, <2>3, <3>1 DEF RevisionStands
  <2>4. CASE ~ (d = b /\ t = s)
    <3>1. receipt'[Advanced(d, t)] = receipt[Advanced(d, t)]
      BY <1>1, <2>4, EventTypes, EventsDiffer
    <3>. QED  BY <1>1, <2>1, <2>2, <3>1 DEF RevisionStands
  <2>. QED  BY <2>3, <2>4
<1>3. ASSUME NEW d \in Branches PROVE HeadStands(d)' /\ KeysStand(d)'
  BY <1>1, <1>2, Numbers DEF SpineInv, HeadStands, KeysStand
<1>. QED  BY <1>2, <1>3 DEF SpineInv

(* The closure and its receipt concern no revision.                         *)
LEMMA ClosureStands ==
  ASSUME InRange, SpineInv, CloseCycle \/ Record(CycleClosed, "processed")
  PROVE  SpineInv'
<1>0. CycleClosed \in Events /\ "processed" \in Receipts
  BY DEF Events, PiEvents, Receipts
<1>1. /\ \A e \in Events \ {CycleClosed} : receipt'[e] = receipt[e] /\ outbox'[e] = outbox[e]
      /\ UNCHANGED <<branch, admissions, runs>>
  BY <1>0, RecordEffect, EmitEffect DEF CloseCycle
<1>2. ASSUME NEW b \in Branches, NEW s \in Revisions
      PROVE  RevisionStands(b, s)' /\ receipt'[Frozen(b, s)] = receipt[Frozen(b, s)]
  <2>1. RevisionStands(b, s)
    BY DEF SpineInv
  <2>2. \A e \in {Admitted(b, s), Frozen(b, s), Advanced(b, s)} :
          receipt'[e] = receipt[e] /\ outbox'[e] = outbox[e]
    BY <1>1, EventTypes, EventsDiffer
  <2>. QED  BY <1>1, <2>1, <2>2 DEF RevisionStands
<1>3. ASSUME NEW b \in Branches PROVE HeadStands(b)' /\ KeysStand(b)'
  BY <1>1, <1>2, Numbers DEF SpineInv, HeadStands, KeysStand
<1>. QED  BY <1>2, <1>3 DEF SpineInv

LEMMA SpineStands ==
  ASSUME IInv, SpineStep
  PROVE  SpineInv'
<1>1. InRange /\ SpineInv /\ \A c \in Clients : ClientIsFresh(c)
  BY DEF IInv
<1>. QED  BY <1>1, UnmovedStands, AdmissionStands, MaterializeStands, AdvanceHeadStands,
             IgnoreStands, AcknowledgeStands, ClosureStands DEF SpineStep

(* Nothing is taken back: announcements and receipts stay, and a branch     *)
(* that changes gets a new version and no lower revision.                   *)
Monotone ==
    /\ \A e \in Events :
          /\ outbox[e].status # "absent" => outbox'[e].status # "absent"
          /\ receipt[e] = "processed" => receipt'[e] = "processed"
          /\ receipt[e] # "none" => receipt'[e] # "none"
    /\ \A b \in Branches :
          /\ branch'[b].current \in Nat /\ branch'[b].current >= branch[b].current
          /\ branch'[b] = branch[b] \/ branch'[b].version > branch[b].version

LEMMA SpineStepIsMonotone ==
  ASSUME IInv, SpineStep
  PROVE  Monotone
<1>0. InRange /\ \A c \in Clients : ClientIsFresh(c)
  BY DEF IInv
<1>. DEFINE Events2 == \A e \in Events :
              /\ outbox[e].status # "absent" => outbox'[e].status # "absent"
              /\ receipt[e] = "processed" => receipt'[e] = "processed"
              /\ receipt[e] # "none" => receipt'[e] # "none"
            Branches2 == \A b \in Branches :
              /\ branch'[b].current \in Nat /\ branch'[b].current >= branch[b].current
              /\ branch'[b] = branch[b] \/ branch'[b].version > branch[b].version
<1>a. ASSUME UNCHANGED branch PROVE Branches2
  BY <1>0, <1>a, Numbers
<1>1. CASE SpineUnmoved
  BY <1>1, <1>a DEF SpineUnmoved, SameAnnounced, Monotone
<1>2. ASSUME NEW c \in Clients, CommitAdmission(c) PROVE Monotone
  <2>1. ClientIsFresh(c)
    BY <1>0
  <2>2. Branches2
    <3>1. PICK b \in Branches :
            /\ branch'[b].version = branch[b].version + 1
            /\ branch'[b].current = branch[b].current + 1
            /\ \A d \in Branches \ {b} : branch'[d] = branch[d]
      BY <1>0, <1>2, <2>1, CommitAdmissionEffect
    <3>. QED  BY <1>0, <3>1, Numbers
  <2>3. Events2
    BY <1>0, <1>2, <2>1, CommitAdmissionEffect
  <2>. QED  BY <2>2, <2>3 DEF Monotone
<1>3. ASSUME NEW b \in Branches, NEW s \in Revisions, Materialize(b, s) PROVE Monotone
  <2>1. Events2
    BY <1>0, <1>3, EventTypes, ReceiveEffect, EmitEffect DEF Materialize
  <2>. QED  BY <1>3, <1>a, <2>1 DEF Materialize, Monotone
<1>4. ASSUME NEW b \in Branches, NEW s \in Revisions, NEW version \in Nat, AdvanceHead(b, s, version)
      PROVE  Monotone
  <2>1. Branches2
    BY <1>0, <1>4, AdvanceHeadEffect, Numbers
  <2>2. Events2
    BY <1>0, <1>4, AdvanceHeadEffect
  <2>. QED  BY <2>1, <2>2 DEF Monotone
<1>5. ASSUME NEW e \in Events, NEW outcome \in {"processed", "ignored_stale"}, Record(e, outcome)
      PROVE  Monotone
  <2>1. Events2
    BY <1>0, <1>5, RecordEffect DEF Receipts
  <2>. QED  BY <1>0, <1>5, <1>a, <2>1, RecordEffect DEF Receipts, Monotone
<1>6. CASE CloseCycle
  <2>1. Events2
    BY <1>0, <1>6, EmitEffect DEF CloseCycle, Events, PiEvents
  <2>. QED  BY <1>6, <1>a, <2>1 DEF CloseCycle, Monotone
<1>7. CycleClosed \in Events
  BY DEF Events, PiEvents
<1>. HIDE DEF Events2, Branches2
<1>. QED  BY <1>1, <1>2, <1>3, <1>4, <1>5, <1>6, <1>7, EventTypes DEF SpineStep

LEMMA ClientsStayFresh ==
  ASSUME IInv, [Next]_vars, Monotone
  PROVE  \A c \in Clients : ClientIsFresh(c)'
<1>0. InRange /\ SpineTypeOK
  BY DEF IInv, InRange, TypeOK
<1>1. ASSUME NEW c \in Clients, client'[c] = client[c] PROVE ClientIsFresh(c)'
  <2>1. ClientIsFresh(c) /\ ClientInRange(c) /\ client[c] \in Client
    BY <1>0 DEF IInv, InRange, SpineTypeOK
  <2>. DEFINE b == client[c].branch
  <2>2. CASE client[c].pending
    <3>1. b \in Branches /\ client[c].version \in Nat
      BY <2>1, <2>2 DEF ClientInRange, Client
    <3>2. branch[b].version \in Nat /\ branch'[b].version \in Int
      <4>1. SpineTypeOK'
        BY <1>0, StepInRange DEF InRange, TypeOK
      <4>. QED  BY <1>0, <3>1, <4>1, SpineAssumption DEF SpineTypeOK, Branch
    <3>3. branch'[b] = branch[b] \/ branch'[b].version > branch[b].version
      BY <3>1 DEF Monotone
    <3>. QED  BY <1>1, <2>1, <2>2, <3>1, <3>2, <3>3 DEF ClientIsFresh
  <2>3. CASE ~ client[c].pending
    BY <1>1, <2>3 DEF ClientIsFresh
  <2>. QED  BY <2>2, <2>3
<1>2. ASSUME NEW c \in Clients, client'[c].pending = FALSE PROVE ClientIsFresh(c)'
  BY <1>2 DEF ClientIsFresh
<1>3. ASSUME NEW c \in Clients, NEW answer \in Answers, AnswerClient(c, answer)
      PROVE  \A d \in Clients : client'[d] = client[d] \/ client'[d].pending = FALSE
  BY <1>0, <1>3, IdleType DEF AnswerClient, SpineTypeOK
<1>4. ASSUME NEW c \in Clients, NEW b \in Branches, NEW k \in Keys, ReadBranch(c, b, k)
      PROVE  \A d \in Clients : ClientIsFresh(d)'
  <2>1. CASE \E answer \in Answers : AnswerClient(c, answer)
    BY <1>1, <1>2, <1>3, <2>1
  <2>2. CASE client' = [client EXCEPT ![c] =
                  [pending |-> TRUE, branch |-> b, key |-> k, version |-> branch[b].version,
                   current |-> branch[b].current, answer |-> "none"]]
    <3>1. \A d \in Clients \ {c} : client'[d] = client[d]
      BY <1>0, <2>2 DEF SpineTypeOK
    <3>2. ClientIsFresh(c)'
      <4>1. UNCHANGED branch
        BY <1>4 DEF ReadBranch, spineVars
      <4>. QED  BY <1>0, <2>2, <4>1, Numbers DEF ClientIsFresh, SpineTypeOK
    <3>. QED  BY <1>1, <3>1, <3>2
  <2>. QED  BY <1>4, <2>1, <2>2 DEF ReadBranch, Answers
<1>5. ASSUME NEW c \in Clients, ReplayAdmission(c) \/ RefuseAdmission(c) \/ CommitAdmission(c)
      PROVE  \A d \in Clients : ClientIsFresh(d)'
  <2>1. \E answer \in Answers : AnswerClient(c, answer)
    BY <1>5 DEF ReplayAdmission, RefuseAdmission, CommitAdmission, AdmissionConflict, Answers
  <2>. QED  BY <1>1, <1>2, <1>3, <2>1
<1>6. ASSUME UNCHANGED client PROVE \A c \in Clients : ClientIsFresh(c)'
  BY <1>1, <1>6
<1>7. CASE RequestStep
  BY <1>4, <1>5, <1>6, <1>7 DEF RequestStep, AdmissionStep, ClosureStep, EvaluateReadiness,
     CloseCycle, RefuseClosure
<1>8. ASSUME ~ RequestStep PROVE UNCHANGED client
  <2>1. ASSUME NEW r \in Relays, Transaction(r) PROVE UNCHANGED client
    BY <2>1 DEF Transaction, Materialize, AdvanceHead, Record, requestVars
  <2>2. ASSUME NEW r \in Relays, DrainStep(r) \/ DisturbedStep(r) PROVE UNCHANGED client
    BY <2>1, <2>2 DEF DrainStep, DisturbedStep, ClaimPi, ClaimEf, Deliver, DrainEnds, ReadReceipt,
       ReadMaterializationAuthority, ReadHeadAuthority, ReadAcknowledgementAuthority, Commit,
       CommitRefused, MarkOutboxDelivered, MarkOutboxTerminal, ReleaseOutbox, Settle, Answer,
       CommitAnswerLost, SerializationFails, Fault, TerminalMarkFails, ReleaseFails, Crash,
       storeVars, requestVars
  <2>3. LeaseStep => UNCHANGED client
    BY DEF LeaseStep, AbandonedLeaseExpires, LateLeaseExpires, ExpireLease, requestVars
  <2>4. ReadinessRevoked => UNCHANGED client
    BY DEF ReadinessRevoked, RevokeReadiness, requestVars
  <2>. QED  BY <1>8, <2>2, <2>3, <2>4 DEF Next, vars, storeVars, requestVars
<1>. QED  BY <1>6, <1>7, <1>8

(* A closed cycle: nothing is admitted, frozen or advanced any more.        *)
LEMMA ClosedIsSealed ==
  ASSUME IInv, SpineStep, closed
  PROVE  UNCHANGED <<branch, admissions, runs, closed>>
<1>1. \A c \in Clients : ~ CommitAdmission(c)
  BY DEF CommitAdmission, AdmissionConflict
<1>2. \A b \in Branches, s \in Revisions : ~ Materialize(b, s)
  BY DEF Materialize, MaterializationRefused
<1>3. \A b \in Branches, s \in Revisions, version \in Nat : ~ AdvanceHead(b, s, version)
  BY DEF AdvanceHead, HeadAdvanceRefused
<1>4. ~ CloseCycle
  BY DEF CloseCycle
<1>. QED  BY <1>1, <1>2, <1>3, <1>4 DEF SpineStep, SpineUnmoved, Record, spineVars

LEMMA ClosedStaysComplete ==
  ASSUME IInv, SpineStep, Monotone
  PROVE  ClosedCycleIsComplete'
<1>0. InRange
  BY DEF IInv
<1>1. CASE closed
  <2>1. UNCHANGED <<branch, admissions, runs, closed>>
    BY <1>1, ClosedIsSealed
  <2>2. ASSUME NEW b \in Branches, HeadMatchesCurrentScope(b)
        PROVE  HeadMatchesCurrentScope(b)'
    <3>1. Advanced(b, branch[b].current) \in Events
      BY <1>0, <2>2, Numbers, EventTypes DEF HeadMatchesCurrentScope
    <3>. QED  BY <2>1, <2>2, <3>1 DEF HeadMatchesCurrentScope, Monotone
  <2>3. AdmittedBranches' = AdmittedBranches /\ AdmittedBranches \subseteq Branches
    BY <2>1 DEF AdmittedBranches
  <2>. QED  BY <1>1, <2>2, <2>3 DEF IInv, ClosedCycleIsComplete
<1>2. CASE CloseCycle
  BY <1>2 DEF CloseCycle, NoBlocker, ClosedCycleIsComplete, AdmittedBranches,
     HeadMatchesCurrentScope
<1>3. CASE ~ closed /\ ~ CloseCycle
  <2>1. \A c \in Clients : CommitAdmission(c) => UNCHANGED closed
    BY DEF CommitAdmission
  <2>. QED  BY <1>3, <2>1 DEF SpineStep, SpineUnmoved, Materialize, AdvanceHead, Record, spineVars,
               ClosedCycleIsComplete
<1>. QED  BY <1>1, <1>2, <1>3

LEMMA EvaluationStaysNonempty ==
  ASSUME IInv, [Next]_vars
  PROVE  EvaluationStands'
<1>1. CASE EvaluateReadiness
  <2>1. PICK b \in Branches : branch[b].current # 0
    BY <1>1 DEF EvaluateReadiness, AdmittedBranches
  <2>2. Watermark[b].current = branch[b].current
    BY DEF Watermark
  <2>. QED  BY <1>1, <2>1, <2>2 DEF EvaluateReadiness, EvaluationStands
<1>2. CASE CloseCycle \/ RefuseClosure
  BY <1>2 DEF CloseCycle, RefuseClosure, EvaluationStands
<1>3. ASSUME UNCHANGED watermark PROVE EvaluationStands'
  BY <1>3 DEF IInv, EvaluationStands
<1>4. CASE AdmissionStep
  BY <1>3, <1>4 DEF AdmissionStep, ReadBranch, ReplayAdmission, RefuseAdmission, CommitAdmission
<1>5. ASSUME NEW r \in Relays, DrainStep(r) \/ DisturbedStep(r) PROVE UNCHANGED watermark
  <2>1. Transaction(r) => UNCHANGED watermark
    BY DEF Transaction, Materialize, AdvanceHead, Record, requestVars
  <2>. QED  BY <1>5, <2>1 DEF DrainStep, DisturbedStep, ClaimPi, ClaimEf, Deliver, DrainEnds,
       ReadReceipt, ReadMaterializationAuthority, ReadHeadAuthority, ReadAcknowledgementAuthority,
       Commit, CommitRefused, MarkOutboxDelivered, MarkOutboxTerminal, ReleaseOutbox, Settle,
       Answer, CommitAnswerLost, SerializationFails, Fault, TerminalMarkFails, ReleaseFails, Crash,
       storeVars, requestVars
<1>6. LeaseStep => UNCHANGED watermark
  BY DEF LeaseStep, AbandonedLeaseExpires, LateLeaseExpires, ExpireLease, requestVars
<1>7. ReadinessRevoked => UNCHANGED watermark
  BY DEF ReadinessRevoked, RevokeReadiness, requestVars
<1>. QED  BY <1>1, <1>2, <1>3, <1>4, <1>5, <1>6, <1>7 DEF Next, RequestStep, ClosureStep, vars,
             storeVars, requestVars

-----------------------------------------------------------------------------
(* What a relay knows stays true                                            *)

LEMMA StillKnows ==
  ASSUME IInv, Monotone, NEW q \in Relays,
         pc'[q] = pc[q], handling'[q] = handling[q], claims'[q] = claims[q]
  PROVE  RelayKnows(q)'
<1>1. RelayKnows(q) /\ RelayInRange(q) /\ claims[q] \subseteq Events
  BY DEF IInv, InRange, TypeOK
<1>2. \A e \in claims'[q] : outbox'[e].status # "absent"
  BY <1>1 DEF RelayKnows, Monotone
<1>3. pc'[q] \in Delivering => outbox'[handling'[q]].status # "absent"
  BY <1>1 DEF RelayKnows, RelayInRange, Monotone
<1>4. pc'[q] = "stale" => handling'[q].seq < branch'[handling'[q].branch].current
  <2>1. SUFFICES ASSUME pc[q] = "stale"
                 PROVE  handling[q].seq < branch'[handling[q].branch].current
    OBVIOUS
  <2>2. handling[q] \in Events /\ handling[q].type = "RunManifestFrozen"
    BY <1>1, <2>1 DEF RelayInRange, Delivering
  <2>3. PICK b \in Branches, s \in Revisions : handling[q].branch = b /\ handling[q].seq = s
    BY <2>2, EventCases
  <2>4. s < branch[b].current /\ branch'[b].current >= branch[b].current
    BY <1>1, <2>1, <2>3 DEF RelayKnows, Monotone
  <2>5. s \in Int /\ branch[b].current \in Int /\ branch'[b].current \in Int
    BY Numbers, SpineAssumption DEF IInv, Monotone, Revisions
  <2>. QED  BY <2>3, <2>4, <2>5
<1>5. pc'[q] = "repeat" => receipt'[handling'[q]] = "processed"
  BY <1>1 DEF RelayKnows, RelayInRange, Delivering, Monotone
<1>6. pc'[q] = "mark" => receipt'[handling'[q]] # "none"
  BY <1>1 DEF RelayKnows, RelayInRange, Delivering, Monotone
<1>. QED  BY <1>2, <1>3, <1>4, <1>5, <1>6 DEF RelayKnows

(* The relay that moves, with the same claims and the same event.           *)
LEMMA MovedKnows ==
  ASSUME IInv, Monotone, NEW r \in Relays, NEW label \in Labels, Goto(r, label),
         UNCHANGED <<claims, handling>>,
         label \in Delivering => pc[r] \in Delivering,
         label = "stale" => handling[r].seq < branch'[handling[r].branch].current,
         label = "repeat" => receipt'[handling[r]] = "processed",
         label = "mark" => receipt'[handling[r]] # "none"
  PROVE  \A q \in Relays : RelayKnows(q)'
<1>0. TypeOK /\ InRange
  BY DEF IInv, InRange
<1>1. pc'[r] = label /\ \A q \in Relays \ {r} : pc'[q] = pc[q]
  BY <1>0, GotoInRange
<1>2. \A q \in Relays \ {r} : RelayKnows(q)'
  BY <1>1, StillKnows
<1>3. RelayKnows(r) /\ RelayInRange(r) /\ claims[r] \subseteq Events
  BY <1>0 DEF IInv, InRange, TypeOK
<1>4. \A e \in claims'[r] : outbox'[e].status # "absent"
  BY <1>3 DEF RelayKnows, Monotone
<1>5. label \in Delivering => outbox'[handling'[r]].status # "absent"
  BY <1>3 DEF RelayKnows, RelayInRange, Monotone
<1>. QED  BY <1>1, <1>2, <1>4, <1>5 DEF RelayKnows

LEMMA ClaimKnows ==
  ASSUME IInv, Monotone, NEW r \in Relays, ClaimPi(r) \/ ClaimEf(r)
  PROVE  \A q \in Relays : RelayKnows(q)'
<1>0. TypeOK /\ RelayKnows(r)
  BY DEF IInv, InRange
<1>1. PICK domain \in {PiEvents, EfEvents}, label \in {"claim_ef", "deliver"} :
        ClaimOutbox(r, domain) /\ Goto(r, label) /\ UNCHANGED handling
  BY DEF ClaimPi, ClaimEf
<1>2. PICK batch \in Batches(domain) :
        /\ outbox' = [e \in Events |->
                        IF e \in batch
                        THEN [status |-> "leased", owner |-> r, live |-> TRUE] ELSE outbox[e]]
        /\ claims' = [claims EXCEPT ![r] = claims[r] \cup batch]
  BY <1>1 DEF ClaimOutbox
<1>3. batch \subseteq Events
  BY <1>1 DEF Batches, Events
<1>4. /\ pc'[r] = label /\ label \notin Delivering
      /\ \A q \in Relays \ {r} : pc'[q] = pc[q]
  BY <1>0, <1>1, GotoInRange DEF Labels, Delivering
<1>5. /\ claims'[r] = claims[r] \cup batch /\ claims[r] \subseteq Events
      /\ \A q \in Relays \ {r} : claims'[q] = claims[q]
  BY <1>0, <1>2 DEF TypeOK
<1>6. \A e \in claims'[r] : outbox'[e].status # "absent"
  <2>1. \A e \in claims[r] : outbox'[e].status # "absent"
    BY <1>0, <1>5 DEF RelayKnows, Monotone
  <2>2. \A e \in batch : outbox'[e].status # "absent"
    BY <1>2, <1>3
  <2>. QED  BY <1>5, <2>1, <2>2
<1>7. \A q \in Relays \ {r} : RelayKnows(q)'
  BY <1>1, <1>4, <1>5, StillKnows
<1>. QED  BY <1>4, <1>6, <1>7 DEF RelayKnows, Delivering

LEMMA DeliverKnows ==
  ASSUME IInv, Monotone, NEW r \in Relays, Deliver(r)
  PROVE  \A q \in Relays : RelayKnows(q)'
<1>0. TypeOK /\ RelayKnows(r)
  BY DEF IInv, InRange
<1>1. PICK e \in claims[r] :
        /\ handling' = [handling EXCEPT ![r] = e]
        /\ claims' = [claims EXCEPT ![r] = @ \ {e}]
        /\ Goto(r, "receipt")
  BY DEF Deliver
<1>2. /\ pc'[r] = "receipt"
      /\ \A q \in Relays \ {r} : pc'[q] = pc[q]
  BY <1>0, <1>1, GotoInRange DEF Labels
<1>3. /\ claims'[r] \subseteq claims[r] /\ handling'[r] = e /\ claims[r] \subseteq Events
      /\ \A q \in Relays \ {r} : claims'[q] = claims[q] /\ handling'[q] = handling[q]
  BY <1>0, <1>1 DEF TypeOK
<1>4. \A d \in claims[r] : outbox'[d].status # "absent"
  BY <1>0, <1>3 DEF RelayKnows, Monotone
<1>5. \A q \in Relays \ {r} : RelayKnows(q)'
  BY <1>2, <1>3, StillKnows
<1>. QED  BY <1>2, <1>3, <1>4, <1>5 DEF RelayKnows

LEMMA ReadKnows ==
  ASSUME IInv, Monotone, NEW r \in Relays,
         \/ DrainEnds(r) \/ ReadReceipt(r) \/ ReadMaterializationAuthority(r)
         \/ ReadHeadAuthority(r) \/ ReadAcknowledgementAuthority(r) \/ CommitRefused(r)
         \/ SerializationFails(r) \/ Fault(r) \/ TerminalMarkFails(r) \/ CommitAnswerLost(r)
  PROVE  \A q \in Relays : RelayKnows(q)'
<1>0. InRange /\ RelayInRange(r) /\ SpineInv
  BY DEF IInv, InRange
<1>1. UNCHANGED <<claims, handling>>
  BY DEF DrainEnds, ReadReceipt, ReadMaterializationAuthority, ReadHeadAuthority,
     ReadAcknowledgementAuthority, CommitRefused, Answer, SerializationFails, Fault,
     TerminalMarkFails, CommitAnswerLost
<1>2. CASE DrainEnds(r)
  BY <1>1, <1>2, MovedKnows DEF DrainEnds, Answer, Labels, Delivering
<1>3. CASE ReadReceipt(r)
  <2>1. UNCHANGED receipt
    BY <1>3 DEF ReadReceipt, Answer, storeVars, integrationVars
  <2>. QED  BY <1>1, <1>3, <2>1, MovedKnows DEF ReadReceipt, Answer, Labels, Delivering
<1>4. CASE ReadMaterializationAuthority(r)
  BY <1>1, <1>4, MovedKnows DEF ReadMaterializationAuthority, Answer, Labels, Delivering
<1>5. CASE ReadAcknowledgementAuthority(r)
  BY <1>1, <1>5, MovedKnows DEF ReadAcknowledgementAuthority, Answer, Labels, Delivering
<1>6. CASE \/ CommitRefused(r) \/ SerializationFails(r) \/ Fault(r) \/ TerminalMarkFails(r)
           \/ CommitAnswerLost(r)
  <2>1. pc[r] \in Delivering
    BY <1>6 DEF CommitRefused, Refused, SerializationFails, Fault, TerminalMarkFails,
       CommitAnswerLost, Transaction, Delivering
  <2>2. Goto(r, "terminalize") \/ Goto(r, "release")
    BY <1>6 DEF CommitRefused, Answer, SerializationFails, Fault, TerminalMarkFails,
       CommitAnswerLost
  <2>. QED  BY <1>1, <2>1, <2>2, MovedKnows DEF Labels, Delivering
<1>7. CASE ReadHeadAuthority(r)
  <2>1. PICK b \in Branches, s \in Revisions :
          handling[r].branch = b /\ handling[r].seq = s /\ handling[r] = Frozen(b, s)
    BY <1>0, <1>7, EventCases DEF ReadHeadAuthority, RelayInRange, Delivering
  <2>. DEFINE label == HeadDecision(b, s)
  <2>2. UNCHANGED <<branch, receipt>> /\ Goto(r, label) /\ pc[r] \in Delivering
    BY <1>7, <2>1 DEF ReadHeadAuthority, storeVars, spineVars, integrationVars, Delivering
  <2>3. /\ label \in Labels /\ label # "mark"
        /\ label = "stale" => s < branch[b].current
        /\ label = "repeat" => branch[b].head = s
    BY DEF HeadDecision, Labels
  <2>4. label = "repeat" => receipt[Frozen(b, s)] = "processed"
    <3>1. s # 0
      BY DEF Revisions
    <3>. QED  BY <1>0, <2>3, <3>1 DEF SpineInv, HeadStands
  <2>. HIDE DEF label
  <2>. QED  BY <1>1, <2>1, <2>2, <2>3, <2>4, MovedKnows
<1>. QED  BY <1>2, <1>3, <1>4, <1>5, <1>6, <1>7

LEMMA CommitKnows ==
  ASSUME IInv, Monotone, NEW r \in Relays, Commit(r)
  PROVE  \A q \in Relays : RelayKnows(q)'
<1>0. InRange
  BY DEF IInv
<1>1. Transaction(r) /\ Goto(r, "mark") /\ UNCHANGED <<claims, handling>>
  BY DEF Commit
<1>2. receipt'[handling[r]] \in {"processed", "ignored_stale"}
  <2>1. ASSUME NEW e \in Events, NEW outcome \in {"processed", "ignored_stale"},
               Receive(e, outcome), handling[r] = e
        PROVE  receipt'[handling[r]] \in {"processed", "ignored_stale"}
    BY <1>0, <2>1, ReceiveEffect
  <2>2. CycleClosed \in Events
    BY DEF Events, PiEvents
  <2>. QED  BY <1>0, <1>1, <2>1, <2>2, TransactionCases, EventTypes
             DEF Materialize, AdvanceHead, Record
<1>3. pc[r] \in Delivering
  BY <1>1 DEF Transaction, Delivering
<1>. QED  BY <1>1, <1>2, <1>3, MovedKnows DEF Labels

(* A relay that is done with its event, or forgets it, knows less.          *)
LEMMA LetGoKnows ==
  ASSUME IInv, Monotone, NEW r \in Relays,
         \/ MarkOutboxDelivered(r) \/ MarkOutboxTerminal(r) \/ ReleaseOutbox(r)
         \/ ReleaseFails(r) \/ Crash(r)
  PROVE  \A q \in Relays : RelayKnows(q)'
<1>0. TypeOK /\ RelayKnows(r)
  BY DEF IInv, InRange
<1>1. /\ handling' = [handling EXCEPT ![r] = None]
      /\ Goto(r, "deliver") \/ Goto(r, "claim")
      /\ UNCHANGED claims \/ claims' = [claims EXCEPT ![r] = {}]
  BY DEF MarkOutboxDelivered, MarkOutboxTerminal, ReleaseOutbox, Settle, ReleaseFails, Crash
<1>2. /\ pc'[r] \in {"deliver", "claim"} /\ pc'[r] \notin Delivering
      /\ \A q \in Relays \ {r} : pc'[q] = pc[q]
  BY <1>0, <1>1, GotoInRange DEF Labels, Delivering
<1>3. /\ claims'[r] \subseteq claims[r] /\ claims[r] \subseteq Events
      /\ \A q \in Relays \ {r} : claims'[q] = claims[q] /\ handling'[q] = handling[q]
  BY <1>0, <1>1 DEF TypeOK
<1>4. \A e \in claims[r] : outbox'[e].status # "absent"
  BY <1>0, <1>3 DEF RelayKnows, Monotone
<1>5. \A q \in Relays \ {r} : RelayKnows(q)'
  BY <1>2, <1>3, StillKnows
<1>. QED  BY <1>2, <1>3, <1>4, <1>5 DEF RelayKnows

LEMMA RelaysKnow ==
  ASSUME IInv, Monotone, [Next]_vars
  PROVE  \A q \in Relays : RelayKnows(q)'
<1>1. ASSUME UNCHANGED <<pc, claims, handling>> PROVE \A q \in Relays : RelayKnows(q)'
  BY <1>1, StillKnows
<1>2. ASSUME NEW r \in Relays, DrainStep(r) \/ DisturbedStep(r)
      PROVE  \A q \in Relays : RelayKnows(q)'
  BY <1>2, ClaimKnows, DeliverKnows, ReadKnows, CommitKnows, LetGoKnows DEF DrainStep, DisturbedStep
<1>3. RequestStep \/ LeaseStep \/ ReadinessRevoked \/ UNCHANGED vars
        => UNCHANGED <<pc, claims, handling>>
  BY DEF RequestStep, LeaseStep, AbandonedLeaseExpires, LateLeaseExpires, ExpireLease,
     ReadinessRevoked, relayVars, vars
<1>. QED  BY <1>1, <1>2, <1>3 DEF Next

LEMMA DeliveredStaysReceived ==
  ASSUME IInv, Monotone, [Next]_vars
  PROVE  DeliveredIsReceived'
<1>0. TypeOK /\ InRange /\ SpineTypeOK
  BY DEF IInv, InRange, TypeOK
<1>1. ASSUME \A e \in Events : outbox'[e].status = "delivered" => outbox[e].status = "delivered"
      PROVE  DeliveredIsReceived'
  BY <1>1 DEF IInv, DeliveredIsReceived, Monotone
<1>2. ASSUME NEW e \in Events, Emit(e) PROVE DeliveredIsReceived'
  BY <1>0, <1>1, <1>2, EmitEffect
<1>3. ASSUME UNCHANGED outbox PROVE DeliveredIsReceived'
  BY <1>1, <1>3
<1>4. CASE RequestStep
  <2>1. ASSUME NEW c \in Clients, CommitAdmission(c) PROVE DeliveredIsReceived'
    <3>1. Admitted(client[c].branch, client[c].current + 1) \in Events
      <4>1. /\ client[c].branch \in Branches /\ client[c].current < MaxRevisions
            /\ client[c].current \in Nat
        BY <1>0, <2>1 DEF CommitAdmission, InRange, ClientInRange, SpineTypeOK, Client
      <4>2. client[c].current + 1 \in Revisions
        BY <4>1, SpineAssumption DEF Revisions
      <4>. QED  BY <4>1, <4>2, EventTypes
    <3>. QED  BY <1>2, <2>1, <3>1 DEF CommitAdmission
  <2>2. CycleClosed \in Events
    BY DEF Events, PiEvents
  <2>. QED  BY <1>2, <1>3, <1>4, <2>1, <2>2 DEF RequestStep, AdmissionStep, ClosureStep, ReadBranch,
               ReplayAdmission, RefuseAdmission, EvaluateReadiness, CloseCycle, RefuseClosure,
               integrationVars
<1>5. ASSUME NEW r \in Relays, Commit(r) \/ CommitAnswerLost(r) PROVE DeliveredIsReceived'
  <2>1. Transaction(r)
    BY <1>5 DEF Commit, CommitAnswerLost
  <2>. QED  BY <1>0, <1>2, <1>3, <2>1, TransactionCases, EventTypes
             DEF Materialize, AdvanceHead, Record
<1>6. ASSUME NEW r \in Relays, ClaimPi(r) \/ ClaimEf(r) PROVE DeliveredIsReceived'
  <2>1. PICK domain \in {PiEvents, EfEvents} : ClaimOutbox(r, domain)
    BY <1>6 DEF ClaimPi, ClaimEf
  <2>. QED  BY <1>1, <2>1 DEF ClaimOutbox
<1>7. ASSUME NEW r \in Relays, MarkOutboxTerminal(r) \/ ReleaseOutbox(r) PROVE DeliveredIsReceived'
  BY <1>0, <1>1, <1>7 DEF MarkOutboxTerminal, ReleaseOutbox, Settle, PendingRow, SpineTypeOK
<1>8. ASSUME NEW r \in Relays, MarkOutboxDelivered(r) PROVE DeliveredIsReceived'
  <2>1. handling[r] \in Events /\ receipt[handling[r]] # "none"
    BY <1>0, <1>8 DEF MarkOutboxDelivered, IInv, InRange, RelayInRange, RelayKnows, Delivering
  <2>2. \A e \in Events \ {handling[r]} : outbox'[e] = outbox[e]
    BY <1>0, <1>8 DEF MarkOutboxDelivered, Settle, SpineTypeOK
  <2>. QED  BY <2>1, <2>2 DEF IInv, DeliveredIsReceived, Monotone
<1>9. ASSUME NEW r \in Relays, DrainStep(r) \/ DisturbedStep(r) PROVE DeliveredIsReceived'
  BY <1>3, <1>5, <1>6, <1>7, <1>8, <1>9 DEF DrainStep, DisturbedStep, Deliver, DrainEnds,
     ReadReceipt, ReadMaterializationAuthority, ReadHeadAuthority, ReadAcknowledgementAuthority,
     CommitRefused, Answer, SerializationFails, Fault, TerminalMarkFails, ReleaseFails, Crash,
     storeVars, integrationVars
<1>10. CASE LeaseStep
  BY <1>0, <1>1, <1>10 DEF LeaseStep, AbandonedLeaseExpires, LateLeaseExpires, ExpireLease,
     SpineTypeOK, OutboxRow
<1>. QED  BY <1>3, <1>4, <1>9, <1>10 DEF Next, ReadinessRevoked, RevokeReadiness, vars, storeVars,
             integrationVars

LEMMA StepIInv == IInv /\ [Next]_vars => IInv'
<1>. SUFFICES ASSUME IInv, [Next]_vars PROVE IInv'
  OBVIOUS
<1>1. InRange' /\ SpineStep
  BY StepInRange, StepIsSpineStep DEF IInv
<1>2. SpineInv' /\ Monotone
  BY <1>1, SpineStands, SpineStepIsMonotone
<1>3. \A c \in Clients : ClientIsFresh(c)'
  BY <1>2, ClientsStayFresh
<1>4. ClosedCycleIsComplete' /\ EvaluationStands'
  BY <1>1, <1>2, ClosedStaysComplete, EvaluationStaysNonempty
<1>5. DeliveredIsReceived' /\ \A r \in Relays : RelayKnows(r)'
  BY <1>2, DeliveredStaysReceived, RelaysKnow
<1>. QED  BY <1>1, <1>2, <1>3, <1>4, <1>5 DEF IInv

-----------------------------------------------------------------------------
(* The properties                                                           *)

(* In each domain the outbox and the state agree in every reachable state,  *)
(* whatever is redelivered, lost or raced.                                  *)
THEOREM EffectsStayAnnounced == Spec => []EffectsAreAnnounced
<1>1. IInv => EffectsAreAnnounced
  BY DEF IInv, SpineInv, RevisionStands, EffectsAreAnnounced
<1>. QED  BY <1>1, InitIInv, StepIInv, PTL DEF Spec

(* No redelivery and no late relay moves a head back or past its receipts.  *)
THEOREM HeadStaysNewest == Spec => []HeadIsNewestProcessed
<1>1. IInv => HeadIsNewestProcessed
  BY DEF IInv, SpineInv, RevisionStands, HeadStands, HeadIsNewestProcessed
<1>. QED  BY <1>1, InitIInv, StepIInv, PTL DEF Spec

(* A delivered row was received, also when the lease was lost in between.   *)
THEOREM DeliveryIsDurable == Spec => []DeliveredIsReceived
<1>1. IInv => DeliveredIsReceived
  BY DEF IInv
<1>. QED  BY <1>1, InitIInv, StepIInv, PTL DEF Spec

(* A closed cycle has every admitted branch at its acknowledged head.       *)
THEOREM ClosureStaysComplete == Spec => []ClosedCycleIsComplete
<1>1. IInv => ClosedCycleIsComplete
  BY DEF IInv
<1>. QED  BY <1>1, InitIInv, StepIInv, PTL DEF Spec

(* Nothing that was in flight takes effect after the closure.               *)
THEOREM ClosureSeals == Spec => ClosedCycleIsSealed
<1>1. IInv /\ [Next]_vars => [closed => UNCHANGED <<branch, admissions, runs, closed>>]_vars
  BY StepIsSpineStep, ClosedIsSealed
<1>. QED  BY <1>1, InitIInv, StepIInv, PTL DEF Spec, ClosedCycleIsSealed

(* A business key admits one revision and each revision has one key, with   *)
(* any number of concurrent callers.                                        *)
THEOREM AdmissionIsIdempotent == Spec => []KeysAdmitOnce
<1>1. IInv => KeysAdmitOnce
  BY DEF IInv, SpineInv, KeysStand, KeysAdmitOnce
<1>. QED  BY <1>1, InitIInv, StepIInv, PTL DEF Spec

-----------------------------------------------------------------------------
(* Nothing that is still of use is given up                                 *)

(* The event is received, or of no use any more.                            *)
MayDrop(e) == receipt[e] # "none" \/ Obsolete(e)

(* The head consumer that is about to commit has read that its revision was *)
(* not ahead of the branch; if the version it compares has moved on since,  *)
(* then because of a newer revision or of another delivery of its event.    *)
HeadReadStands(r) ==
    pc[r] = "commit" /\ handling[r].type = "RunManifestFrozen" =>
        /\ handling[r].seq <= branch[handling[r].branch].current
        /\ branch[handling[r].branch].version # seen[r] => MayDrop(handling[r])

GivesUpRightly(r) ==
    /\ pc[r] = "terminalize" => MayDrop(handling[r])
    /\ HeadReadStands(r)

DropInv == NoLiveEventIsDropped /\ \A r \in Relays : GivesUpRightly(r)

(* A new version of a branch stands for a new revision, or for the head at  *)
(* the current one.                                                         *)
BranchesMove ==
    \A b \in Branches :
        \/ branch'[b] = branch[b]
        \/ branch'[b].current > branch[b].current
        \/ /\ branch'[b].current = branch[b].current
           /\ branch[b].current \in Revisions
           /\ receipt'[Frozen(b, branch[b].current)] # "none"

LEMMA SpineStepMovesBranches ==
  ASSUME IInv, SpineStep
  PROVE  BranchesMove
<1>0. InRange /\ \A c \in Clients : ClientIsFresh(c)
  BY DEF IInv
<1>1. ASSUME NEW c \in Clients, CommitAdmission(c) PROVE BranchesMove
  <2>1. PICK b \in Branches : /\ branch'[b].current = branch[b].current + 1
                              /\ \A d \in Branches \ {b} : branch'[d] = branch[d]
    BY <1>0, <1>1, CommitAdmissionEffect
  <2>. QED  BY <1>0, <2>1, Numbers DEF BranchesMove
<1>2. ASSUME NEW b \in Branches, NEW s \in Revisions, NEW version \in Nat, AdvanceHead(b, s, version)
      PROVE  BranchesMove
  BY <1>0, <1>2, AdvanceHeadEffect DEF BranchesMove
<1>3. ASSUME UNCHANGED branch PROVE BranchesMove
  BY <1>3 DEF BranchesMove
<1>. QED
  BY <1>1, <1>2, <1>3 DEF SpineStep, SpineUnmoved, Materialize, Record, CloseCycle, spineVars

LEMMA ClosedStays ==
  ASSUME IInv, SpineStep, closed
  PROVE  closed'
BY ClosedIsSealed

LEMMA RevokedStays ==
  ASSUME [Next]_vars, revoked
  PROVE  revoked'
<1>1. ASSUME NEW r \in Relays, DrainStep(r) \/ DisturbedStep(r) PROVE UNCHANGED revoked
  <2>1. Transaction(r) => UNCHANGED revoked
    BY DEF Transaction, Materialize, AdvanceHead, Record, spineVars
  <2>. QED  BY <1>1, <2>1 DEF DrainStep, DisturbedStep, ClaimPi, ClaimEf, Deliver, DrainEnds,
       ReadReceipt, ReadMaterializationAuthority, ReadHeadAuthority, ReadAcknowledgementAuthority,
       Commit, CommitRefused, MarkOutboxDelivered, MarkOutboxTerminal, ReleaseOutbox, Settle,
       Answer, CommitAnswerLost, SerializationFails, Fault, TerminalMarkFails, ReleaseFails, Crash,
       storeVars, spineVars
<1>2. RequestStep => UNCHANGED revoked
  BY DEF RequestStep, AdmissionStep, ClosureStep, ReadBranch, ReplayAdmission, RefuseAdmission,
     CommitAdmission, EvaluateReadiness, CloseCycle, RefuseClosure, spineVars
<1>3. LeaseStep => UNCHANGED revoked
  BY DEF LeaseStep, AbandonedLeaseExpires, LateLeaseExpires, ExpireLease, spineVars
<1>4. ReadinessRevoked => revoked'
  BY DEF ReadinessRevoked, RevokeReadiness
<1>. QED  BY <1>1, <1>2, <1>3, <1>4 DEF Next, vars, storeVars, spineVars

(* What may be dropped once may be dropped for ever.                        *)
LEMMA MayDropStays ==
  ASSUME IInv, Monotone, SpineStep, revoked => revoked', SpineTypeOK',
         NEW e \in Events, MayDrop(e)
  PROVE  MayDrop(e)'
<1>0. InRange /\ SpineTypeOK
  BY DEF IInv, InRange, TypeOK
<1>1. CASE receipt[e] # "none"
  BY <1>1 DEF MayDrop, Monotone
<1>2. CASE closed
  BY <1>2, ClosedStays DEF MayDrop, Obsolete
<1>3. CASE e.type = "WorkOrderRevisionAdmitted" /\ revoked
  BY <1>3 DEF MayDrop, Obsolete
<1>4. CASE /\ e.type = "RunManifestFrozen"
           /\ Newer(e.branch, e.seq) \/ branch[e.branch].version >= MaxCounter
  <2>1. e.branch \in Branches /\ e.seq \in Revisions
    BY <1>4, EventCases
  <2>2. /\ branch[e.branch].current \in Int /\ branch'[e.branch].current \in Int /\ e.seq \in Int
        /\ branch[e.branch].version \in Int /\ branch'[e.branch].version \in Int
        /\ MaxCounter \in Int
    BY <1>0, <2>1, SpineAssumption DEF SpineTypeOK, Branch, Revisions
  <2>3. /\ branch'[e.branch].current >= branch[e.branch].current
        /\ branch'[e.branch] = branch[e.branch] \/ branch'[e.branch].version > branch[e.branch].version
    BY <2>1 DEF Monotone
  <2>4. /\ Newer(e.branch, e.seq) => branch'[e.branch].current > e.seq
        /\ branch[e.branch].version >= MaxCounter => branch'[e.branch].version >= MaxCounter
    BY <2>2, <2>3 DEF Newer
  <2>. QED  BY <1>4, <2>4 DEF MayDrop, Obsolete, Newer
<1>. QED  BY <1>1, <1>2, <1>3, <1>4 DEF MayDrop, Obsolete

(* A relay that does not move keeps its grounds.                            *)
LEMMA StillRight ==
  ASSUME IInv, Monotone, SpineStep, BranchesMove, revoked => revoked', SpineTypeOK',
         NEW q \in Relays, GivesUpRightly(q),
         pc'[q] = pc[q], handling'[q] = handling[q], seen'[q] = seen[q]
  PROVE  GivesUpRightly(q)'
<1>0. InRange /\ RelayInRange(q)
  BY DEF IInv, InRange
<1>1. ASSUME handling[q] \in Events, MayDrop(handling[q])  PROVE MayDrop(handling[q])'
  BY <1>1, MayDropStays DEF MayDrop, Obsolete, Newer
<1>2. pc'[q] = "terminalize" => MayDrop(handling[q])'
  BY <1>0, <1>1 DEF GivesUpRightly, RelayInRange, Delivering
<1>3. HeadReadStands(q)'
  <2>. SUFFICES ASSUME pc[q] = "commit", handling[q].type = "RunManifestFrozen"
                PROVE  /\ handling[q].seq <= branch'[handling[q].branch].current
                       /\ branch'[handling[q].branch].version # seen[q] => MayDrop(handling[q])'
    BY DEF HeadReadStands, MayDrop, Obsolete, Newer
  <2>. DEFINE b == handling[q].branch
              s == handling[q].seq
  <2>1. handling[q] \in Events /\ b \in Branches /\ s \in Revisions /\ handling[q] = Frozen(b, s)
    BY <1>0, EventCases DEF RelayInRange, Delivering
  <2>2. s <= branch[b].current /\ (branch[b].version # seen[q] => MayDrop(handling[q]))
    BY DEF GivesUpRightly, HeadReadStands
  <2>3. branch[b].current \in Int /\ branch'[b].current \in Int /\ s \in Int
    BY <1>0, <2>1, SpineAssumption DEF InRange, TypeOK, SpineTypeOK, Branch, Revisions
  <2>4. branch'[b].current >= branch[b].current
    BY <2>1 DEF Monotone
  <2>5. s <= branch'[b].current
    BY <2>2, <2>3, <2>4
  <2>6. CASE branch'[b] = branch[b]
    BY <1>1, <2>1, <2>2, <2>5, <2>6
  <2>7. CASE branch'[b].current > s
    <3>1. MayDrop(handling[q])'
      BY <2>7 DEF MayDrop, Obsolete, Newer
    <3>. QED  BY <2>5, <3>1
  <2>8. CASE branch[b].current = s /\ receipt'[Frozen(b, branch[b].current)] # "none"
    <3>1. MayDrop(handling[q])'
      BY <2>1, <2>8 DEF MayDrop
    <3>. QED  BY <2>5, <3>1
  <2>. QED  BY <2>1, <2>2, <2>3, <2>6, <2>7, <2>8 DEF BranchesMove
<1>. QED  BY <1>2, <1>3 DEF GivesUpRightly

(* A decision of a consumer that is final has a reason that lasts.          *)
LEMMA RefusalIsRight ==
  ASSUME IInv, NEW r \in Relays, GivesUpRightly(r), Refused(r)
  PROVE  MayDrop(handling[r])
<1>. DEFINE e == handling[r]
<1>0. InRange /\ SpineInv /\ e \in Events
  BY DEF IInv, InRange, RelayInRange, Refused, Delivering
<1>1. CASE e.type = "WorkOrderRevisionAdmitted" /\ MaterializationRefused(e.branch, e.seq)
  <2>1. e.branch \in Branches /\ e.seq \in Revisions /\ e = Admitted(e.branch, e.seq)
    BY <1>0, <1>1, EventCases
  <2>2. <<e.branch, e.seq>> \in runs => receipt[e] # "none"
    BY <1>0, <2>1 DEF SpineInv, RevisionStands
  <2>. QED  BY <1>1, <2>2 DEF MaterializationRefused, MayDrop, Obsolete
<1>2. CASE /\ pc[r] = "commit" /\ e.type = "RunManifestFrozen"
           /\ HeadAdvanceRefused(e.branch, e.seq, seen[r])
  <2>1. e.branch \in Branches /\ e.seq \in Revisions /\ e = Frozen(e.branch, e.seq)
    BY <1>0, <1>2, EventCases
  <2>2. /\ e.seq <= branch[e.branch].current
        /\ branch[e.branch].version # seen[r] => MayDrop(e)
    BY <1>2 DEF GivesUpRightly, HeadReadStands
  <2>3. branch[e.branch].current # e.seq => Newer(e.branch, e.seq)
    BY <1>0, <2>1, <2>2, Numbers DEF Newer, Revisions
  <2>. QED  BY <1>2, <2>1, <2>2, <2>3 DEF HeadAdvanceRefused, MayDrop, Obsolete
<1>3. CASE RecordRefused(e) \/ ~ ReceiptAllows(e, "processed")
  BY <1>3 DEF RecordRefused, ReceiptAllows, MayDrop
<1>. QED  BY <1>1, <1>2, <1>3 DEF Refused

(* The relay that moves, with the same event.                               *)
LEMMA MovedRightly ==
  ASSUME IInv, DropInv, Monotone, SpineStep, BranchesMove, revoked => revoked', SpineTypeOK',
         NEW r \in Relays, NEW label \in Labels, Goto(r, label),
         \A q \in Relays \ {r} : handling'[q] = handling[q] /\ seen'[q] = seen[q],
         label = "terminalize" => handling'[r] \in Events /\ MayDrop(handling[r])',
         label = "commit" => HeadReadStands(r)'
  PROVE  \A q \in Relays : GivesUpRightly(q)'
<1>0. TypeOK
  BY DEF IInv, InRange
<1>1. pc'[r] = label /\ \A q \in Relays \ {r} : pc'[q] = pc[q]
  BY <1>0, GotoInRange
<1>2. \A q \in Relays \ {r} : GivesUpRightly(q)'
  BY <1>1, StillRight DEF DropInv
<1>3. GivesUpRightly(r)'
  BY <1>1 DEF GivesUpRightly, HeadReadStands, MayDrop, Obsolete, Newer
<1>. QED  BY <1>2, <1>3

(* The decision of the head consumer.                                       *)
LEMMA HeadDecisionIsRight ==
  ASSUME IInv, NEW r \in Relays, ReadHeadAuthority(r)
  PROVE  /\ pc'[r] = "terminalize" => MayDrop(handling[r])
         /\ HeadReadStands(r)'
<1>0. InRange /\ TypeOK /\ RelayInRange(r)
  BY DEF IInv, InRange
<1>. DEFINE b == handling[r].branch
            s == handling[r].seq
<1>1. b \in Branches /\ s \in Revisions /\ handling[r].type = "RunManifestFrozen"
  BY <1>0, EventCases DEF ReadHeadAuthority, RelayInRange, Delivering
<1>2. HeadDecision(b, s) \in Labels
  BY DEF HeadDecision, Labels
<1>3. pc'[r] = HeadDecision(b, s)
  BY <1>0, <1>2, GotoInRange DEF ReadHeadAuthority
<1>4. UNCHANGED <<branch, receipt, closed, revoked, handling>> /\ seen'[r] = branch[b].version
  BY <1>0 DEF ReadHeadAuthority, TypeOK, storeVars, spineVars, integrationVars
<1>5. HeadDecision(b, s) = "terminalize" => closed \/ branch[b].version >= MaxCounter
  BY DEF HeadDecision
<1>6. HeadDecision(b, s) = "commit" => s <= branch[b].current
  BY <1>0, <1>1, Numbers DEF HeadDecision, Revisions
<1>7. pc'[r] = "terminalize" => MayDrop(handling[r])
  BY <1>1, <1>3, <1>5 DEF MayDrop, Obsolete
<1>8. HeadReadStands(r)'
  BY <1>3, <1>4, <1>6 DEF HeadReadStands
<1>. QED  BY <1>7, <1>8

LEMMA RelaysGiveUpRightly ==
  ASSUME IInv, DropInv, Monotone, SpineStep, [Next]_vars, SpineTypeOK',
         "serialization" \notin Disturbances
  PROVE  \A q \in Relays : GivesUpRightly(q)'
<1>. DEFINE Right == \A q \in Relays : GivesUpRightly(q)'
<1>0. InRange /\ TypeOK /\ BranchesMove /\ (revoked => revoked')
  BY SpineStepMovesBranches, RevokedStays DEF IInv, InRange
<1>1. ASSUME UNCHANGED <<pc, handling, seen>> PROVE Right
  BY <1>0, <1>1, StillRight DEF DropInv
<1>2. ASSUME NEW r \in Relays, NEW label \in Labels \ {"terminalize", "commit"}, Goto(r, label),
             \A q \in Relays \ {r} : handling'[q] = handling[q] /\ seen'[q] = seen[q]
      PROVE  Right
  BY <1>0, <1>2, MovedRightly
<1>3. ASSUME NEW r \in Relays,
             \/ ClaimPi(r) \/ ClaimEf(r) \/ DrainEnds(r)
             \/ ReadReceipt(r) /\ ~ Goto(r, "commit")
             \/ ReadAcknowledgementAuthority(r) /\ ~ Goto(r, "commit")
             \/ Commit(r) \/ CommitAnswerLost(r) \/ Fault(r) \/ TerminalMarkFails(r)
      PROVE  Right
  <2>1. \E label \in Labels \ {"terminalize", "commit"} : Goto(r, label)
    BY <1>3 DEF ClaimPi, ClaimEf, DrainEnds, ReadReceipt, ReadAcknowledgementAuthority, Answer,
       Commit, CommitAnswerLost, Fault, TerminalMarkFails, Labels
  <2>2. UNCHANGED <<handling, seen>>
    BY <1>3 DEF ClaimPi, ClaimEf, DrainEnds, ReadReceipt, ReadAcknowledgementAuthority, Answer,
       Commit, CommitAnswerLost, Fault, TerminalMarkFails
  <2>. QED  BY <1>2, <2>1, <2>2
<1>4. ASSUME NEW r \in Relays,
             \/ MarkOutboxDelivered(r) \/ MarkOutboxTerminal(r) \/ ReleaseOutbox(r)
             \/ ReleaseFails(r) \/ Crash(r)
      PROVE  Right
  <2>1. \E label \in {"deliver", "claim"} : Goto(r, label)
    BY <1>4 DEF MarkOutboxDelivered, MarkOutboxTerminal, ReleaseOutbox, Settle, ReleaseFails, Crash
  <2>2. handling' = [handling EXCEPT ![r] = None] /\ UNCHANGED seen
    BY <1>4 DEF MarkOutboxDelivered, MarkOutboxTerminal, ReleaseOutbox, Settle, ReleaseFails, Crash
  <2>3. \A q \in Relays \ {r} : handling'[q] = handling[q] /\ seen'[q] = seen[q]
    BY <1>0, <2>2 DEF TypeOK
  <2>. QED  BY <1>2, <2>1, <2>3 DEF Labels
<1>5. ASSUME NEW r \in Relays, Deliver(r) PROVE Right
  <2>1. PICK e \in claims[r] : handling' = [handling EXCEPT ![r] = e] /\ Goto(r, "receipt")
    BY <1>5 DEF Deliver
  <2>2. UNCHANGED seen /\ \A q \in Relays \ {r} : handling'[q] = handling[q]
    BY <1>0, <1>5, <2>1 DEF Deliver, TypeOK
  <2>. QED  BY <1>2, <2>1, <2>2 DEF Labels
<1>6. ASSUME NEW r \in Relays, ReadMaterializationAuthority(r) PROVE Right
  <2>1. /\ Goto(r, IF closed \/ revoked THEN "terminalize" ELSE "commit")
        /\ UNCHANGED <<receipt, closed, revoked, branch, handling, seen>>
        /\ handling[r].type = "WorkOrderRevisionAdmitted"
    BY <1>6 DEF ReadMaterializationAuthority, Answer, storeVars, spineVars, integrationVars
  <2>2. handling[r] \in Events
    BY <1>0, <1>6 DEF ReadMaterializationAuthority, InRange, RelayInRange, Delivering
  <2>3. closed \/ revoked => MayDrop(handling[r])'
    BY <2>1 DEF MayDrop, Obsolete
  <2>4. HeadReadStands(r)'
    BY <2>1 DEF HeadReadStands
  <2>5. PICK label \in {"terminalize", "commit"} :
           Goto(r, label) /\ (label = "terminalize" => closed \/ revoked)
    BY <2>1
  <2>. QED  BY <1>0, <2>1, <2>2, <2>3, <2>4, <2>5, MovedRightly DEF Labels
<1>7. ASSUME NEW r \in Relays, ReadHeadAuthority(r) PROVE Right
  <2>1. PICK label \in Labels : Goto(r, label)
    BY <1>7 DEF ReadHeadAuthority, HeadDecision, Labels
  <2>2. pc'[r] = label
    BY <1>0, <2>1, GotoInRange
  <2>3. handling[r] \in Events /\ UNCHANGED <<handling, receipt, closed, revoked, branch>>
    BY <1>0, <1>7 DEF ReadHeadAuthority, InRange, RelayInRange, Delivering, storeVars, spineVars,
       integrationVars
  <2>4. label = "terminalize" => MayDrop(handling[r])'
    BY <1>7, <2>2, <2>3, HeadDecisionIsRight DEF MayDrop, Obsolete, Newer
  <2>5. HeadReadStands(r)'
    BY <1>7, HeadDecisionIsRight
  <2>6. \A q \in Relays \ {r} : handling'[q] = handling[q] /\ seen'[q] = seen[q]
    BY <1>0, <1>7 DEF ReadHeadAuthority, TypeOK
  <2>. QED  BY <1>0, <2>1, <2>3, <2>4, <2>5, <2>6, MovedRightly
<1>8. ASSUME NEW r \in Relays, ReadReceipt(r) \/ ReadAcknowledgementAuthority(r), Goto(r, "commit")
      PROVE  Right
  <2>0. pc'[r] = "commit"
    BY <1>0, <1>8, GotoInRange DEF Labels
  <2>1. handling[r].type # "RunManifestFrozen" /\ UNCHANGED <<handling, seen>>
    <3>1. CASE ReadReceipt(r)
      <4>1. PICK label \in Labels : Answer(r, label) /\ (label = "commit" => handling[r] = CycleClosed)
        BY <3>1 DEF ReadReceipt, Labels
      <4>2. label = "commit"
        BY <1>0, <2>0, <4>1, GotoInRange DEF Answer
      <4>. QED  BY <4>1, <4>2 DEF Answer, CycleClosed
    <3>2. CASE ReadAcknowledgementAuthority(r)
      BY <3>2 DEF ReadAcknowledgementAuthority, Answer
    <3>. QED  BY <1>8, <3>1, <3>2
  <2>2. HeadReadStands(r)'
    BY <2>1 DEF HeadReadStands
  <2>. QED  BY <1>0, <1>8, <2>1, <2>2, MovedRightly DEF Labels
<1>9. ASSUME NEW r \in Relays, CommitRefused(r) PROVE Right
  <2>1. /\ Goto(r, "terminalize") \/ Goto(r, "release")
        /\ UNCHANGED <<receipt, closed, revoked, branch, handling, seen>>
    BY <1>9 DEF CommitRefused, Answer, storeVars, spineVars, integrationVars
  <2>2. MayDrop(handling[r]) /\ handling[r] \in Events
    BY <1>0, <1>9, RefusalIsRight
       DEF CommitRefused, DropInv, Refused, InRange, RelayInRange, Delivering
  <2>3. MayDrop(handling[r])'
    BY <2>1, <2>2 DEF MayDrop, Obsolete, Newer
  <2>. QED  BY <1>0, <2>1, <2>2, <2>3, MovedRightly DEF Labels
<1>10. ASSUME NEW r \in Relays PROVE ~ SerializationFails(r)
  BY DEF SerializationFails, Disturb
<1>11. RequestStep \/ LeaseStep \/ ReadinessRevoked \/ UNCHANGED vars
         => UNCHANGED <<pc, handling, seen>>
  BY DEF RequestStep, LeaseStep, AbandonedLeaseExpires, LateLeaseExpires, ExpireLease,
     ReadinessRevoked, relayVars, vars
<1>12. ASSUME NEW r \in Relays, DrainStep(r) \/ DisturbedStep(r) PROVE Right
  BY <1>3, <1>4, <1>5, <1>6, <1>7, <1>8, <1>9, <1>10, <1>12 DEF DrainStep, DisturbedStep
<1>. QED  BY <1>1, <1>11, <1>12 DEF Next

(* A row becomes terminal only by the mark of a relay.                      *)
LEMMA TerminalRows ==
  ASSUME IInv, [Next]_vars, NEW e \in Events,
         outbox'[e].status = "terminal", outbox[e].status # "terminal"
  PROVE  \E r \in Relays : pc[r] = "terminalize" /\ handling[r] = e
<1>0. TypeOK /\ InRange /\ SpineTypeOK
  BY DEF IInv, InRange, TypeOK
<1>1. outbox' # outbox
  OBVIOUS
<1>2. ASSUME NEW d \in Events, Emit(d) PROVE FALSE
  BY <1>0, <1>2 DEF Emit, PendingRow, SpineTypeOK
<1>3. ASSUME RequestStep PROVE FALSE
  <2>1. ASSUME NEW c \in Clients, CommitAdmission(c) PROVE FALSE
    <3>1. Admitted(client[c].branch, client[c].current + 1) \in Events
      <4>1. /\ client[c].branch \in Branches /\ client[c].current < MaxRevisions
            /\ client[c].current \in Nat
        BY <1>0, <2>1 DEF CommitAdmission, InRange, ClientInRange, SpineTypeOK, Client
      <4>2. client[c].current + 1 \in Revisions
        BY <4>1, SpineAssumption DEF Revisions
      <4>. QED  BY <4>1, <4>2, EventTypes
    <3>. QED  BY <1>2, <2>1, <3>1 DEF CommitAdmission
  <2>2. CycleClosed \in Events
    BY DEF Events, PiEvents
  <2>. QED  BY <1>1, <1>2, <1>3, <2>1, <2>2 DEF RequestStep, AdmissionStep, ClosureStep, ReadBranch,
               ReplayAdmission, RefuseAdmission, EvaluateReadiness, CloseCycle, RefuseClosure,
               integrationVars
<1>4. ASSUME NEW r \in Relays, Transaction(r) PROVE FALSE
  BY <1>0, <1>1, <1>2, <1>4, TransactionCases, EventTypes DEF Materialize, AdvanceHead, Record
<1>5. ASSUME NEW r \in Relays, ClaimPi(r) \/ ClaimEf(r) PROVE FALSE
  <2>1. PICK domain \in {PiEvents, EfEvents} : ClaimOutbox(r, domain)
    BY <1>5 DEF ClaimPi, ClaimEf
  <2>. QED  BY <2>1 DEF ClaimOutbox
<1>6. ASSUME NEW r \in Relays, MarkOutboxDelivered(r) \/ ReleaseOutbox(r) PROVE FALSE
  BY <1>0, <1>6 DEF MarkOutboxDelivered, ReleaseOutbox, Settle, PendingRow, SpineTypeOK
<1>7. ASSUME NEW r \in Relays, MarkOutboxTerminal(r) PROVE pc[r] = "terminalize" /\ handling[r] = e
  BY <1>0, <1>7 DEF MarkOutboxTerminal, Settle, SpineTypeOK
<1>8. LeaseStep => FALSE
  BY <1>0 DEF LeaseStep, AbandonedLeaseExpires, LateLeaseExpires, ExpireLease, SpineTypeOK, OutboxRow
<1>9. ASSUME NEW r \in Relays, DrainStep(r) \/ DisturbedStep(r), ~ MarkOutboxTerminal(r) PROVE FALSE
  BY <1>1, <1>4, <1>5, <1>6, <1>9 DEF DrainStep, DisturbedStep, Deliver, DrainEnds,
     ReadReceipt, ReadMaterializationAuthority, ReadHeadAuthority, ReadAcknowledgementAuthority,
     Commit, CommitAnswerLost, CommitRefused, Answer, SerializationFails, Fault,
     TerminalMarkFails, ReleaseFails, Crash, storeVars, integrationVars
<1>. QED  BY <1>1, <1>3, <1>7, <1>8, <1>9 DEF Next, ReadinessRevoked, RevokeReadiness, vars,
             storeVars, integrationVars

LEMMA StepDrops ==
  ASSUME IInv, DropInv, [Next]_vars, "serialization" \notin Disturbances
  PROVE  DropInv'
<1>1. SpineStep /\ SpineTypeOK' /\ Monotone /\ (revoked => revoked')
  BY StepIsSpineStep, StepInRange, SpineStepIsMonotone, RevokedStays DEF IInv, InRange, TypeOK
<1>2. \A q \in Relays : GivesUpRightly(q)'
  BY <1>1, RelaysGiveUpRightly
<1>3. ASSUME NEW e \in Events, MayDrop(e)  PROVE MayDrop(e)'
  BY <1>1, <1>3, MayDropStays
<1>4. ASSUME NEW e \in Events, outbox'[e].status = "terminal"  PROVE MayDrop(e)'
  <2>1. CASE outbox[e].status = "terminal"
    BY <1>3, <2>1 DEF DropInv, NoLiveEventIsDropped, MayDrop
  <2>2. CASE outbox[e].status # "terminal"
    <3>1. MayDrop(e)
      BY <1>4, <2>2, TerminalRows DEF DropInv, GivesUpRightly
    <3>. QED  BY <1>3, <3>1
  <2>. QED  BY <2>1, <2>2
<1>5. NoLiveEventIsDropped'
  BY <1>4 DEF NoLiveEventIsDropped, MayDrop
<1>. QED  BY <1>2, <1>5 DEF DropInv

LEMMA InitDrops == Init => DropInv
BY DEF Init, SpineInit, NoRow, DropInv, NoLiveEventIsDropped, GivesUpRightly, HeadReadStands

(* No relay gives up an event that is still of use and was not received:    *)
(* whatever it had read, and whoever overtook it, its reason to terminalize *)
(* the row still holds when it does.  The hypothesis leaves out one thing,  *)
(* a transaction that gives up after its last serialization failure: the    *)
(* repositories report it like a conflict, and then it is not true.         *)
THEOREM LiveEventsAreKept ==
  ASSUME "serialization" \notin Disturbances
  PROVE  Spec => []NoLiveEventIsDropped
<1>1. Init => IInv /\ DropInv
  BY InitIInv, InitDrops
<1>2. IInv /\ DropInv /\ [Next]_vars => (IInv /\ DropInv)'
  BY StepIInv, StepDrops
<1>3. DropInv => NoLiveEventIsDropped
  BY DEF DropInv
<1>. QED  BY <1>1, <1>2, <1>3, PTL DEF Spec

-----------------------------------------------------------------------------
(* The spine implements the revision pipeline                               *)

Stages == [v \in Branches \X Revisions |-> StageOf(v[1], v[2])]

LEMMA StageAt ==
  ASSUME NEW b \in Branches, NEW s \in Revisions
  PROVE  Stages[<<b, s>>] = StageOf(b, s) /\ Stages'[<<b, s>>] = StageOf(b, s)'
BY DEF Stages

LEMMA KnownRevisions ==
  ASSUME InRange, NEW b \in Branches, NEW s \in Revisions
  PROVE  Pipeline!Known(b, s) <=> s <= branch[b].current
<1>1. s \in Int /\ branch[b].current \in Int
  BY Numbers, SpineAssumption DEF Revisions
<1>2. StageOf(b, s) # "unknown" <=> ~ (s > branch[b].current)
  BY DEF StageOf
<1>. QED  BY <1>1, <1>2, StageAt DEF Pipeline!Known, Stages

(* The newest known revision of a branch is its current one.                *)
LEMMA NewestRevision ==
  ASSUME InRange, NEW b \in Branches, NEW s \in Revisions
  PROVE  Pipeline!Newest(b, s) <=> s = branch[b].current
<1>1. /\ branch[b].current \in Nat
      /\ branch[b].current # 0 => branch[b].current \in Revisions
      /\ \A t \in Revisions : t \in Nat /\ t # 0
  BY Numbers, SpineAssumption DEF Revisions
<1>2. Pipeline!Newest(b, s) <=>
        s <= branch[b].current /\ \A t \in Revisions : t > s => ~ (t <= branch[b].current)
  BY KnownRevisions DEF Pipeline!Newest, Revisions
<1>3. ASSUME s <= branch[b].current, s # branch[b].current
      PROVE  \E t \in Revisions : t > s /\ t <= branch[b].current
  <2>1. branch[b].current > s /\ branch[b].current \in Revisions
    BY <1>1, <1>3
  <2>. QED  BY <1>1, <2>1
<1>4. ASSUME s = branch[b].current, NEW t \in Revisions, t > s
      PROVE  ~ (t <= branch[b].current)
  BY <1>1, <1>4
<1>5. s = branch[b].current => s <= branch[b].current
  BY <1>1
<1>. QED  BY <1>2, <1>3, <1>4, <1>5

LEMMA PipelineMove ==
  ASSUME NEW b \in Branches, NEW s \in Revisions, NEW from, NEW to,
         StageOf(b, s) = from, StageOf(b, s)' = to, UNCHANGED closed,
         \A d \in Branches, t \in Revisions :
            ~ (d = b /\ t = s) => StageOf(d, t)' = StageOf(d, t)
  PROVE  Pipeline!Move(b, s, from, to)
<1>1. Stages[<<b, s>>] = from
  BY StageAt
<1>2. Stages' = [Stages EXCEPT ![<<b, s>>] = to]
  <2>1. Stages' = [v \in Branches \X Revisions |-> StageOf(v[1], v[2])']
    BY DEF Stages
  <2>2. ASSUME NEW v \in Branches \X Revisions
        PROVE  StageOf(v[1], v[2])' = [Stages EXCEPT ![<<b, s>>] = to][v]
    <3>1. PICK d \in Branches, t \in Revisions : v = <<d, t>>
      OBVIOUS
    <3>2. CASE d = b /\ t = s
      BY <3>1, <3>2 DEF Stages
    <3>3. CASE ~ (d = b /\ t = s)
      <4>1. v # <<b, s>> /\ StageOf(d, t)' = StageOf(d, t)
        BY <3>1, <3>3
      <4>2. [Stages EXCEPT ![<<b, s>>] = to][v] = Stages[v]
        BY <4>1 DEF Stages
      <4>. QED  BY <3>1, <4>1, <4>2, StageAt
    <3>. QED  BY <3>2, <3>3
  <2>3. [Stages EXCEPT ![<<b, s>>] = to] =
           [v \in Branches \X Revisions |-> [Stages EXCEPT ![<<b, s>>] = to][v]]
    BY DEF Stages
  <2>. QED  BY <2>1, <2>2, <2>3
<1>. QED  BY <1>1, <1>2 DEF Pipeline!Move, Stages

LEMMA PipelineStays ==
  ASSUME UNCHANGED closed, \A d \in Branches, t \in Revisions : StageOf(d, t)' = StageOf(d, t)
  PROVE  UNCHANGED Pipeline!vars
BY DEF Pipeline!vars

LEMMA InitImplements == Init => Pipeline!Init
<1>. SUFFICES ASSUME Init PROVE Pipeline!Init
  OBVIOUS
<1>1. \A b \in Branches, s \in Revisions : StageOf(b, s) = "unknown"
  BY SpineAssumption DEF Init, SpineInit, StageOf, Revisions
<1>2. Stages = [v \in Branches \X Revisions |-> "unknown"]
  BY <1>1 DEF Stages
<1>. QED  BY <1>2 DEF Pipeline!Init, Pipeline!AllRevisions, Stages, Revisions, Init, SpineInit

LEMMA AdmissionImplements ==
  ASSUME IInv, NEW c \in Clients, CommitAdmission(c)
  PROVE  \E b \in Branches, s \in Revisions : Pipeline!Admit(b, s)
<1>0. InRange /\ SpineInv /\ ClientIsFresh(c)
  BY DEF IInv
<1>1. PICK b \in Branches, s \in Revisions :
        /\ s = branch[b].current + 1 /\ ~ closed
        /\ branch'[b].current = s
        /\ \A d \in Branches \ {b} : branch'[d] = branch[d]
        /\ UNCHANGED <<closed, receipt>>
  BY <1>0, CommitAdmissionEffect
<1>2. branch[b].current \in Nat /\ \A t \in Revisions : t \in Nat
  BY <1>0, Numbers, SpineAssumption DEF Revisions
<1>3. receipt[Admitted(b, s)] = "none"
  <2>1. RevisionStands(b, s) /\ ~ (s <= branch[b].current)
    BY <1>0, <1>1, <1>2 DEF SpineInv
  <2>. QED  BY <2>1 DEF RevisionStands
<1>4. StageOf(b, s) = "unknown" /\ StageOf(b, s)' = "admitted"
  BY <1>1, <1>2, <1>3 DEF StageOf
<1>5. ASSUME NEW d \in Branches, NEW t \in Revisions, ~ (d = b /\ t = s)
      PROVE  StageOf(d, t)' = StageOf(d, t)
  <2>1. t > branch'[d].current <=> t > branch[d].current
    BY <1>1, <1>2, <1>5
  <2>. QED  BY <1>1, <2>1 DEF StageOf
<1>6. \A t \in Revisions : t < s <=> Pipeline!Known(b, t)
  <2>1. \A t \in Revisions : t < s <=> t <= branch[b].current
    BY <1>1, <1>2
  <2>. QED  BY <1>0, <2>1, KnownRevisions
<1>7. Pipeline!Move(b, s, "unknown", "admitted")
  BY <1>1, <1>4, <1>5, PipelineMove
<1>. QED  BY <1>1, <1>6, <1>7 DEF Pipeline!Admit, Revisions

LEMMA MaterializeImplements ==
  ASSUME IInv, NEW b \in Branches, NEW s \in Revisions, Known(Admitted(b, s)), Materialize(b, s)
  PROVE  Pipeline!Freeze(b, s)
<1>0. InRange /\ RevisionStands(b, s) /\ branch[b].current \in Int /\ s \in Int
  BY Numbers, SpineAssumption DEF IInv, SpineInv, Revisions
<1>1. /\ ~ closed /\ <<b, s>> \notin runs
      /\ receipt'[Admitted(b, s)] = "processed"
      /\ \A d \in Events \ {Admitted(b, s)} : receipt'[d] = receipt[d]
      /\ UNCHANGED <<branch, closed>>
  BY <1>0, EventTypes, ReceiveEffect DEF Materialize, MaterializationRefused
<1>2. s <= branch[b].current /\ receipt[Admitted(b, s)] = "none" /\ receipt[Frozen(b, s)] = "none"
  <2>1. receipt[Frozen(b, s)] # "none" => receipt[Admitted(b, s)] = "processed"
    BY <1>0 DEF RevisionStands
  <2>2. receipt[Admitted(b, s)] = "none" /\ s <= branch[b].current
    BY <1>0, <1>1 DEF RevisionStands, Known
  <2>. QED  BY <2>1, <2>2
<1>3. receipt'[Frozen(b, s)] = "none"
  BY <1>1, <1>2, EventTypes, EventsDiffer
<1>4. StageOf(b, s) = "admitted" /\ StageOf(b, s)' = "frozen"
  BY <1>0, <1>1, <1>2, <1>3 DEF StageOf
<1>5. ASSUME NEW d \in Branches, NEW t \in Revisions, ~ (d = b /\ t = s)
      PROVE  StageOf(d, t)' = StageOf(d, t)
  <2>1. /\ receipt'[Admitted(d, t)] = receipt[Admitted(d, t)]
        /\ receipt'[Frozen(d, t)] = receipt[Frozen(d, t)]
        /\ receipt'[Advanced(d, t)] = receipt[Advanced(d, t)]
    BY <1>1, <1>5, EventTypes, EventsDiffer
  <2>. QED  BY <1>1, <2>1 DEF StageOf
<1>6. Pipeline!Move(b, s, "admitted", "frozen")
  BY <1>1, <1>4, <1>5, PipelineMove
<1>. QED  BY <1>1, <1>6 DEF Pipeline!Freeze

LEMMA AdvanceHeadImplements ==
  ASSUME IInv, NEW b \in Branches, NEW s \in Revisions, Known(Frozen(b, s)),
         NEW version \in Nat, AdvanceHead(b, s, version)
  PROVE  Pipeline!BecomeHead(b, s)
<1>0. InRange /\ RevisionStands(b, s) /\ branch[b].current \in Int /\ s \in Int
  BY Numbers, SpineAssumption DEF IInv, SpineInv, Revisions
<1>1. /\ receipt[Frozen(b, s)] = "none" /\ ~ closed /\ branch[b].current = s
      /\ \A d \in Branches : branch'[d].current = branch[d].current
      /\ receipt'[Frozen(b, s)] = "processed"
      /\ \A d \in Events \ {Frozen(b, s)} : receipt'[d] = receipt[d]
      /\ UNCHANGED closed
  BY <1>0, AdvanceHeadEffect
<1>2. receipt[Admitted(b, s)] = "processed" /\ receipt[Advanced(b, s)] = "none"
  <2>1. receipt[Admitted(b, s)] = "processed"
    BY <1>0 DEF RevisionStands, Known
  <2>2. receipt[Advanced(b, s)] = "none"
    BY <1>0, <1>1 DEF RevisionStands
  <2>. QED  BY <2>1, <2>2
<1>3. receipt'[Admitted(b, s)] = "processed" /\ receipt'[Advanced(b, s)] = "none"
  BY <1>1, <1>2, EventTypes, EventsDiffer
<1>4. StageOf(b, s) = "frozen" /\ StageOf(b, s)' = "head"
  BY <1>0, <1>1, <1>2, <1>3 DEF StageOf
<1>5. ASSUME NEW d \in Branches, NEW t \in Revisions, ~ (d = b /\ t = s)
      PROVE  StageOf(d, t)' = StageOf(d, t)
  <2>1. /\ receipt'[Admitted(d, t)] = receipt[Admitted(d, t)]
        /\ receipt'[Frozen(d, t)] = receipt[Frozen(d, t)]
        /\ receipt'[Advanced(d, t)] = receipt[Advanced(d, t)]
    BY <1>1, <1>5, EventTypes, EventsDiffer
  <2>. QED  BY <1>1, <2>1 DEF StageOf
<1>6. Pipeline!Newest(b, s)
  BY <1>0, <1>1, NewestRevision
<1>7. Pipeline!Move(b, s, "frozen", "head")
  BY <1>1, <1>4, <1>5, PipelineMove
<1>. QED  BY <1>1, <1>6, <1>7 DEF Pipeline!BecomeHead

LEMMA IgnoreImplements ==
  ASSUME IInv, NEW b \in Branches, NEW s \in Revisions, Known(Frozen(b, s)),
         s < branch[b].current, Record(Frozen(b, s), "ignored_stale")
  PROVE  Pipeline!Ignore(b, s) \/ UNCHANGED Pipeline!vars
<1>0. InRange /\ RevisionStands(b, s) /\ branch[b].current \in Int /\ s \in Int
  BY Numbers, SpineAssumption DEF IInv, SpineInv, Revisions
<1>1. /\ receipt[Frozen(b, s)] \in {"none", "ignored_stale"}
      /\ receipt'[Frozen(b, s)] = "ignored_stale"
      /\ \A d \in Events \ {Frozen(b, s)} : receipt'[d] = receipt[d]
      /\ UNCHANGED <<branch, closed>>
  BY <1>0, EventTypes, RecordEffect DEF Receipts
<1>2. receipt[Admitted(b, s)] = "processed" /\ receipt'[Admitted(b, s)] = "processed"
  <2>1. receipt[Admitted(b, s)] = "processed"
    BY <1>0 DEF RevisionStands, Known
  <2>. QED  BY <1>1, <2>1, EventTypes, EventsDiffer
<1>3. StageOf(b, s)' = "ignored"
  BY <1>0, <1>1, <1>2 DEF StageOf
<1>4. StageOf(b, s) = IF receipt[Frozen(b, s)] = "none" THEN "frozen" ELSE "ignored"
  BY <1>0, <1>1, <1>2 DEF StageOf
<1>5. ASSUME NEW d \in Branches, NEW t \in Revisions, ~ (d = b /\ t = s)
      PROVE  StageOf(d, t)' = StageOf(d, t)
  <2>1. /\ receipt'[Admitted(d, t)] = receipt[Admitted(d, t)]
        /\ receipt'[Frozen(d, t)] = receipt[Frozen(d, t)]
        /\ receipt'[Advanced(d, t)] = receipt[Advanced(d, t)]
    BY <1>1, <1>5, EventTypes, EventsDiffer
  <2>. QED  BY <1>1, <2>1 DEF StageOf
<1>6. CASE receipt[Frozen(b, s)] = "none"
  <2>1. Pipeline!Move(b, s, "frozen", "ignored")
    BY <1>1, <1>3, <1>4, <1>5, <1>6, PipelineMove
  <2>2. ~ Pipeline!Newest(b, s)
    BY <1>0, NewestRevision
  <2>. QED  BY <2>1, <2>2 DEF Pipeline!Ignore
<1>7. CASE receipt[Frozen(b, s)] # "none"
  <2>1. \A d \in Branches, t \in Revisions : StageOf(d, t)' = StageOf(d, t)
    BY <1>3, <1>4, <1>5, <1>7
  <2>. QED  BY <1>1, <2>1, PipelineStays
<1>. QED  BY <1>6, <1>7

LEMMA AcknowledgeImplements ==
  ASSUME IInv, NEW b \in Branches, NEW s \in Revisions, Known(Advanced(b, s)),
         Record(Advanced(b, s), "processed")
  PROVE  Pipeline!Acknowledge(b, s) \/ UNCHANGED Pipeline!vars
<1>0. InRange /\ RevisionStands(b, s) /\ branch[b].current \in Int /\ s \in Int
  BY Numbers, SpineAssumption DEF IInv, SpineInv, Revisions
<1>1. /\ receipt[Advanced(b, s)] \in {"none", "processed"}
      /\ receipt'[Advanced(b, s)] = "processed"
      /\ \A d \in Events \ {Advanced(b, s)} : receipt'[d] = receipt[d]
      /\ UNCHANGED <<branch, closed>>
  BY <1>0, EventTypes, RecordEffect DEF Receipts
<1>2. /\ receipt[Frozen(b, s)] = "processed" /\ receipt[Admitted(b, s)] = "processed"
      /\ s <= branch[b].current
  <2>1. receipt[Frozen(b, s)] = "processed"
    BY <1>0 DEF RevisionStands, Known
  <2>2. receipt[Admitted(b, s)] = "processed"
    BY <1>0, <2>1 DEF RevisionStands
  <2>3. s <= branch[b].current
    BY <1>0, <2>2 DEF RevisionStands
  <2>. QED  BY <2>1, <2>2, <2>3
<1>3. receipt'[Frozen(b, s)] = "processed" /\ receipt'[Admitted(b, s)] = "processed"
  BY <1>1, <1>2, EventTypes, EventsDiffer
<1>4. /\ StageOf(b, s)' = "acknowledged"
      /\ StageOf(b, s) = IF receipt[Advanced(b, s)] = "none" THEN "head" ELSE "acknowledged"
  BY <1>0, <1>1, <1>2, <1>3 DEF StageOf
<1>5. ASSUME NEW d \in Branches, NEW t \in Revisions, ~ (d = b /\ t = s)
      PROVE  StageOf(d, t)' = StageOf(d, t)
  <2>1. /\ receipt'[Admitted(d, t)] = receipt[Admitted(d, t)]
        /\ receipt'[Frozen(d, t)] = receipt[Frozen(d, t)]
        /\ receipt'[Advanced(d, t)] = receipt[Advanced(d, t)]
    BY <1>1, <1>5, EventTypes, EventsDiffer
  <2>. QED  BY <1>1, <2>1 DEF StageOf
<1>6. CASE receipt[Advanced(b, s)] = "none"
  <2>1. Pipeline!Move(b, s, "head", "acknowledged")
    BY <1>1, <1>4, <1>5, <1>6, PipelineMove
  <2>. QED  BY <2>1 DEF Pipeline!Acknowledge
<1>7. CASE receipt[Advanced(b, s)] # "none"
  <2>1. \A d \in Branches, t \in Revisions : StageOf(d, t)' = StageOf(d, t)
    BY <1>4, <1>5, <1>7
  <2>. QED  BY <1>1, <2>1, PipelineStays
<1>. QED  BY <1>6, <1>7

LEMMA ClosureImplements ==
  ASSUME IInv, CloseCycle
  PROVE  Pipeline!Seal
<1>0. InRange /\ SpineInv /\ EvaluationStands
  BY DEF IInv
<1>1. ~ closed /\ closed' = TRUE /\ UNCHANGED <<branch, receipt>>
  BY DEF CloseCycle
<1>2. PICK b \in Branches : branch[b].current # 0
  <2>1. PICK b \in Branches : watermark[b].current # 0
    BY <1>0 DEF CloseCycle, EvaluationStands
  <2>2. watermark[b].current = branch[b].current
    BY DEF CloseCycle, Watermark
  <2>. QED  BY <2>1, <2>2
<1>3. \E d \in Branches, s \in Revisions : Pipeline!Known(d, s)
  <2>1. branch[b].current \in Revisions /\ branch[b].current <= branch[b].current
    BY <1>0, <1>2, Numbers
  <2>. QED  BY <1>0, <2>1, KnownRevisions
<1>4. ASSUME NEW d \in Branches, NEW s \in Revisions, Pipeline!Newest(d, s)
      PROVE  StageOf(d, s) = "acknowledged"
  <2>1. s = branch[d].current /\ s # 0 /\ ~ (s > branch[d].current) /\ RevisionStands(d, s)
    <3>1. s = branch[d].current /\ s \in Nat /\ s # 0
      BY <1>0, <1>4, NewestRevision, SpineAssumption DEF Revisions
    <3>. QED  BY <1>0, <3>1 DEF SpineInv
  <2>2. HeadMatchesCurrentScope(d)
    BY <2>1 DEF CloseCycle, NoBlocker, AdmittedBranches
  <2>3. receipt[Advanced(d, s)] = "processed"
    BY <2>1, <2>2 DEF HeadMatchesCurrentScope
  <2>4. receipt[Frozen(d, s)] = "processed"
    BY <2>1, <2>3 DEF RevisionStands
  <2>5. receipt[Admitted(d, s)] = "processed"
    BY <2>1, <2>4 DEF RevisionStands
  <2>. QED  BY <2>1, <2>3, <2>4, <2>5 DEF StageOf
<1>5. \A d \in Branches, s \in Revisions :
        Pipeline!Newest(d, s) => Stages[<<d, s>>] = "acknowledged"
  BY <1>4, StageAt
<1>6. Stages' = Stages
  BY <1>1 DEF Stages, StageOf
<1>. QED  BY <1>1, <1>3, <1>5, <1>6 DEF Pipeline!Seal, Revisions, Stages

LEMMA StepImplements ==
  ASSUME IInv, [Next]_vars
  PROVE  [Pipeline!Next]_(Pipeline!vars)
<1>1. SpineStep /\ InRange
  BY StepIsSpineStep DEF IInv
<1>2. CASE SpineUnmoved
  BY <1>2, PipelineStays DEF SpineUnmoved, StageOf
<1>3. ASSUME NEW c \in Clients, CommitAdmission(c) PROVE Pipeline!Next
  BY <1>3, AdmissionImplements DEF Pipeline!Next, Revisions
<1>4. ASSUME NEW b \in Branches, NEW s \in Revisions, Known(Admitted(b, s)), Materialize(b, s)
      PROVE  Pipeline!Next
  BY <1>4, MaterializeImplements DEF Pipeline!Next, Revisions
<1>5. ASSUME NEW b \in Branches, NEW s \in Revisions, Known(Frozen(b, s)),
             NEW version \in Nat, AdvanceHead(b, s, version)
      PROVE  Pipeline!Next
  BY <1>5, AdvanceHeadImplements DEF Pipeline!Next, Revisions
<1>6. ASSUME NEW b \in Branches, NEW s \in Revisions, Known(Frozen(b, s)), s < branch[b].current,
             Record(Frozen(b, s), "ignored_stale")
      PROVE  [Pipeline!Next]_(Pipeline!vars)
  BY <1>6, IgnoreImplements DEF Pipeline!Next, Revisions
<1>7. ASSUME NEW b \in Branches, NEW s \in Revisions, Known(Advanced(b, s)),
             Record(Advanced(b, s), "processed")
      PROVE  [Pipeline!Next]_(Pipeline!vars)
  BY <1>7, AcknowledgeImplements DEF Pipeline!Next, Revisions
<1>8. CASE Record(CycleClosed, "processed")
  <2>1. CycleClosed \in Events /\ "processed" \in Receipts
    BY DEF Events, PiEvents, Receipts
  <2>2. UNCHANGED <<branch, closed>> /\ \A e \in Events \ {CycleClosed} : receipt'[e] = receipt[e]
    BY <1>1, <1>8, <2>1, RecordEffect
  <2>3. ASSUME NEW b \in Branches, NEW s \in Revisions PROVE StageOf(b, s)' = StageOf(b, s)
    <3>1. /\ receipt'[Admitted(b, s)] = receipt[Admitted(b, s)]
          /\ receipt'[Frozen(b, s)] = receipt[Frozen(b, s)]
          /\ receipt'[Advanced(b, s)] = receipt[Advanced(b, s)]
      BY <2>2, EventTypes, EventsDiffer
    <3>. QED  BY <2>2, <3>1 DEF StageOf
  <2>. QED  BY <2>2, <2>3, PipelineStays
<1>9. CASE CloseCycle
  BY <1>9, ClosureImplements DEF Pipeline!Next
<1>. QED  BY <1>1, <1>2, <1>3, <1>4, <1>5, <1>6, <1>7, <1>8, <1>9 DEF SpineStep

(* Behind outboxes, leases, redelivery, crashes and races, every step of    *)
(* the spine is a step of the revision pipeline or none.                    *)
THEOREM SpineImplementsPipeline == Spec => ImplementsPipeline
<1>. QED  BY InitIInv, StepIInv, InitImplements, StepImplements, PTL
          DEF Spec, ImplementsPipeline, Pipeline!Spec
===============================================================================
