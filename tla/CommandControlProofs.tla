-------------------------- MODULE CommandControlProofs --------------------------
(***************************************************************************)
(* Lemmas about the transactions of the store and the steps both workers   *)
(* share: each preserves the types, moves attempts only as the lifecycle   *)
(* allows (SafeStoreStep), extends the log of an attempt by what it does   *)
(* to it (LogMoves), and moves a collection and its collect command        *)
(* together (CollectInv).                                                  *)
(***************************************************************************)
EXTENDS CommandControl, FiniteSetTheorems, SequenceTheorems, TLAPS

(* There are finitely many keys, so command sequence numbers are naturals.  *)
LEMMA KeysFinite == IsFiniteSet(Keys)
<1>1. IsFiniteSet({"submit"}) /\ IsFiniteSet({"sync"}) /\ IsFiniteSet({"reconcile"})
      /\ IsFiniteSet({"collect"})
  BY FS_Singleton
<1>2. WorkerKeys = (({"submit"} \cup {"sync"}) \cup {"reconcile"}) \cup {"collect"}
  BY DEF WorkerKeys
<1>3. IsFiniteSet(WorkerKeys)
  BY <1>1, <1>2, FS_Union
<1>4. IsFiniteSet(WorkerKeys \cup CancelKeys)
  BY <1>3, FS_Union, FiniteKeysAssumption
<1>. QED  BY <1>4, FS_Union, FiniteKeysAssumption DEF Keys

(* Which operation a key stands for.                                        *)
LEMMA OperationOfKey ==
  ASSUME NEW k \in Keys
  PROVE  /\ Operation(k) \in {"submit", "sync", "reconcile", "collect", "cancel"}
         /\ Operation(k) = "cancel" <=> k \in CancelKeys
         /\ Operation(k) = "collect" <=> k = "collect"
         /\ Operation(k) = "submit" <=> k = "submit"
         /\ Operation(k) = "sync" <=> k = "sync"
         /\ WorkerKeys \cap CancelKeys = {}
BY KeysAssumption DEF Operation, Keys, WorkerKeys

LEMMA ReadingType ==
  ASSUME StoreTypeOK, NEW a \in Attempts
  PROVE  ReadingOf(a) \in Reading
<1>1. IsFiniteSet(Present(a))
  BY KeysFinite, FS_Subset DEF Present
<1>2. NextCommandSequence(a) \in Nat
  BY <1>1, FS_CardinalityType DEF NextCommandSequence
<1>3. NextEventSequence(a) \in Nat
  BY DEF NextEventSequence, StoreTypeOK
<1>. QED  BY <1>2, <1>3 DEF ReadingOf, Reading, StoreTypeOK

-----------------------------------------------------------------------------
(* The row images stay in their types.                                      *)

LEMMA CommandTypes ==
  ASSUME NEW command \in Command
  PROVE  /\ \A w \in Workers : Claimed(command, w) \in Command
         /\ \A state \in {"pending", "succeeded", "terminal"},
               error \in {"none", "conflict", "failure", "timeout", "cancelled_before_submit"} :
               Completed(command, state, error) \in Command
BY DEF Command, Claimed, Completed

LEMMA ExpiredType ==
  ASSUME NEW command \in Command
  PROVE  [command EXCEPT !.live = FALSE] \in Command
BY DEF Command

LEMMA NewCommandType == NewCommand \in Command /\ AbsentCommand \in Command
BY DEF Command, NewCommand, AbsentCommand

LEMMA AttemptType ==
  ASSUME NEW attempt \in Attempt, NEW next \in LifecycleStates
  PROVE  Transitioned(attempt, next) \in Attempt
BY DEF Attempt, Transitioned

LEMMA EventTypes ==
  ASSUME NEW k \in Keys \cup {None}
  PROVE  /\ \A prior \in LifecycleStates, next \in LifecycleStates :
               TransitionEvent(prior, next, k) \in Event
         /\ \A state : CollectionEvent(state, k) \in Event
         /\ CreatedEvent \in Event
BY DEF TransitionEvent, CollectionEvent, CreatedEvent, Event, LifecycleStates

(* A valid transition leads from a lifecycle state that is not terminal to  *)
(* a lifecycle state that is not prepared.                                  *)
LEMMA TransitionShape ==
  ASSUME NEW prior, NEW next, <<prior, next>> \in ValidAttemptTransition
  PROVE  /\ prior \in LifecycleStates /\ ~ IsTerminal(prior)
         /\ next \in LifecycleStates \ {"prepared"}
         /\ next = "succeeded" => prior \in {"submitted", "running"}
         /\ next = "submitted" => prior \in {"prepared", "submitted"}
         /\ next = "running" => prior \in {"submitted", "running"}
BY DEF ValidAttemptTransition, LifecycleStates, IsTerminal

-----------------------------------------------------------------------------
(* Every transaction of the store preserves its types.                      *)

LEMMA ClaimCommandsType ==
  ASSUME StoreTypeOK, NEW w \in Workers, NEW S, ClaimCommands(w, S)
  PROVE  StoreTypeOK'
<1>1. commands' \in [Attempts -> [Keys -> Command]]
  BY CommandTypes DEF ClaimCommands, StoreTypeOK
<1>. QED  BY <1>1 DEF ClaimCommands, StoreTypeOK

LEMMA CommitCommandOutcomeType ==
  ASSUME StoreTypeOK, NEW w \in Workers, NEW c \in Claim, NEW sn, NEW read, NEW next, NEW nextKey,
         NEW error \in {"none", "conflict", "failure", "timeout", "cancelled_before_submit"},
         CommitCommandOutcome(w, c, sn, read, next, nextKey, error)
  PROVE  StoreTypeOK'
<1>. DEFINE a == c.attempt
<1>1. a \in Attempts /\ c.key \in Keys
  BY DEF Claim
<1>2. <<attempts[a].state, next>> \in ValidAttemptTransition /\ sn.state = attempts[a].state
  BY DEF CommitCommandOutcome, ValidAttemptUpdate
<1>3. next \in LifecycleStates /\ sn.state \in LifecycleStates
  BY <1>2, TransitionShape
<1>4. attempts' \in [Attempts -> Attempt]
  <2>1. Transitioned(attempts[a], next) \in Attempt
    BY <1>1, <1>3, AttemptType DEF StoreTypeOK
  <2>. QED  BY <2>1, <1>1 DEF CommitCommandOutcome, StoreTypeOK
<1>5. events' \in [Attempts -> Seq(Event)]
  <2>1. TransitionEvent(sn.state, next, c.key) \in Event
    BY <1>1, <1>3, EventTypes
  <2>2. Append(events[a], TransitionEvent(sn.state, next, c.key)) \in Seq(Event)
    BY <2>1, <1>1 DEF StoreTypeOK
  <2>. QED  BY <2>2, <1>1 DEF CommitCommandOutcome, StoreTypeOK
<1>6. commands' \in [Attempts -> [Keys -> Command]]
  BY <1>1, CommandTypes, NewCommandType DEF CommitCommandOutcome, StoreTypeOK
<1>. QED  BY <1>4, <1>5, <1>6 DEF CommitCommandOutcome, StoreTypeOK

LEMMA PrepareCollectionType ==
  ASSUME StoreTypeOK, NEW w \in Workers, NEW c \in Claim, NEW sn, NEW read,
         PrepareCollection(w, c, sn, read)
  PROVE  StoreTypeOK'
<1>. DEFINE a == c.attempt
<1>1. a \in Attempts /\ c.key \in Keys
  BY DEF Claim
<1>2. <<attempts[a].state, "succeeded">> \in ValidAttemptTransition /\ sn.state = attempts[a].state
  BY DEF PrepareCollection, ValidAttemptUpdate
<1>3. sn.state \in LifecycleStates /\ "succeeded" \in LifecycleStates
  BY <1>2, TransitionShape
<1>4. attempts' \in [Attempts -> Attempt]
  <2>1. Transitioned(attempts[a], "succeeded") \in Attempt
    BY <1>1, <1>3, AttemptType DEF StoreTypeOK
  <2>. QED  BY <2>1, <1>1 DEF PrepareCollection, StoreTypeOK
<1>5. events' \in [Attempts -> Seq(Event)]
  <2>. DEFINE t == TransitionEvent(sn.state, "succeeded", c.key)
              p == CollectionEvent("prepared", None)
              e == <<t, p>>
  <2>0. t \in Event /\ p \in Event
    BY <1>1, <1>3, EventTypes
  <2>. HIDE DEF t, p
  <2>1. e \in Seq(Event)
    BY <2>0
  <2>2. events[a] \o e \in Seq(Event)
    BY <2>1, <1>1 DEF StoreTypeOK
  <2>. HIDE DEF e
  <2>3. events' = [events EXCEPT ![a] = @ \o e]
    BY DEF PrepareCollection, e, t, p
  <2>. QED  BY <2>2, <2>3, <1>1 DEF StoreTypeOK
<1>6. commands' \in [Attempts -> [Keys -> Command]]
  BY <1>1, CommandTypes, NewCommandType DEF PrepareCollection, StoreTypeOK
<1>7. collections' \in [Attempts -> CollectionStates]
  BY <1>1 DEF PrepareCollection, StoreTypeOK, CollectionStates
<1>. QED  BY <1>4, <1>5, <1>6, <1>7 DEF StoreTypeOK

LEMMA CommitCollectionCompletionType ==
  ASSUME StoreTypeOK, NEW w \in Workers, NEW c \in Claim, NEW read,
         NEW next \in {"collected", "failed"}, CommitCollectionCompletion(w, c, read, next)
  PROVE  StoreTypeOK'
<1>. DEFINE a == c.attempt
<1>1. a \in Attempts /\ c.key \in Keys
  BY DEF Claim
<1>2. events' \in [Attempts -> Seq(Event)]
  <2>1. Append(events[a], CollectionEvent(next, c.key)) \in Seq(Event)
    BY <1>1, EventTypes DEF StoreTypeOK
  <2>. QED  BY <2>1, <1>1 DEF CommitCollectionCompletion, StoreTypeOK
<1>3. commands' \in [Attempts -> [Keys -> Command]]
  BY <1>1, CommandTypes DEF CommitCollectionCompletion, StoreTypeOK
<1>4. collections' \in [Attempts -> CollectionStates]
  BY <1>1 DEF CommitCollectionCompletion, StoreTypeOK, CollectionStates
<1>. QED  BY <1>2, <1>3, <1>4 DEF CommitCollectionCompletion, StoreTypeOK

LEMMA ReleaseCommandType ==
  ASSUME StoreTypeOK, NEW w \in Workers, NEW c \in Claim, ReleaseCommand(w, c)
  PROVE  StoreTypeOK'
BY CommandTypes DEF ReleaseCommand, StoreTypeOK, Claim

LEMMA TerminalizeCommandType ==
  ASSUME StoreTypeOK, NEW w \in Workers, NEW c \in Claim,
         TerminalizeCommand(w, c, "conflict")
  PROVE  StoreTypeOK'
BY CommandTypes DEF TerminalizeCommand, StoreTypeOK, Claim

LEMMA EnqueueType ==
  ASSUME StoreTypeOK, NEW a \in Attempts, NEW k \in OperatorKeys, NEW sn, NEW read,
         CancelBeforeSubmit(a, k, sn, read) \/ EnqueueIntent(a, k, sn, read)
  PROVE  StoreTypeOK'
<1>0. k \in Keys /\ "submit" \in Keys
  BY DEF OperatorKeys, Keys, WorkerKeys
<1>1. CASE CancelBeforeSubmit(a, k, sn, read)
  <2>1. <<attempts[a].state, "cancelled">> \in ValidAttemptTransition
        /\ sn.state = attempts[a].state
    BY <1>1 DEF CancelBeforeSubmit, ValidAttemptUpdate
  <2>2. sn.state \in LifecycleStates /\ "cancelled" \in LifecycleStates
    BY <2>1, TransitionShape
  <2>3. Transitioned(attempts[a], "cancelled") \in Attempt
    BY <2>2, AttemptType DEF StoreTypeOK
  <2>4. Append(events[a], TransitionEvent(sn.state, "cancelled", k)) \in Seq(Event)
    BY <2>2, <1>0, EventTypes DEF StoreTypeOK
  <2>5. commands' \in [Attempts -> [Keys -> Command]]
    BY <1>1, <1>0, CommandTypes, NewCommandType DEF CancelBeforeSubmit, StoreTypeOK
  <2>. QED  BY <1>1, <2>3, <2>4, <2>5 DEF CancelBeforeSubmit, StoreTypeOK
<1>2. CASE EnqueueIntent(a, k, sn, read)
  BY <1>2, <1>0, NewCommandType DEF EnqueueIntent, StoreTypeOK
<1>. QED  BY <1>1, <1>2

-----------------------------------------------------------------------------
(* The steps both workers share preserve types, and a worker past `take'    *)
(* keeps holding a command.                                                 *)
TypeInv == ControlTypeOK /\ HoldsCommand

LEMMA ProceedType ==
  ASSUME TypeInv, StoreTypeOK', NEW w \in Workers, Proceed(w), UNCHANGED <<requests, boundVars>>
  PROVE  TypeInv'
<1>1. pc' \in [Workers -> Labels] /\ intent' \in [Workers -> Intents]
  BY DEF TypeInv, ControlTypeOK, Proceed, Forget, Goto, Labels, Intents
<1>2. /\ batch' \in [Workers -> SUBSET Claim]
      /\ cur' \in [Workers -> Claim \cup {None}]
      /\ seen' \in [Workers -> Attempt \cup {None}]
      /\ reading' \in [Workers -> Reading \cup {None}]
  BY DEF TypeInv, ControlTypeOK, Proceed, Forget
<1>3. HoldsCommand'
  BY DEF TypeInv, ControlTypeOK, HoldsCommand, Proceed, Forget, Goto
<1>. QED  BY <1>1, <1>2, <1>3 DEF TypeInv, ControlTypeOK, boundVars

LEMMA AbortType ==
  ASSUME TypeInv, StoreTypeOK', NEW w \in Workers, Abort(w), UNCHANGED requests,
         lateLeases' \in Nat, crashes' \in Nat
  PROVE  TypeInv'
<1>1. pc' \in [Workers -> Labels] /\ intent' \in [Workers -> Intents]
  BY DEF TypeInv, ControlTypeOK, Abort, Forget, Goto, Labels, Intents
<1>2. /\ batch' \in [Workers -> SUBSET Claim]
      /\ cur' \in [Workers -> Claim \cup {None}]
      /\ seen' \in [Workers -> Attempt \cup {None}]
      /\ reading' \in [Workers -> Reading \cup {None}]
  BY DEF TypeInv, ControlTypeOK, Abort, Forget
<1>3. HoldsCommand'
  BY DEF TypeInv, ControlTypeOK, HoldsCommand, Abort, Forget, Goto
<1>. QED  BY <1>1, <1>2, <1>3 DEF TypeInv, ControlTypeOK

(* A worker that only moves to another label past `take'.                   *)
LEMMA GotoType ==
  ASSUME TypeInv, StoreTypeOK', NEW w \in Workers,
         NEW label \in Labels, Goto(w, label), cur[w] \in Claim,
         UNCHANGED <<batch, cur, seen, requests, boundVars>>,
         reading' \in [Workers -> Reading \cup {None}], intent' \in [Workers -> Intents]
  PROVE  TypeInv'
<1>1. pc' \in [Workers -> Labels]
  BY DEF TypeInv, ControlTypeOK, Goto
<1>2. HoldsCommand'
  BY DEF TypeInv, ControlTypeOK, HoldsCommand, Goto
<1>. QED  BY <1>1, <1>2 DEF TypeInv, ControlTypeOK, boundVars

LEMMA ClaimsType ==
  ASSUME StoreTypeOK, NEW cancels \in BOOLEAN
  PROVE  ClaimsOf(Ready(cancels)) \in SUBSET Claim
<1>. SUFFICES ASSUME NEW p \in Ready(cancels)
              PROVE  [attempt |-> p[1], key |-> p[2], lease |-> commands[p[1]][p[2]].lease + 1]
                       \in Claim
  BY DEF ClaimsOf
<1>1. p[1] \in Attempts /\ p[2] \in Keys
  BY DEF Ready
<1>2. commands[p[1]][p[2]].lease + 1 \in Nat
  BY <1>1 DEF StoreTypeOK, Command
<1>. QED  BY <1>1, <1>2 DEF Claim

LEMMA ControlStepType ==
  ASSUME TypeInv, NEW w \in Workers, ControlStep(w)
  PROVE  TypeInv'
<1>0. StoreTypeOK
  BY DEF TypeInv, ControlTypeOK
<1>1. CASE ClaimCancellations(w)
  <2>1. StoreTypeOK'
    BY <1>0, <1>1, ClaimCommandsType DEF ClaimCancellations
  <2>2. ClaimsOf(Ready(TRUE)) \in SUBSET Claim
    BY <1>0, ClaimsType
  <2>. QED
    BY <1>1, <2>1, <2>2
       DEF ClaimCancellations, TypeInv, ControlTypeOK, HoldsCommand, Goto, Labels, boundVars
<1>2. CASE ClaimProgressions(w)
  <2>1. StoreTypeOK'
    BY <1>0, <1>2, ClaimCommandsType DEF ClaimProgressions
  <2>2. ClaimsOf(Ready(FALSE)) \in SUBSET Claim
    BY <1>0, ClaimsType
  <2>3. batch' \in [Workers -> SUBSET Claim]
    BY <1>2, <2>2 DEF ClaimProgressions, TypeInv, ControlTypeOK
  <2>4. pc' \in [Workers -> Labels] /\ HoldsCommand'
    BY <1>2 DEF ClaimProgressions, TypeInv, ControlTypeOK, HoldsCommand, Goto, Labels
  <2>. QED
    BY <1>2, <2>1, <2>3, <2>4 DEF ClaimProgressions, TypeInv, ControlTypeOK, boundVars
<1>3. CASE Take(w)
  <2>1. PICK c \in batch[w] :
           /\ cur' = [cur EXCEPT ![w] = c]
           /\ batch' = [batch EXCEPT ![w] = @ \ {c}]
           /\ seen' = [seen EXCEPT ![w] = attempts[c.attempt]]
           /\ \E label \in {"heartbeat", "terminalize"} : Goto(w, label)
    BY <1>3 DEF Take
  <2>2. c \in Claim /\ c.attempt \in Attempts
    BY DEF TypeInv, ControlTypeOK, Claim
  <2>3. attempts[c.attempt] \in Attempt
    BY <1>0, <2>2 DEF StoreTypeOK
  <2>4. /\ cur' \in [Workers -> Claim \cup {None}] /\ cur'[w] \in Claim
        /\ batch' \in [Workers -> SUBSET Claim]
        /\ seen' \in [Workers -> Attempt \cup {None}]
    BY <2>1, <2>2, <2>3 DEF TypeInv, ControlTypeOK
  <2>5. pc' \in [Workers -> Labels] /\ HoldsCommand'
    BY <2>1, <2>4 DEF TypeInv, ControlTypeOK, HoldsCommand, Goto, Labels
  <2>. QED
    BY <1>3, <2>4, <2>5 DEF Take, TypeInv, ControlTypeOK, StoreTypeOK, storeVars, boundVars
<1>4. CASE Heartbeat(w)
  <2>0. StoreTypeOK' /\ UNCHANGED <<requests, boundVars>> /\ cur[w] \in Claim
    BY <1>0, <1>4 DEF Heartbeat, StoreTypeOK, storeVars, TypeInv, HoldsCommand
  <2>1. CASE Goto(w, "dispatch") /\ UNCHANGED <<batch, cur, seen, reading, intent>>
    BY <2>0, <2>1, GotoType DEF Labels, TypeInv, ControlTypeOK
  <2>2. CASE Proceed(w)
    BY <2>0, <2>2, ProceedType
  <2>. QED  BY <1>4, <2>1, <2>2 DEF Heartbeat
<1>5. CASE Release(w)
  <2>0. UNCHANGED <<requests, boundVars>> /\ cur[w] \in Claim
    BY <1>5 DEF Release, TypeInv, HoldsCommand
  <2>1. CASE ReleaseCommand(w, cur[w]) /\ Proceed(w)
    BY <1>0, <2>0, <2>1, ReleaseCommandType, ProceedType
  <2>2. CASE Abort(w) /\ UNCHANGED storeVars
    BY <1>0, <2>0, <2>2, AbortType DEF StoreTypeOK, storeVars, boundVars, TypeInv, ControlTypeOK
  <2>. QED  BY <1>5, <2>1, <2>2 DEF Release
<1>6. CASE Terminalize(w)
  <2>0. UNCHANGED <<requests, boundVars>> /\ cur[w] \in Claim
    BY <1>6 DEF Terminalize, TypeInv, HoldsCommand
  <2>1. CASE TerminalizeCommand(w, cur[w], "conflict") /\ Proceed(w)
    BY <1>0, <2>0, <2>1, TerminalizeCommandType, ProceedType
  <2>2. CASE Abort(w) /\ UNCHANGED storeVars
    BY <1>0, <2>0, <2>2, AbortType DEF StoreTypeOK, storeVars, boundVars, TypeInv, ControlTypeOK
  <2>. QED  BY <1>6, <2>1, <2>2 DEF Terminalize
<1>. QED  BY <1>1, <1>2, <1>3, <1>4, <1>5, <1>6 DEF ControlStep

LEMMA EnvironmentStepType ==
  ASSUME TypeInv, EnvironmentStep
  PROVE  TypeInv'
<1>0. StoreTypeOK
  BY DEF TypeInv, ControlTypeOK
<1>1. ASSUME NEW w \in Workers, Crash(w)  PROVE TypeInv'
  BY <1>0, <1>1, AbortType DEF Crash, StoreTypeOK, storeVars, TypeInv, ControlTypeOK
<1>2. ASSUME NEW a \in Attempts, NEW k \in OperatorKeys, RequestStep(a, k)  PROVE TypeInv'
  <2>1. CASE BeginRequest(a, k) /\ UNCHANGED <<storeVars, workerVars, boundVars>>
    <3>1. [seen |-> attempts[a], read |-> ReadingOf(a)] \in Request
      BY <1>0, ReadingType DEF StoreTypeOK, Request
    <3>2. requests' \in [Attempts -> [OperatorKeys -> Request \cup {None}]]
      BY <2>1, <3>1 DEF BeginRequest, TypeInv, ControlTypeOK
    <3>. QED
      BY <2>1, <3>2 DEF TypeInv, ControlTypeOK, HoldsCommand, StoreTypeOK,
                        storeVars, workerVars, boundVars
  <2>2. CASE EndRequest(a, k) /\ StoreTypeOK' /\ UNCHANGED <<workerVars, boundVars>>
    <3>1. requests' \in [Attempts -> [OperatorKeys -> Request \cup {None}]]
      BY <2>2 DEF EndRequest, TypeInv, ControlTypeOK
    <3>. QED
      BY <2>2, <3>1 DEF TypeInv, ControlTypeOK, HoldsCommand, workerVars, boundVars
  <2>3. CASE CancelExecutionAttempt(a, k)
    BY <2>1, <2>3 DEF CancelExecutionAttempt
  <2>4. CASE ReconcileExecutionAttempt(a, k)
    BY <2>1, <2>4 DEF ReconcileExecutionAttempt
  <2>5. CASE EnqueueControlCommand(a, k)
    BY <1>0, <2>2, <2>5, EnqueueType DEF EnqueueControlCommand
  <2>6. CASE RequestFails(a, k)
    BY <1>0, <2>2, <2>6 DEF RequestFails, StoreTypeOK, storeVars
  <2>. QED  BY <1>2, <2>3, <2>4, <2>5, <2>6 DEF RequestStep
<1>3. ASSUME NEW a \in Attempts, NEW k \in Keys,
             AbandonedLeaseExpires(a, k) \/ LateLeaseExpires(a, k)
      PROVE  TypeInv'
  <2>1. Expire(a, k) /\ lateLeases' \in Nat
    BY <1>3 DEF AbandonedLeaseExpires, LateLeaseExpires, TypeInv, ControlTypeOK
  <2>2. commands' \in [Attempts -> [Keys -> Command]]
    <3>1. [commands[a][k] EXCEPT !.live = FALSE] \in Command
      BY <1>0, ExpiredType DEF StoreTypeOK
    <3>2. [commands[a] EXCEPT ![k] = [commands[a][k] EXCEPT !.live = FALSE]] \in [Keys -> Command]
      BY <1>0, <3>1 DEF StoreTypeOK
    <3>3. commands' = [commands EXCEPT ![a] =
                         [commands[a] EXCEPT ![k] = [commands[a][k] EXCEPT !.live = FALSE]]]
      BY <2>1 DEF Expire
    <3>. QED  BY <1>0, <3>2, <3>3 DEF StoreTypeOK
  <2>. QED
    BY <2>1, <2>2 DEF Expire, TypeInv, ControlTypeOK, HoldsCommand, StoreTypeOK, workerVars
<1>. QED  BY <1>1, <1>2, <1>3 DEF EnvironmentStep

LEMMA ControlInitType ==
  ASSUME ControlInit
  PROVE  TypeInv
<1>1. StoreTypeOK
  <2>1. <<CreatedEvent>> \in Seq(Event)
    BY EventTypes
  <2>2. commands \in [Attempts -> [Keys -> Command]]
    BY NewCommandType DEF ControlInit, StoreInit
  <2>. QED
    BY <2>1, <2>2 DEF ControlInit, StoreInit, StoreTypeOK, Attempt, LifecycleStates, CollectionStates
<1>2. ControlTypeOK
  BY <1>1 DEF ControlInit, ControlTypeOK, Labels, Intents
<1>. QED  BY <1>2 DEF ControlInit, TypeInv, HoldsCommand

-----------------------------------------------------------------------------
(* What a step of the store may do to attempts and to cancel commands.      *)

(* An attempt stays or makes one valid transition, which its version counts.*)
AttemptsMove ==
    \A a \in Attempts :
        \/ attempts'[a] = attempts[a]
        \/ /\ attempts'[a].version = attempts[a].version + 1
           /\ <<attempts[a].state, attempts'[a].state>> \in ValidAttemptTransition

(* An attempt that succeeds now had no active cancel.                       *)
SuccessYields ==
    \A a \in Attempts :
        attempts'[a].state = "succeeded" =>
            \/ attempts[a].state = "succeeded"
            \/ ~ ActiveCancel(a) /\ ~ IsTerminal(attempts[a].state)

(* No cancel is stored for an attempt that succeeded.                       *)
CancelsStored ==
    \A a \in Attempts, k \in CancelKeys :
        commands'[a][k].state # "absent" =>
            commands[a][k].state # "absent" \/ attempts'[a].state # "succeeded"

(* A cancel settles only on an attempt that is finished.                    *)
CancelsSettleLate ==
    \A a \in Attempts, k \in CancelKeys :
        IsSettled(commands[a][k])' => IsSettled(commands[a][k]) \/ IsTerminal(attempts'[a].state)

SafeStoreStep == AttemptsMove /\ SuccessYields /\ CancelsStored /\ CancelsSettleLate

LEMMA UnchangedStoreIsSafe ==
  ASSUME UNCHANGED <<attempts, commands>>
  PROVE  SafeStoreStep
BY DEF SafeStoreStep, AttemptsMove, SuccessYields, CancelsStored, CancelsSettleLate, IsSettled

LEMMA CancelKeysAreKeys == CancelKeys \subseteq Keys /\ CancelKeys \subseteq OperatorKeys
BY DEF Keys, OperatorKeys

(* Steps that leave attempts alone and add or settle no cancel command.     *)
LEMMA CommandStepIsSafe ==
  ASSUME UNCHANGED attempts,
         \A a \in Attempts, k \in CancelKeys :
            /\ commands'[a][k].state # "absent" => commands[a][k].state # "absent"
            /\ IsSettled(commands'[a][k]) =>
                  IsSettled(commands[a][k]) \/ IsTerminal(attempts[a].state)
  PROVE  SafeStoreStep
BY DEF SafeStoreStep, AttemptsMove, SuccessYields, CancelsStored, CancelsSettleLate, IsSettled

LEMMA ClaimCommandsSafe ==
  ASSUME StoreTypeOK, NEW w \in Workers, NEW cancels \in BOOLEAN, ClaimCommands(w, Ready(cancels))
  PROVE  SafeStoreStep
<1>1. ASSUME NEW a \in Attempts, NEW k \in CancelKeys
      PROVE  /\ commands'[a][k].state # "absent" => commands[a][k].state # "absent"
             /\ IsSettled(commands'[a][k]) => IsSettled(commands[a][k])
  <2>0. k \in Keys
    BY CancelKeysAreKeys
  <2>1. CASE <<a, k>> \in Ready(cancels)
    <3>1. commands'[a][k].state = "claimed"
      BY <2>0, <2>1 DEF ClaimCommands, Claimed
    <3>2. commands[a][k].state # "absent"
      BY <2>1 DEF Ready, CommandReady
    <3>. QED  BY <3>1, <3>2 DEF IsSettled
  <2>2. CASE <<a, k>> \notin Ready(cancels)
    BY <2>0, <2>2 DEF ClaimCommands
  <2>. QED  BY <2>1, <2>2
<1>. QED  BY <1>1, CommandStepIsSafe DEF ClaimCommands

LEMMA ReleaseCommandSafe ==
  ASSUME StoreTypeOK, NEW w \in Workers, NEW c \in Claim, ReleaseCommand(w, c)
  PROVE  SafeStoreStep
<1>1. c.attempt \in Attempts /\ c.key \in Keys
  BY DEF Claim
<1>2. ASSUME NEW a \in Attempts, NEW k \in CancelKeys
      PROVE  /\ commands'[a][k].state # "absent" => commands[a][k].state # "absent"
             /\ IsSettled(commands'[a][k]) => IsSettled(commands[a][k])
  <2>1. CASE a = c.attempt /\ k = c.key
    BY <1>1, <2>1 DEF ReleaseCommand, RequireClaimedCommand, Completed, IsSettled, StoreTypeOK
  <2>2. CASE ~ (a = c.attempt /\ k = c.key)
    <3>1. commands'[a][k] = commands[a][k]
      BY <1>1, <2>2, CancelKeysAreKeys DEF ReleaseCommand, StoreTypeOK
    <3>. QED  BY <3>1
  <2>. QED  BY <2>1, <2>2
<1>. QED  BY <1>2, CommandStepIsSafe DEF ReleaseCommand

LEMMA TerminalizeCommandSafe ==
  ASSUME StoreTypeOK, NEW w \in Workers, NEW c \in Claim,
         TerminalizeCommand(w, c, "conflict"),
         c.key \in CancelKeys => IsTerminal(attempts[c.attempt].state)
  PROVE  SafeStoreStep
<1>1. c.attempt \in Attempts /\ c.key \in Keys
  BY DEF Claim
<1>2. ASSUME NEW a \in Attempts, NEW k \in CancelKeys
      PROVE  /\ commands'[a][k].state # "absent" => commands[a][k].state # "absent"
             /\ IsSettled(commands'[a][k]) =>
                   IsSettled(commands[a][k]) \/ IsTerminal(attempts[a].state)
  <2>1. CASE a = c.attempt /\ k = c.key
    BY <1>1, <2>1 DEF TerminalizeCommand, RequireClaimedCommand
  <2>2. CASE ~ (a = c.attempt /\ k = c.key)
    <3>1. commands'[a][k] = commands[a][k]
      BY <1>1, <2>2, CancelKeysAreKeys DEF TerminalizeCommand, StoreTypeOK
    <3>. QED  BY <3>1
  <2>. QED  BY <2>1, <2>2
<1>. QED  BY <1>2, CommandStepIsSafe DEF TerminalizeCommand

LEMMA ExpireSafe ==
  ASSUME StoreTypeOK, NEW x \in Attempts, NEW y \in Keys, Expire(x, y)
  PROVE  SafeStoreStep
<1>1. ASSUME NEW a \in Attempts, NEW k \in CancelKeys
      PROVE  commands'[a][k].state = commands[a][k].state
  BY CancelKeysAreKeys DEF Expire, StoreTypeOK, Command
<1>. QED  BY <1>1, CommandStepIsSafe DEF Expire, IsSettled

LEMMA CommitCommandOutcomeSafe ==
  ASSUME StoreTypeOK, NEW w \in Workers, NEW c \in Claim, NEW sn, NEW read, NEW next,
         NEW nextKey, nextKey \notin CancelKeys, NEW error,
         next \in {"submitted", "running", "cancelled", "failed"},
         CommitCommandOutcome(w, c, sn, read, next, nextKey, error)
  PROVE  SafeStoreStep
<1>. DEFINE x == c.attempt
<1>1. x \in Attempts /\ c.key \in Keys
  BY DEF Claim
<1>2. <<attempts[x].state, next>> \in ValidAttemptTransition
  BY DEF CommitCommandOutcome, ValidAttemptUpdate
<1>3. /\ attempts'[x].state = next /\ attempts'[x].version = attempts[x].version + 1
      /\ \A a \in Attempts \ {x} : attempts'[a] = attempts[a]
  BY <1>1 DEF CommitCommandOutcome, Transitioned, StoreTypeOK
<1>4. c.key \in CancelKeys => next \in {"failed", "cancelled"}
  BY KeysAssumption DEF CommitCommandOutcome, CommandOutcomeTransition, Operation
<1>5. ASSUME NEW a \in Attempts, NEW k \in CancelKeys
      PROVE  \/ commands'[a][k] = commands[a][k]
             \/ /\ a = x /\ IsTerminal(attempts'[a].state)
                /\ commands[a][k].state # "absent"
  <2>1. CASE a = x /\ k = c.key
    BY <1>3, <1>4, <2>1 DEF IsTerminal, CommitCommandOutcome, RequireClaimedCommand
  <2>2. CASE ~ (a = x /\ k = c.key)
    BY <1>1, <2>2, CancelKeysAreKeys DEF CommitCommandOutcome, StoreTypeOK
  <2>. QED  BY <2>1, <2>2
<1>6. AttemptsMove
  BY <1>2, <1>3 DEF AttemptsMove
<1>7. SuccessYields
  BY <1>3 DEF SuccessYields
<1>8. CancelsStored /\ CancelsSettleLate
  BY <1>5 DEF CancelsStored, CancelsSettleLate, IsSettled
<1>. QED  BY <1>6, <1>7, <1>8 DEF SafeStoreStep

LEMMA PrepareCollectionSafe ==
  ASSUME StoreTypeOK, NEW w \in Workers, NEW c \in Claim, c.key \notin CancelKeys,
         NEW sn, NEW read, PrepareCollection(w, c, sn, read)
  PROVE  SafeStoreStep
<1>. DEFINE x == c.attempt
<1>1. x \in Attempts /\ c.key \in Keys
  BY DEF Claim
<1>2. /\ <<attempts[x].state, "succeeded">> \in ValidAttemptTransition
      /\ ~ ActiveCancel(x)
  BY DEF PrepareCollection, ValidAttemptUpdate
<1>3. ~ IsTerminal(attempts[x].state)
  BY <1>2, TransitionShape
<1>4. /\ attempts'[x].state = "succeeded" /\ attempts'[x].version = attempts[x].version + 1
      /\ \A a \in Attempts \ {x} : attempts'[a] = attempts[a]
  BY <1>1 DEF PrepareCollection, Transitioned, StoreTypeOK
<1>5. ASSUME NEW a \in Attempts, NEW k \in CancelKeys
      PROVE  commands'[a][k] = commands[a][k]
  <2>1. k \in Keys /\ k # c.key /\ k # "collect"
    BY CancelKeysAreKeys, KeysAssumption DEF WorkerKeys
  <2>. QED  BY <1>1, <2>1 DEF PrepareCollection, StoreTypeOK
<1>6. AttemptsMove
  BY <1>2, <1>4 DEF AttemptsMove
<1>7. SuccessYields
  BY <1>2, <1>3, <1>4 DEF SuccessYields
<1>8. CancelsStored /\ CancelsSettleLate
  BY <1>5 DEF CancelsStored, CancelsSettleLate, IsSettled
<1>. QED  BY <1>6, <1>7, <1>8 DEF SafeStoreStep

LEMMA CommitCollectionCompletionSafe ==
  ASSUME StoreTypeOK, NEW w \in Workers, NEW c \in Claim, c.key \notin CancelKeys,
         NEW read, NEW next, CommitCollectionCompletion(w, c, read, next)
  PROVE  SafeStoreStep
<1>1. c.attempt \in Attempts /\ c.key \in Keys
  BY DEF Claim
<1>2. ASSUME NEW a \in Attempts, NEW k \in CancelKeys
      PROVE  commands'[a][k] = commands[a][k]
  BY <1>1, CancelKeysAreKeys DEF CommitCollectionCompletion, StoreTypeOK
<1>. QED  BY <1>2, CommandStepIsSafe DEF CommitCollectionCompletion

LEMMA EnqueueSafe ==
  ASSUME StoreTypeOK, NEW x \in Attempts, NEW y \in OperatorKeys, NEW sn, NEW read,
         CancelBeforeSubmit(x, y, sn, read) \/ EnqueueIntent(x, y, sn, read),
         y \in CancelKeys => attempts[x].state # "succeeded"
  PROVE  SafeStoreStep
<1>0. y \in Keys /\ "submit" \in Keys /\ "submit" \notin CancelKeys
  BY KeysAssumption DEF OperatorKeys, Keys, WorkerKeys
<1>1. CASE CancelBeforeSubmit(x, y, sn, read)
  <2>1. /\ <<attempts[x].state, "cancelled">> \in ValidAttemptTransition
        /\ attempts'[x].state = "cancelled" /\ attempts'[x].version = attempts[x].version + 1
        /\ \A a \in Attempts \ {x} : attempts'[a] = attempts[a]
    BY <1>1 DEF CancelBeforeSubmit, ValidAttemptUpdate, Transitioned, StoreTypeOK
  <2>2. ASSUME NEW a \in Attempts, NEW k \in CancelKeys, ~ (a = x /\ k = y)
        PROVE  commands'[a][k] = commands[a][k]
    BY <1>0, <1>1, <2>2, CancelKeysAreKeys DEF CancelBeforeSubmit, StoreTypeOK
  <2>3. AttemptsMove /\ SuccessYields
    BY <2>1 DEF AttemptsMove, SuccessYields
  <2>4. CancelsStored /\ CancelsSettleLate
    BY <2>1, <2>2 DEF CancelsStored, CancelsSettleLate, IsSettled, IsTerminal
  <2>. QED  BY <2>3, <2>4 DEF SafeStoreStep
<1>2. CASE EnqueueIntent(x, y, sn, read)
  <2>1. ASSUME NEW a \in Attempts, NEW k \in CancelKeys, ~ (a = x /\ k = y)
        PROVE  commands'[a][k] = commands[a][k]
    BY <1>0, <1>2, <2>1, CancelKeysAreKeys DEF EnqueueIntent, StoreTypeOK
  <2>2. commands'[x][y].state = "pending" /\ UNCHANGED attempts
    BY <1>0, <1>2 DEF EnqueueIntent, NewCommand, StoreTypeOK
  <2>3. AttemptsMove /\ SuccessYields
    BY <2>2 DEF AttemptsMove, SuccessYields
  <2>4. CancelsStored /\ CancelsSettleLate
    BY <2>1, <2>2 DEF CancelsStored, CancelsSettleLate, IsSettled
  <2>. QED  BY <2>3, <2>4 DEF SafeStoreStep
<1>. QED  BY <1>1, <1>2

-----------------------------------------------------------------------------
(* What a step may do to the claims the workers hold and to the requests.   *)

Claimable(c) ==
    c.attempt \in Attempts /\ (c.key \in CancelKeys => attempts[c.attempt].state # "prepared")

BatchesMove ==
    \A w \in Workers : \A c \in batch'[w] : c \in batch[w] \/ Claimable(c)

RequestsMove ==
    \A a \in Attempts, k \in CancelKeys :
        \/ requests'[a][k] = None
        \/ requests'[a][k] = requests[a][k]
        \/ /\ requests'[a][k].seen = attempts[a] /\ attempts'[a] = attempts[a]
           /\ ~ IsTerminal(attempts[a].state)

(* The part of the inductive invariant that both workers share.             *)
CancelInv ==
    SettledCancelIsOver /\ RequestsAreSnapshots /\ CancelsLeasedAfterSubmit /\ CancellationWins

LEMMA CancellationWinsStep ==
  ASSUME StoreTypeOK, SettledCancelIsOver, CancellationWins, SafeStoreStep
  PROVE  CancellationWins'
<1>. SUFFICES ASSUME NEW a \in Attempts, NEW k \in CancelKeys,
                     commands'[a][k].state # "absent", attempts'[a].state = "succeeded"
              PROVE  FALSE
  BY DEF CancellationWins, HasCancelIntent, Present
<1>1. k \in Keys /\ commands[a][k].state # "absent"
  BY CancelKeysAreKeys DEF SafeStoreStep, CancelsStored
<1>2. attempts[a].state # "succeeded"
  BY <1>1 DEF CancellationWins, HasCancelIntent, Present
<1>3. ~ ActiveCancel(a) /\ ~ IsTerminal(attempts[a].state)
  BY <1>2 DEF SafeStoreStep, SuccessYields
<1>4. IsSettled(commands[a][k])
  BY <1>1, <1>3 DEF ActiveCancel, IsActive, IsSettled, StoreTypeOK, Command
<1>. QED  BY <1>3, <1>4 DEF SettledCancelIsOver

(* An unfinished attempt only moves; a finished one is frozen.              *)
LEMMA TerminalStays ==
  ASSUME AttemptsMove, NEW a \in Attempts
  PROVE  /\ IsTerminal(attempts[a].state) => attempts'[a] = attempts[a]
         /\ attempts[a].state # "prepared" => attempts'[a].state # "prepared"
BY TransitionShape DEF AttemptsMove

LEMMA CancelInvStep ==
  ASSUME ControlTypeOK, CancelInv, SafeStoreStep, BatchesMove, RequestsMove
  PROVE  CancelInv'
<1>1. SettledCancelIsOver'
  BY TerminalStays DEF CancelInv, SettledCancelIsOver, SafeStoreStep, CancelsSettleLate
<1>2. RequestsAreSnapshots'
  <2>. SUFFICES ASSUME NEW a \in Attempts, NEW k \in CancelKeys, requests'[a][k] # None
                PROVE  /\ ~ IsTerminal(requests'[a][k].seen.state)
                       /\ requests'[a][k].seen.version <= attempts'[a].version
                       /\ requests'[a][k].seen.version = attempts'[a].version =>
                             requests'[a][k].seen = attempts'[a]
    BY DEF RequestsAreSnapshots, IsTerminal
  <2>0. attempts[a].version \in Nat
    BY DEF ControlTypeOK, StoreTypeOK, Attempt
  <2>1. CASE requests'[a][k] = requests[a][k]
    <3>1. requests[a][k].seen.version \in Nat
      BY <2>1, CancelKeysAreKeys DEF ControlTypeOK, Request, Attempt
    <3>2. /\ ~ IsTerminal(requests[a][k].seen.state)
          /\ requests[a][k].seen.version <= attempts[a].version
          /\ requests[a][k].seen.version = attempts[a].version =>
                requests[a][k].seen = attempts[a]
      BY <2>1 DEF CancelInv, RequestsAreSnapshots
    <3>3. CASE attempts'[a] = attempts[a]
      BY <2>1, <3>2, <3>3, Zenon
    <3>4. CASE attempts'[a].version = attempts[a].version + 1
      <4>1. requests[a][k].seen.version < attempts'[a].version
        BY <2>0, <3>1, <3>2, <3>4
      <4>. QED  BY <2>0, <2>1, <3>1, <3>2, <3>4, <4>1
    <3>. QED  BY <3>3, <3>4 DEF SafeStoreStep, AttemptsMove
  <2>2. CASE /\ requests'[a][k].seen = attempts[a] /\ attempts'[a] = attempts[a]
             /\ ~ IsTerminal(attempts[a].state)
    BY <2>0, <2>2
  <2>. QED  BY <2>1, <2>2 DEF RequestsMove
<1>3. CancelsLeasedAfterSubmit'
  <2>. SUFFICES ASSUME NEW w \in Workers, NEW c \in batch'[w], c.key \in CancelKeys
                PROVE  attempts'[c.attempt].state # "prepared"
    BY DEF CancelsLeasedAfterSubmit
  <2>1. c.attempt \in Attempts /\ attempts[c.attempt].state # "prepared"
    BY DEF BatchesMove, Claimable, CancelInv, CancelsLeasedAfterSubmit, ControlTypeOK, Claim
  <2>. QED  BY <2>1, TerminalStays DEF SafeStoreStep
<1>4. CancellationWins'
  BY CancellationWinsStep DEF CancelInv, ControlTypeOK
<1>. QED  BY <1>1, <1>2, <1>3, <1>4 DEF CancelInv

-----------------------------------------------------------------------------
(* Each shared step is safe in this sense.  A worker that terminalizes a    *)
(* cancel must know that its attempt is finished: that is the worker's own  *)
(* part of the invariant, and an assumption here.                           *)

LEMMA ProceedMoves ==
  ASSUME ControlTypeOK, NEW w \in Workers, Proceed(w) \/ Abort(w), UNCHANGED requests
  PROVE  BatchesMove /\ RequestsMove
BY DEF ControlTypeOK, Proceed, Abort, BatchesMove, RequestsMove

LEMMA ClaimsMove ==
  ASSUME StoreTypeOK, NEW cancels \in BOOLEAN, NEW c \in ClaimsOf(Ready(cancels))
  PROVE  Claimable(c)
<1>1. PICK p \in Ready(cancels) :
        c = [attempt |-> p[1], key |-> p[2], lease |-> commands[p[1]][p[2]].lease + 1]
  BY DEF ClaimsOf
<1>2. c.attempt = p[1] /\ c.key = p[2] /\ p[1] \in Attempts /\ CommandReady(p[1], p[2])
  BY <1>1 DEF Ready
<1>. QED  BY <1>2 DEF Claimable, CommandReady, Operation

LEMMA ControlStepSafe ==
  ASSUME TypeInv, NEW w \in Workers, ControlStep(w),
         pc[w] = "terminalize" /\ cur[w].key \in CancelKeys =>
            IsTerminal(attempts[cur[w].attempt].state)
  PROVE  SafeStoreStep /\ BatchesMove /\ RequestsMove
<1>0. StoreTypeOK /\ ControlTypeOK
  BY DEF TypeInv, ControlTypeOK
<1>1. CASE ClaimCancellations(w)
  <2>1. SafeStoreStep
    BY <1>0, <1>1, ClaimCommandsSafe DEF ClaimCancellations
  <2>2. BatchesMove /\ RequestsMove
    BY <1>0, <1>1, ClaimsMove DEF ClaimCancellations, BatchesMove, RequestsMove, ControlTypeOK
  <2>. QED  BY <2>1, <2>2
<1>2. CASE ClaimProgressions(w)
  <2>1. SafeStoreStep
    BY <1>0, <1>2, ClaimCommandsSafe DEF ClaimProgressions
  <2>2. BatchesMove /\ RequestsMove
    BY <1>0, <1>2, ClaimsMove DEF ClaimProgressions, BatchesMove, RequestsMove, ControlTypeOK
  <2>. QED  BY <2>1, <2>2
<1>3. CASE Take(w)
  <2>1. SafeStoreStep
    BY <1>3, UnchangedStoreIsSafe DEF Take, storeVars
  <2>2. BatchesMove /\ RequestsMove
    BY <1>0, <1>3 DEF Take, BatchesMove, RequestsMove, ControlTypeOK
  <2>. QED  BY <2>1, <2>2
<1>4. CASE Heartbeat(w)
  <2>1. SafeStoreStep
    BY <1>4, UnchangedStoreIsSafe DEF Heartbeat, storeVars
  <2>2. BatchesMove /\ RequestsMove
    BY <1>0, <1>4, ProceedMoves DEF Heartbeat, BatchesMove, RequestsMove
  <2>. QED  BY <2>1, <2>2
<1>5. CASE Release(w)
  <2>1. SafeStoreStep
    BY <1>0, <1>5, ReleaseCommandSafe, UnchangedStoreIsSafe
       DEF Release, storeVars, TypeInv, HoldsCommand
  <2>2. BatchesMove /\ RequestsMove
    BY <1>0, <1>5, ProceedMoves DEF Release
  <2>. QED  BY <2>1, <2>2
<1>6. CASE Terminalize(w)
  <2>1. SafeStoreStep
    BY <1>0, <1>6, TerminalizeCommandSafe, UnchangedStoreIsSafe
       DEF Terminalize, storeVars, TypeInv, HoldsCommand
  <2>2. BatchesMove /\ RequestsMove
    BY <1>0, <1>6, ProceedMoves DEF Terminalize
  <2>. QED  BY <2>1, <2>2
<1>. QED  BY <1>1, <1>2, <1>3, <1>4, <1>5, <1>6 DEF ControlStep

LEMMA EnvironmentStepSafe ==
  ASSUME TypeInv, RequestsAreSnapshots, EnvironmentStep
  PROVE  SafeStoreStep /\ BatchesMove /\ RequestsMove
<1>0. StoreTypeOK /\ ControlTypeOK
  BY DEF TypeInv, ControlTypeOK
<1>1. ASSUME NEW w \in Workers, Crash(w)
      PROVE  SafeStoreStep /\ BatchesMove /\ RequestsMove
  BY <1>0, <1>1, UnchangedStoreIsSafe, ProceedMoves DEF Crash, storeVars
<1>2. ASSUME NEW x \in Attempts, NEW y \in OperatorKeys, RequestStep(x, y)
      PROVE  SafeStoreStep /\ BatchesMove /\ RequestsMove
  <2>0. BatchesMove
    BY <1>2 DEF RequestStep, CancelExecutionAttempt, ReconcileExecutionAttempt,
                EnqueueControlCommand, RequestFails, workerVars, BatchesMove
  <2>1. CASE CancelExecutionAttempt(x, y)
    <3>1. SafeStoreStep
      BY <2>1, UnchangedStoreIsSafe DEF CancelExecutionAttempt, storeVars
    <3>2. RequestsMove
      BY <1>0, <2>1, CancelKeysAreKeys
         DEF CancelExecutionAttempt, BeginRequest, storeVars, RequestsMove, ControlTypeOK
    <3>. QED  BY <2>0, <3>1, <3>2
  <2>2. CASE ReconcileExecutionAttempt(x, y)
    <3>1. SafeStoreStep
      BY <2>2, UnchangedStoreIsSafe DEF ReconcileExecutionAttempt, storeVars
    <3>2. y \notin CancelKeys
      BY <2>2, KeysAssumption DEF ReconcileExecutionAttempt
    <3>3. RequestsMove
      BY <1>0, <2>2, <3>2, CancelKeysAreKeys
         DEF ReconcileExecutionAttempt, BeginRequest, RequestsMove, ControlTypeOK
    <3>. QED  BY <2>0, <3>1, <3>3
  <2>3. ASSUME EndRequest(x, y)  PROVE RequestsMove
    BY <1>0, <2>3, CancelKeysAreKeys DEF EndRequest, RequestsMove, ControlTypeOK
  <2>4. CASE EnqueueControlCommand(x, y)
    <3>. DEFINE sn == requests[x][y].seen
                read == requests[x][y].read
    <3>1. CancelBeforeSubmit(x, y, sn, read) \/ EnqueueIntent(x, y, sn, read)
      BY <2>4 DEF EnqueueControlCommand
    <3>2. sn.version = attempts[x].version
      BY <3>1 DEF CancelBeforeSubmit, EnqueueIntent, EnqueueChecks
    <3>3. y \in CancelKeys => attempts[x].state # "succeeded"
      BY <2>4, <3>2 DEF EnqueueControlCommand, RequestsAreSnapshots, IsTerminal
    <3>4. SafeStoreStep
      BY <1>0, <3>1, <3>3, EnqueueSafe
    <3>. QED  BY <2>0, <2>3, <2>4, <3>4 DEF EnqueueControlCommand
  <2>5. CASE RequestFails(x, y)
    BY <2>0, <2>3, <2>5, UnchangedStoreIsSafe DEF RequestFails, storeVars
  <2>. QED  BY <1>2, <2>1, <2>2, <2>4, <2>5 DEF RequestStep
<1>3. ASSUME NEW x \in Attempts, NEW y \in Keys,
             AbandonedLeaseExpires(x, y) \/ LateLeaseExpires(x, y)
      PROVE  SafeStoreStep /\ BatchesMove /\ RequestsMove
  <2>1. Expire(x, y)
    BY <1>3 DEF AbandonedLeaseExpires, LateLeaseExpires
  <2>. QED
    BY <1>0, <2>1, ExpireSafe DEF Expire, workerVars, BatchesMove, RequestsMove
<1>. QED  BY <1>1, <1>2, <1>3 DEF EnvironmentStep

-----------------------------------------------------------------------------
(* The event log.  The events of a kind T are counted by their places.      *)
Places(s, T) == {i \in 1..Len(s) : s[i] \in T}

LEMMA PlacesAreFinite ==
  ASSUME NEW T, NEW s \in Seq(Event)
  PROVE  IsFiniteSet(Places(s, T)) /\ Cardinality(Places(s, T)) \in Nat
<1>1. Len(s) \in Nat /\ IsFiniteSet(1..Len(s))
  BY FS_Interval
<1>2. Places(s, T) \subseteq 1..Len(s)
  BY DEF Places
<1>. QED  BY <1>1, <1>2, FS_Subset, FS_CardinalityType

LEMMA AppendCounts ==
  ASSUME NEW T, NEW s \in Seq(Event), NEW e \in Event
  PROVE  Cardinality(Places(Append(s, e), T)) =
            Cardinality(Places(s, T)) + (IF e \in T THEN 1 ELSE 0)
<1>1. Len(s) \in Nat /\ Len(s) + 1 \notin Places(s, T)
  BY DEF Places
<1>2. /\ Len(Append(s, e)) = Len(s) + 1
      /\ \A i \in 1..Len(s) : Append(s, e)[i] = s[i]
      /\ Append(s, e)[Len(s) + 1] = e
  OBVIOUS
<1>3. IsFiniteSet(Places(s, T)) /\ Cardinality(Places(s, T)) \in Nat
  BY PlacesAreFinite
<1>4. CASE e \in T
  <2>1. Places(Append(s, e), T) = Places(s, T) \cup {Len(s) + 1}
    BY <1>1, <1>2, <1>4 DEF Places
  <2>. QED  BY <1>1, <1>3, <1>4, <2>1, FS_AddElement
<1>5. CASE e \notin T
  <2>1. Places(Append(s, e), T) = Places(s, T)
    BY <1>1, <1>2, <1>5 DEF Places
  <2>. QED  BY <1>3, <1>5, <2>1
<1>. QED  BY <1>4, <1>5

LEMMA AppendPair ==
  ASSUME NEW s \in Seq(Event), NEW e \in Event, NEW f \in Event
  PROVE  s \o <<e, f>> = Append(Append(s, e), f)
<1>. DEFINE t == <<e, f>>
            u == s \o t
            v == Append(Append(s, e), f)
<1>1. t \in Seq(Event) /\ Len(t) = 2 /\ t[1] = e /\ t[2] = f
  OBVIOUS
<1>2. /\ v \in Seq(Event) /\ Len(v) = Len(s) + 2
      /\ \A i \in 1..Len(s) : v[i] = s[i]
      /\ v[Len(s) + 1] = e /\ v[Len(s) + 2] = f
  OBVIOUS
<1>. HIDE DEF t, v
<1>3. /\ u \in Seq(Event) /\ Len(u) = Len(s) + 2
      /\ \A i \in 1..Len(s) : u[i] = s[i]
      /\ u[Len(s) + 1] = e /\ u[Len(s) + 2] = f
  <2>1. /\ u \in Seq(Event) /\ Len(u) = Len(s) + Len(t)
        /\ \A i \in 1..Len(s) + Len(t) : u[i] = IF i <= Len(s) THEN s[i] ELSE t[i - Len(s)]
    BY <1>1, ConcatProperties, Zenon
  <2>. HIDE DEF u
  <2>2. Len(s) \in Nat
    OBVIOUS
  <2>. QED  BY <1>1, <2>1, <2>2
<1>. HIDE DEF u
<1>4. \A i \in 1..Len(u) : u[i] = v[i]
  BY <1>2, <1>3
<1>5. u = v
  BY <1>2, <1>3, <1>4, SeqEqual
<1>. QED  BY <1>5 DEF t, u, v

TransitionEvents == {e \in Event : e.type \in LifecycleStates}
EventsOfKey(k) == {e \in Event : e.key = k}

LEMMA LogPlaces ==
  ASSUME StoreTypeOK, NEW a \in Attempts
  PROVE  /\ Transitions(a) = Places(events[a], TransitionEvents)
         /\ \A k : OutcomeEvents(a, k) = Places(events[a], EventsOfKey(k))
BY DEF StoreTypeOK, Transitions, OutcomeEvents, Places, TransitionEvents, EventsOfKey

-----------------------------------------------------------------------------
(* How a step moves the log of an attempt: not at all, or by the outcome of *)
(* one command, which had none before.                                      *)
Logged(command) == command.state = "succeeded" \/ command.error \in {"failure", "timeout"}

LogsOutcome(a, k) ==
    /\ ~ Logged(commands[a][k]) /\ Logged(commands'[a][k])
    /\ \A j \in Keys \ {k} : Logged(commands'[a][j]) <=> Logged(commands[a][j])

LogStays(a) ==
    /\ events'[a] = events[a] /\ attempts'[a] = attempts[a]
    /\ \A k \in Keys : Logged(commands'[a][k]) <=> Logged(commands[a][k])

LogsTransition(a, k) ==
    /\ LogsOutcome(a, k)
    /\ \E next \in LifecycleStates :
          /\ attempts'[a] = Transitioned(attempts[a], next)
          /\ events'[a] = Append(events[a], TransitionEvent(attempts[a].state, next, k))

LogsSuccess(a, k) ==
    /\ LogsOutcome(a, k)
    /\ attempts'[a] = Transitioned(attempts[a], "succeeded")
    /\ events'[a] = Append(Append(events[a], TransitionEvent(attempts[a].state, "succeeded", k)),
                           CollectionEvent("prepared", None))

LogsCollection(a, k) ==
    /\ LogsOutcome(a, k)
    /\ attempts'[a] = attempts[a] /\ attempts[a].state = "succeeded"
    /\ \E next \in {"collected", "failed"} :
          events'[a] = Append(events[a], CollectionEvent(next, k))

LogStep ==
    \A a \in Attempts :
        \/ LogStays(a)
        \/ \E k \in Keys : LogsTransition(a, k) \/ LogsSuccess(a, k) \/ LogsCollection(a, k)

(* The inductive invariant.  A command that ended in an error is terminal,  *)
(* so a leased one has no outcome yet; a collect command exists only for an *)
(* attempt that succeeded, so its event departs from there.                 *)
ErrorsAreFinal ==
    \A a \in Attempts, k \in Keys :
        commands[a][k].error # "none" => commands[a][k].state = "terminal"

CollectAfterSuccess ==
    \A a \in Attempts :
        commands[a]["collect"].state # "absent" => attempts[a].state = "succeeded"

LogsAreBegun == \A a \in Attempts : Len(events[a]) > 0

LogInv ==
    /\ ErrorsAreFinal /\ CollectAfterSuccess /\ LogsAreBegun
    /\ EventLogIsHistory /\ OutcomesAreLoggedOnce

(* A log that is the history of an attempt in this state and version, with  *)
(* one event for each key of K and none for the other keys.                 *)
LogAgrees(s, state, version, K) ==
    /\ Len(s) > 0 /\ s[1] = CreatedEvent
    /\ \A i \in 2..Len(s) : s[i].prior = s[i - 1].next
    /\ s[Len(s)].next = state
    /\ version = Cardinality(Places(s, TransitionEvents))
    /\ \A k \in Keys : Cardinality(Places(s, EventsOfKey(k))) = IF k \in K THEN 1 ELSE 0

LoggedKeys(a) == {k \in Keys : Logged(commands[a][k])}

LEMMA LogAgreesAppend ==
  ASSUME NEW s \in Seq(Event), NEW state, NEW version, NEW K, LogAgrees(s, state, version, K),
         NEW e \in Event, e.prior = state, e.key \notin K
  PROVE  LogAgrees(Append(s, e), e.next,
                   version + (IF e \in TransitionEvents THEN 1 ELSE 0), K \cup {e.key})
<1>1. /\ Len(Append(s, e)) = Len(s) + 1 /\ Len(s) \in Nat
      /\ \A i \in 1..Len(s) : Append(s, e)[i] = s[i]
      /\ Append(s, e)[Len(s) + 1] = e
  OBVIOUS
<1>2. /\ Len(Append(s, e)) > 0 /\ Append(s, e)[1] = CreatedEvent
      /\ Append(s, e)[Len(Append(s, e))].next = e.next
  BY <1>1 DEF LogAgrees
<1>3. ASSUME NEW i \in 2..Len(Append(s, e))
      PROVE  Append(s, e)[i].prior = Append(s, e)[i - 1].next
  <2>1. CASE i \in 2..Len(s)
    BY <1>1, <2>1 DEF LogAgrees
  <2>2. CASE i = Len(s) + 1
    BY <1>1, <2>2 DEF LogAgrees
  <2>. QED  BY <1>1, <2>1, <2>2
<1>4. version + (IF e \in TransitionEvents THEN 1 ELSE 0) =
         Cardinality(Places(Append(s, e), TransitionEvents))
  BY AppendCounts DEF LogAgrees
<1>5. ASSUME NEW k \in Keys
      PROVE  Cardinality(Places(Append(s, e), EventsOfKey(k))) =
                IF k \in K \cup {e.key} THEN 1 ELSE 0
  <2>1. e \in EventsOfKey(k) <=> k = e.key
    BY DEF EventsOfKey
  <2>2. Cardinality(Places(s, EventsOfKey(k))) = IF k \in K THEN 1 ELSE 0
    BY DEF LogAgrees
  <2>. QED  BY <2>1, <2>2, AppendCounts
<1>. QED  BY <1>2, <1>3, <1>4, <1>5 DEF LogAgrees

LEMMA LogAgreesKeys ==
  ASSUME NEW s, NEW state, NEW version, NEW K, NEW L, K \cap Keys = L \cap Keys,
         LogAgrees(s, state, version, K)
  PROVE  LogAgrees(s, state, version, L)
BY DEF LogAgrees

LogsMatch ==
    \A a \in Attempts :
        LogAgrees(events[a], attempts[a].state, attempts[a].version, LoggedKeys(a))

LEMMA LogsAgree ==
  StoreTypeOK => (LogsAreBegun /\ EventLogIsHistory /\ OutcomesAreLoggedOnce <=> LogsMatch)
<1>. SUFFICES ASSUME StoreTypeOK
              PROVE  LogsAreBegun /\ EventLogIsHistory /\ OutcomesAreLoggedOnce <=> LogsMatch
  OBVIOUS
<1>1. ASSUME NEW a \in Attempts, NEW k \in Keys
      PROVE  k \in LoggedKeys(a) <=>
                commands[a][k].state = "succeeded" \/ commands[a][k].error \in {"failure", "timeout"}
  BY DEF LoggedKeys, Logged
<1>. QED
  BY <1>1, LogPlaces DEF LogsAreBegun, EventLogIsHistory, OutcomesAreLoggedOnce, LogAgrees,
                         LogsMatch

(* A step that moves the logs so keeps them histories.                      *)
LEMMA LogAgreesStep ==
  ASSUME StoreTypeOK, StoreTypeOK', LogStep, NEW a \in Attempts,
         LogAgrees(events[a], attempts[a].state, attempts[a].version, LoggedKeys(a))
  PROVE  LogAgrees(events'[a], attempts'[a].state, attempts'[a].version, LoggedKeys(a)')
<1>0. /\ events[a] \in Seq(Event)
      /\ attempts[a].state \in LifecycleStates /\ attempts[a].version \in Nat
  BY DEF StoreTypeOK, Attempt
<1>1. CASE LogStays(a)
  <2>1. LoggedKeys(a)' = LoggedKeys(a)
    BY <1>1 DEF LogStays, LoggedKeys
  <2>. QED  BY <1>1, <2>1 DEF LogStays
<1>2. ASSUME NEW k \in Keys, LogsOutcome(a, k)
      PROVE  k \notin LoggedKeys(a) /\ LoggedKeys(a)' = LoggedKeys(a) \cup {k}
  BY <1>2 DEF LogsOutcome, LoggedKeys
<1>3. ASSUME NEW k \in Keys, NEW next \in LifecycleStates, k \notin LoggedKeys(a)
      PROVE  LogAgrees(Append(events[a], TransitionEvent(attempts[a].state, next, k)), next,
                       attempts[a].version + 1, LoggedKeys(a) \cup {k})
  <2>. DEFINE e == TransitionEvent(attempts[a].state, next, k)
  <2>1. e \in Event
    BY <1>0, EventTypes
  <2>2. e.prior = attempts[a].state /\ e.next = next /\ e.key = k /\ e.type \in LifecycleStates
    BY DEF TransitionEvent
  <2>. HIDE DEF e
  <2>3. e \in TransitionEvents
    BY <2>1, <2>2 DEF TransitionEvents
  <2>4. LogAgrees(Append(events[a], e), e.next,
                  attempts[a].version + (IF e \in TransitionEvents THEN 1 ELSE 0),
                  LoggedKeys(a) \cup {e.key})
    BY <1>0, <1>3, <2>1, <2>2, LogAgreesAppend
  <2>5. LogAgrees(Append(events[a], e), next, attempts[a].version + 1, LoggedKeys(a) \cup {k})
    BY <2>2, <2>3, <2>4
  <2>. QED  BY <2>5 DEF e
<1>4. ASSUME NEW u \in Seq(Event), NEW version, NEW K, LogAgrees(u, "succeeded", version, K),
             version \in Nat,
             NEW state \in {"prepared", "collected", "failed"}, NEW k \in Keys \cup {None}, k \notin K
      PROVE  LogAgrees(Append(u, CollectionEvent(state, k)), "succeeded", version, K \cup {k})
  <2>. DEFINE e == CollectionEvent(state, k)
  <2>1. e \in Event
    BY EventTypes
  <2>2. e.prior = "succeeded" /\ e.next = "succeeded" /\ e.key = k /\ e.type \notin LifecycleStates
    BY DEF CollectionEvent, LifecycleStates
  <2>. HIDE DEF e
  <2>3. e \notin TransitionEvents
    BY <2>2 DEF TransitionEvents
  <2>4. LogAgrees(Append(u, e), e.next, version + (IF e \in TransitionEvents THEN 1 ELSE 0),
                  K \cup {e.key})
    BY <1>4, <2>1, <2>2, LogAgreesAppend
  <2>5. LogAgrees(Append(u, e), "succeeded", version, K \cup {k})
    BY <1>4, <2>2, <2>3, <2>4
  <2>. QED  BY <2>5 DEF e
<1>5. ASSUME NEW k \in Keys, LogsTransition(a, k)
      PROVE  LogAgrees(events'[a], attempts'[a].state, attempts'[a].version, LoggedKeys(a)')
  BY <1>2, <1>3, <1>5 DEF LogsTransition, Transitioned
<1>6. ASSUME NEW k \in Keys, LogsSuccess(a, k)
      PROVE  LogAgrees(events'[a], attempts'[a].state, attempts'[a].version, LoggedKeys(a)')
  <2>. DEFINE u == Append(events[a], TransitionEvent(attempts[a].state, "succeeded", k))
  <2>1. k \notin LoggedKeys(a) /\ LoggedKeys(a)' = LoggedKeys(a) \cup {k}
    BY <1>2, <1>6 DEF LogsSuccess
  <2>2. LogAgrees(u, "succeeded", attempts[a].version + 1, LoggedKeys(a) \cup {k})
    BY <1>3, <2>1 DEF LifecycleStates
  <2>3. u \in Seq(Event)
    BY <1>0, EventTypes DEF LifecycleStates
  <2>4. None \notin LoggedKeys(a) \cup {k} /\ attempts[a].version + 1 \in Nat
    BY <1>0, NoneAssumption DEF LoggedKeys, Keys
  <2>. HIDE DEF u
  <2>5. LogAgrees(Append(u, CollectionEvent("prepared", None)), "succeeded",
                  attempts[a].version + 1, (LoggedKeys(a) \cup {k}) \cup {None})
    BY <1>4, <2>2, <2>3, <2>4
  <2>6. ((LoggedKeys(a) \cup {k}) \cup {None}) \cap Keys = LoggedKeys(a)' \cap Keys
    BY <2>1, NoneAssumption DEF Keys
  <2>7. /\ events'[a] = Append(u, CollectionEvent("prepared", None))
        /\ attempts'[a].state = "succeeded" /\ attempts'[a].version = attempts[a].version + 1
    BY <1>6 DEF LogsSuccess, u, Transitioned
  <2>. QED  BY <2>5, <2>6, <2>7, LogAgreesKeys
<1>7. ASSUME NEW k \in Keys, LogsCollection(a, k)
      PROVE  LogAgrees(events'[a], attempts'[a].state, attempts'[a].version, LoggedKeys(a)')
  <2>1. k \notin LoggedKeys(a) /\ LoggedKeys(a)' = LoggedKeys(a) \cup {k}
    BY <1>2, <1>7 DEF LogsCollection
  <2>. QED  BY <1>0, <1>4, <1>7, <2>1 DEF LogsCollection
<1>. QED  BY <1>1, <1>5, <1>6, <1>7 DEF LogStep

LEMMA LogInvStep ==
  ASSUME StoreTypeOK, StoreTypeOK', LogInv, LogStep, ErrorsAreFinal', CollectAfterSuccess'
  PROVE  LogInv'
<1>1. LogsMatch
  BY LogsAgree DEF LogInv
<1>2. LogsMatch'
  BY <1>1, LogAgreesStep DEF LogsMatch
<1>3. (LogsAreBegun /\ EventLogIsHistory /\ OutcomesAreLoggedOnce)'
  BY <1>2, LogsAgree, PTL
<1>. QED  BY <1>3 DEF LogInv

-----------------------------------------------------------------------------
(* Every transaction of the store moves the logs so.                        *)
LogMoves == LogStep /\ ErrorsAreFinal' /\ CollectAfterSuccess'

LEMMA UnchangedStoreLogs ==
  ASSUME ErrorsAreFinal, CollectAfterSuccess, UNCHANGED storeVars
  PROVE  LogMoves
BY DEF storeVars, LogMoves, LogStep, LogStays, Logged, ErrorsAreFinal, CollectAfterSuccess

(* A transaction that gives no command an outcome and adds no collect.      *)
LEMMA CommandStepLogs ==
  ASSUME CollectAfterSuccess, UNCHANGED <<attempts, events>>,
         \A a \in Attempts, k \in Keys :
            /\ Logged(commands'[a][k]) <=> Logged(commands[a][k])
            /\ commands'[a][k].error # "none" => commands'[a][k].state = "terminal"
            /\ k = "collect" /\ commands'[a][k].state # "absent" =>
                  commands[a][k].state # "absent"
  PROVE  LogMoves
<1>1. "collect" \in Keys
  BY DEF Keys, WorkerKeys
<1>. QED
  BY <1>1 DEF LogMoves, LogStep, LogStays, ErrorsAreFinal, CollectAfterSuccess

(* A leased command has no outcome yet, nor has one that is not stored.     *)
LEMMA LeasedNotLogged ==
  ASSUME ErrorsAreFinal, NEW a \in Attempts, NEW k \in Keys,
         commands[a][k].state \in {"absent", "pending", "claimed"}
  PROVE  ~ Logged(commands[a][k]) /\ commands[a][k].error = "none"
BY DEF ErrorsAreFinal, Logged

LEMMA ClaimCommandsLogs ==
  ASSUME StoreTypeOK, ErrorsAreFinal, CollectAfterSuccess,
         NEW w \in Workers, NEW cancels \in BOOLEAN, ClaimCommands(w, Ready(cancels))
  PROVE  LogMoves
<1>. SUFFICES ASSUME NEW a \in Attempts, NEW k \in Keys
              PROVE  /\ Logged(commands'[a][k]) <=> Logged(commands[a][k])
                     /\ commands'[a][k].error # "none" => commands'[a][k].state = "terminal"
                     /\ k = "collect" /\ commands'[a][k].state # "absent" =>
                           commands[a][k].state # "absent"
  BY CommandStepLogs DEF ClaimCommands
<1>1. CASE <<a, k>> \in Ready(cancels)
  <2>1. commands'[a][k] = Claimed(commands[a][k], w)
    BY <1>1 DEF ClaimCommands
  <2>2. commands[a][k].state \in {"pending", "claimed"}
    BY <1>1 DEF Ready, CommandReady
  <2>. QED  BY <2>1, <2>2, LeasedNotLogged DEF Claimed, Logged
<1>2. CASE <<a, k>> \notin Ready(cancels)
  <2>1. commands'[a][k] = commands[a][k]
    BY <1>2 DEF ClaimCommands
  <2>. QED  BY <2>1 DEF ErrorsAreFinal
<1>. QED  BY <1>1, <1>2

LEMMA ReleaseCommandLogs ==
  ASSUME StoreTypeOK, ErrorsAreFinal, CollectAfterSuccess,
         NEW w \in Workers, NEW c \in Claim, ReleaseCommand(w, c)
  PROVE  LogMoves
<1>1. c.attempt \in Attempts /\ c.key \in Keys
  BY DEF Claim
<1>. SUFFICES ASSUME NEW a \in Attempts, NEW k \in Keys
              PROVE  /\ Logged(commands'[a][k]) <=> Logged(commands[a][k])
                     /\ commands'[a][k].error # "none" => commands'[a][k].state = "terminal"
                     /\ k = "collect" /\ commands'[a][k].state # "absent" =>
                           commands[a][k].state # "absent"
  BY CommandStepLogs DEF ReleaseCommand
<1>2. CASE a = c.attempt /\ k = c.key
  <2>1. commands'[a][k] = Completed(commands[a][k], "pending", "none")
    BY <1>1, <1>2 DEF ReleaseCommand, StoreTypeOK
  <2>2. commands[a][k].state = "claimed"
    BY <1>2 DEF ReleaseCommand, RequireClaimedCommand
  <2>. QED  BY <2>1, <2>2, LeasedNotLogged DEF Completed, Logged
<1>3. CASE ~ (a = c.attempt /\ k = c.key)
  <2>1. commands'[a][k] = commands[a][k]
    BY <1>1, <1>3 DEF ReleaseCommand, StoreTypeOK
  <2>. QED  BY <2>1 DEF ErrorsAreFinal
<1>. QED  BY <1>2, <1>3

LEMMA TerminalizeCommandLogs ==
  ASSUME StoreTypeOK, ErrorsAreFinal, CollectAfterSuccess,
         NEW w \in Workers, NEW c \in Claim, TerminalizeCommand(w, c, "conflict")
  PROVE  LogMoves
<1>1. c.attempt \in Attempts /\ c.key \in Keys
  BY DEF Claim
<1>. SUFFICES ASSUME NEW a \in Attempts, NEW k \in Keys
              PROVE  /\ Logged(commands'[a][k]) <=> Logged(commands[a][k])
                     /\ commands'[a][k].error # "none" => commands'[a][k].state = "terminal"
                     /\ k = "collect" /\ commands'[a][k].state # "absent" =>
                           commands[a][k].state # "absent"
  BY CommandStepLogs DEF TerminalizeCommand
<1>2. CASE a = c.attempt /\ k = c.key
  <2>1. commands'[a][k] = Completed(commands[a][k], "terminal", "conflict")
    BY <1>1, <1>2 DEF TerminalizeCommand, StoreTypeOK
  <2>2. \/ commands[a][k].state = "claimed"
        \/ commands[a][k].state = "terminal" /\ commands[a][k].error = "conflict"
    BY <1>2 DEF TerminalizeCommand, RequireClaimedCommand
  <2>. QED  BY <2>1, <2>2, LeasedNotLogged DEF Completed, Logged
<1>3. CASE ~ (a = c.attempt /\ k = c.key)
  <2>1. commands'[a][k] = commands[a][k]
    BY <1>1, <1>3 DEF TerminalizeCommand, StoreTypeOK
  <2>. QED  BY <2>1 DEF ErrorsAreFinal
<1>. QED  BY <1>2, <1>3

LEMMA ExpireLogs ==
  ASSUME StoreTypeOK, ErrorsAreFinal, CollectAfterSuccess,
         NEW x \in Attempts, NEW y \in Keys, Expire(x, y)
  PROVE  LogMoves
<1>1. ASSUME NEW a \in Attempts, NEW k \in Keys
      PROVE  commands'[a][k].state = commands[a][k].state /\ commands'[a][k].error = commands[a][k].error
  BY DEF Expire, StoreTypeOK, Command
<1>. QED  BY <1>1, CommandStepLogs DEF Expire, Logged, ErrorsAreFinal

LEMMA EnqueueIntentLogs ==
  ASSUME StoreTypeOK, ErrorsAreFinal, CollectAfterSuccess,
         NEW x \in Attempts, NEW y \in OperatorKeys, NEW sn, NEW read,
         EnqueueIntent(x, y, sn, read)
  PROVE  LogMoves
<1>0. y \in Keys /\ y # "collect"
  BY KeysAssumption DEF OperatorKeys, Keys, WorkerKeys
<1>. SUFFICES ASSUME NEW a \in Attempts, NEW k \in Keys
              PROVE  /\ Logged(commands'[a][k]) <=> Logged(commands[a][k])
                     /\ commands'[a][k].error # "none" => commands'[a][k].state = "terminal"
                     /\ k = "collect" /\ commands'[a][k].state # "absent" =>
                           commands[a][k].state # "absent"
  BY CommandStepLogs DEF EnqueueIntent
<1>1. CASE a = x /\ k = y
  <2>1. commands'[a][k] = NewCommand /\ commands[a][k].state = "absent"
    BY <1>0, <1>1 DEF EnqueueIntent, EnqueueChecks, Present, StoreTypeOK
  <2>. QED  BY <1>0, <1>1, <2>1, LeasedNotLogged DEF NewCommand, Logged
<1>2. CASE ~ (a = x /\ k = y)
  <2>1. commands'[a][k] = commands[a][k]
    BY <1>0, <1>2 DEF EnqueueIntent, StoreTypeOK
  <2>. QED  BY <2>1 DEF ErrorsAreFinal
<1>. QED  BY <1>1, <1>2

(* A transaction that gives one command k of one attempt x its outcome; no  *)
(* other command but a new one, or one that conflicts, changes.             *)
LEMMA OutcomeStepLogs ==
  ASSUME ErrorsAreFinal, CollectAfterSuccess, NEW x \in Attempts, NEW k \in Keys,
         \A a \in Attempts \ {x} :
            /\ attempts'[a] = attempts[a] /\ events'[a] = events[a]
            /\ commands'[a] = commands[a],
         LogsTransition(x, k) \/ LogsSuccess(x, k) \/ LogsCollection(x, k),
         \A j \in Keys :
            commands'[x][j].error # "none" => commands'[x][j].state = "terminal",
         \/ attempts'[x].state = "succeeded"
         \/ /\ attempts[x].state # "succeeded"
            /\ commands'[x]["collect"].state # "absent" => commands[x]["collect"].state # "absent"
  PROVE  LogMoves
<1>1. LogStep
  BY DEF LogStep, LogStays
<1>2. ErrorsAreFinal'
  BY DEF ErrorsAreFinal
<1>3. CollectAfterSuccess'
  BY DEF CollectAfterSuccess
<1>. QED  BY <1>1, <1>2, <1>3 DEF LogMoves

LEMMA CommitCommandOutcomeLogs ==
  ASSUME StoreTypeOK, ErrorsAreFinal, CollectAfterSuccess,
         NEW w \in Workers, NEW c \in Claim, NEW sn, NEW read, NEW next,
         NEW nextKey, nextKey # "collect", NEW error \in {"none", "failure", "timeout"},
         CommitCommandOutcome(w, c, sn, read, next, nextKey, error)
  PROVE  LogMoves
<1>. DEFINE x == c.attempt
            k == c.key
<1>1. x \in Attempts /\ k \in Keys
  BY DEF Claim
<1>2. /\ <<attempts[x].state, next>> \in ValidAttemptTransition
      /\ sn.state = attempts[x].state /\ commands[x][k].state = "claimed"
  BY DEF CommitCommandOutcome, ValidAttemptUpdate, RequireClaimedCommand
<1>3. next \in LifecycleStates /\ attempts[x].state # "succeeded"
  BY <1>2, TransitionShape DEF IsTerminal
<1>4. /\ attempts'[x] = Transitioned(attempts[x], next)
      /\ events'[x] = Append(events[x], TransitionEvent(attempts[x].state, next, k))
      /\ \A a \in Attempts \ {x} :
            /\ attempts'[a] = attempts[a] /\ events'[a] = events[a]
            /\ commands'[a] = commands[a]
  BY <1>1, <1>2 DEF CommitCommandOutcome, StoreTypeOK
<1>5. commands'[x] = [j \in Keys |->
         IF j = k
         THEN Completed(commands[x][j], IF error = "none" THEN "succeeded" ELSE "terminal", error)
         ELSE IF j = nextKey THEN NewCommand ELSE commands[x][j]]
  BY <1>1 DEF CommitCommandOutcome, StoreTypeOK
<1>6. nextKey \in Keys => commands[x][nextKey].state = "absent"
  BY NoneAssumption DEF CommitCommandOutcome, Present, Keys
<1>7. /\ ~ Logged(commands[x][k]) /\ Logged(commands'[x][k])
      /\ commands'[x][k].error # "none" => commands'[x][k].state = "terminal"
  BY <1>1, <1>2, <1>5, LeasedNotLogged DEF Completed, Logged
<1>8. ASSUME NEW j \in Keys \ {k}
      PROVE  /\ Logged(commands'[x][j]) <=> Logged(commands[x][j])
             /\ commands'[x][j].error # "none" => commands'[x][j].state = "terminal"
             /\ j = "collect" => commands'[x][j] = commands[x][j]
  <2>1. CASE j = nextKey
    BY <1>1, <1>5, <1>6, <2>1, LeasedNotLogged DEF NewCommand, Logged
  <2>2. CASE j # nextKey
    BY <1>1, <1>5, <2>2 DEF ErrorsAreFinal
  <2>. QED  BY <2>1, <2>2
<1>9. LogsTransition(x, k)
  BY <1>3, <1>4, <1>7, <1>8 DEF LogsTransition, LogsOutcome
<1>10. commands'[x]["collect"].state # "absent" => commands[x]["collect"].state # "absent"
  <2>1. "collect" \in Keys
    BY DEF Keys, WorkerKeys
  <2>. QED  BY <1>2, <1>8, <2>1
<1>. HIDE DEF x, k
<1>. QED  BY <1>1, <1>3, <1>4, <1>7, <1>8, <1>9, <1>10, OutcomeStepLogs

LEMMA PrepareCollectionLogs ==
  ASSUME StoreTypeOK, ErrorsAreFinal, CollectAfterSuccess,
         NEW w \in Workers, NEW c \in Claim, NEW sn, NEW read,
         PrepareCollection(w, c, sn, read)
  PROVE  LogMoves
<1>. DEFINE x == c.attempt
            k == c.key
            s == TransitionEvent(attempts[x].state, "succeeded", k)
            p == CollectionEvent("prepared", None)
<1>1. x \in Attempts /\ k \in Keys /\ "collect" \in Keys
  BY DEF Claim, Keys, WorkerKeys
<1>2. /\ <<attempts[x].state, "succeeded">> \in ValidAttemptTransition
      /\ sn.state = attempts[x].state /\ commands[x][k].state = "claimed"
      /\ commands[x]["collect"].state = "absent"
  BY <1>1 DEF PrepareCollection, ValidAttemptUpdate, RequireClaimedCommand, Present
<1>3. /\ attempts'[x] = Transitioned(attempts[x], "succeeded")
      /\ events'[x] = events[x] \o <<s, p>>
      /\ \A a \in Attempts \ {x} :
            /\ attempts'[a] = attempts[a] /\ events'[a] = events[a]
            /\ commands'[a] = commands[a]
  BY <1>1, <1>2 DEF PrepareCollection, StoreTypeOK
<1>4. events'[x] = Append(Append(events[x], s), p)
  <2>1. s \in Event /\ p \in Event /\ events[x] \in Seq(Event)
    BY <1>1, <1>2, TransitionShape, EventTypes DEF StoreTypeOK
  <2>. HIDE DEF s, p
  <2>. QED  BY <1>3, <2>1, AppendPair
<1>5. commands'[x] = [j \in Keys |->
         IF j = k THEN Completed(commands[x][j], "succeeded", "none")
         ELSE IF j = "collect" THEN NewCommand ELSE commands[x][j]]
  BY <1>1 DEF PrepareCollection, StoreTypeOK
<1>6. /\ ~ Logged(commands[x][k]) /\ Logged(commands'[x][k])
      /\ commands'[x][k].error = "none"
  BY <1>1, <1>2, <1>5, LeasedNotLogged DEF Completed, Logged
<1>7. ASSUME NEW j \in Keys \ {k}
      PROVE  /\ Logged(commands'[x][j]) <=> Logged(commands[x][j])
             /\ commands'[x][j].error # "none" => commands'[x][j].state = "terminal"
  <2>1. CASE j = "collect"
    BY <1>1, <1>2, <1>5, <2>1, LeasedNotLogged DEF NewCommand, Logged
  <2>2. CASE j # "collect"
    BY <1>1, <1>5, <2>2 DEF ErrorsAreFinal
  <2>. QED  BY <2>1, <2>2
<1>8. LogsSuccess(x, k) /\ attempts'[x].state = "succeeded"
  <2>1. LogsOutcome(x, k)
    BY <1>6, <1>7 DEF LogsOutcome
  <2>. QED  BY <1>3, <1>4, <2>1 DEF LogsSuccess, Transitioned
<1>. HIDE DEF x, k
<1>. QED  BY <1>1, <1>3, <1>6, <1>7, <1>8, OutcomeStepLogs

LEMMA CommitCollectionCompletionLogs ==
  ASSUME StoreTypeOK, ErrorsAreFinal, CollectAfterSuccess,
         NEW w \in Workers, NEW c \in Claim, c.key = "collect", NEW read,
         NEW next \in {"collected", "failed"}, CommitCollectionCompletion(w, c, read, next)
  PROVE  LogMoves
<1>. DEFINE x == c.attempt
            k == c.key
<1>1. x \in Attempts /\ k \in Keys /\ k = "collect"
  BY DEF Claim
<1>2. commands[x][k].state = "claimed"
  BY DEF CommitCollectionCompletion, RequireClaimedCommand
<1>3. attempts[x].state = "succeeded"
  BY <1>1, <1>2 DEF CollectAfterSuccess
<1>4. /\ UNCHANGED attempts
      /\ events'[x] = Append(events[x], CollectionEvent(next, k))
      /\ \A a \in Attempts \ {x} : events'[a] = events[a] /\ commands'[a] = commands[a]
      /\ \A j \in Keys \ {k} : commands'[x][j] = commands[x][j]
      /\ commands'[x][k] = IF next = "collected" THEN Completed(commands[x][k], "succeeded", "none")
                           ELSE Completed(commands[x][k], "terminal", "failure")
  BY <1>1 DEF CommitCollectionCompletion, StoreTypeOK
<1>5. /\ ~ Logged(commands[x][k]) /\ Logged(commands'[x][k])
      /\ commands'[x][k].error # "none" => commands'[x][k].state = "terminal"
  BY <1>1, <1>2, <1>4, LeasedNotLogged DEF Completed, Logged
<1>6. LogsCollection(x, k)
  BY <1>3, <1>4, <1>5 DEF LogsCollection, LogsOutcome
<1>7. \A j \in Keys : commands'[x][j].error # "none" => commands'[x][j].state = "terminal"
  BY <1>1, <1>4, <1>5 DEF ErrorsAreFinal
<1>. HIDE DEF x, k
<1>. QED  BY <1>1, <1>3, <1>4, <1>6, <1>7, OutcomeStepLogs

LEMMA CancelBeforeSubmitLogs ==
  ASSUME StoreTypeOK, ErrorsAreFinal, CollectAfterSuccess,
         NEW x \in Attempts, NEW y \in OperatorKeys, NEW sn, NEW read,
         CancelBeforeSubmit(x, y, sn, read)
  PROVE  LogMoves
<1>0. /\ y \in Keys /\ y # "collect" /\ y # "submit" /\ "submit" \in Keys
      /\ "collect" \in Keys
  BY KeysAssumption DEF CancelBeforeSubmit, OperatorKeys, Keys, WorkerKeys
<1>1. /\ attempts[x].state = "prepared" /\ sn.state = attempts[x].state
      /\ commands[x]["submit"].state = "pending" /\ commands[x][y].state = "absent"
  BY <1>0 DEF CancelBeforeSubmit, ValidAttemptUpdate, EnqueueChecks, Present
<1>2. /\ attempts'[x] = Transitioned(attempts[x], "cancelled")
      /\ events'[x] = Append(events[x], TransitionEvent(attempts[x].state, "cancelled", y))
      /\ \A a \in Attempts \ {x} :
            /\ attempts'[a] = attempts[a] /\ events'[a] = events[a]
            /\ commands'[a] = commands[a]
  BY <1>1 DEF CancelBeforeSubmit, StoreTypeOK
<1>3. /\ commands'[x]["submit"] =
            Completed(commands[x]["submit"], "terminal", "cancelled_before_submit")
      /\ commands'[x][y] = Completed(NewCommand, "succeeded", "none")
      /\ \A j \in Keys \ {"submit", y} : commands'[x][j] = commands[x][j]
  BY <1>0 DEF CancelBeforeSubmit, StoreTypeOK
<1>4. /\ ~ Logged(commands[x][y]) /\ Logged(commands'[x][y])
      /\ commands'[x][y].error = "none"
  BY <1>0, <1>1, <1>3, LeasedNotLogged DEF Completed, Logged
<1>5. /\ ~ Logged(commands[x]["submit"]) /\ ~ Logged(commands'[x]["submit"])
      /\ commands'[x]["submit"].state = "terminal"
  BY <1>0, <1>1, <1>3, LeasedNotLogged DEF Completed, Logged
<1>6. \A j \in Keys : commands'[x][j].error # "none" => commands'[x][j].state = "terminal"
  BY <1>3, <1>4, <1>5 DEF ErrorsAreFinal
<1>7. LogsTransition(x, y)
  BY <1>2, <1>3, <1>4, <1>5 DEF LogsTransition, LogsOutcome, LifecycleStates
<1>. QED  BY <1>0, <1>1, <1>2, <1>3, <1>6, <1>7, OutcomeStepLogs

-----------------------------------------------------------------------------
(* Each shared step moves the logs so.                                      *)

LEMMA ControlStepLogs ==
  ASSUME TypeInv, ErrorsAreFinal, CollectAfterSuccess, NEW w \in Workers, ControlStep(w)
  PROVE  LogMoves
<1>0. StoreTypeOK
  BY DEF TypeInv, ControlTypeOK
<1>1. CASE ClaimCancellations(w)
  BY <1>0, <1>1, ClaimCommandsLogs DEF ClaimCancellations
<1>2. CASE ClaimProgressions(w)
  BY <1>0, <1>2, ClaimCommandsLogs DEF ClaimProgressions
<1>3. CASE Take(w) \/ Heartbeat(w)
  BY <1>3, UnchangedStoreLogs DEF Take, Heartbeat
<1>4. CASE Release(w)
  BY <1>0, <1>4, ReleaseCommandLogs, UnchangedStoreLogs DEF Release, TypeInv, HoldsCommand
<1>5. CASE Terminalize(w)
  BY <1>0, <1>5, TerminalizeCommandLogs, UnchangedStoreLogs DEF Terminalize, TypeInv, HoldsCommand
<1>. QED  BY <1>1, <1>2, <1>3, <1>4, <1>5 DEF ControlStep

LEMMA EnvironmentStepLogs ==
  ASSUME TypeInv, ErrorsAreFinal, CollectAfterSuccess, EnvironmentStep
  PROVE  LogMoves
<1>0. StoreTypeOK
  BY DEF TypeInv, ControlTypeOK
<1>1. ASSUME NEW w \in Workers, Crash(w)  PROVE LogMoves
  BY <1>1, UnchangedStoreLogs DEF Crash
<1>2. ASSUME NEW x \in Attempts, NEW y \in OperatorKeys, RequestStep(x, y)  PROVE LogMoves
  <2>1. CASE EnqueueControlCommand(x, y)
    BY <1>0, <2>1, CancelBeforeSubmitLogs, EnqueueIntentLogs DEF EnqueueControlCommand
  <2>2. CASE UNCHANGED storeVars
    BY <2>2, UnchangedStoreLogs
  <2>. QED
    BY <1>2, <2>1, <2>2
       DEF RequestStep, CancelExecutionAttempt, ReconcileExecutionAttempt, RequestFails
<1>3. ASSUME NEW x \in Attempts, NEW y \in Keys,
             AbandonedLeaseExpires(x, y) \/ LateLeaseExpires(x, y)
      PROVE  LogMoves
  BY <1>0, <1>3, ExpireLogs DEF AbandonedLeaseExpires, LateLeaseExpires
<1>. QED  BY <1>1, <1>2, <1>3 DEF EnvironmentStep

LEMMA LogInvInit ==
  ASSUME ControlInit
  PROVE  LogInv
<1>1. ErrorsAreFinal /\ CollectAfterSuccess
  BY DEF ControlInit, StoreInit, ErrorsAreFinal, CollectAfterSuccess, NewCommand, AbsentCommand,
         Keys, WorkerKeys
<1>2. ASSUME NEW a \in Attempts  PROVE events[a] = <<CreatedEvent>>
  BY <1>2 DEF ControlInit, StoreInit
<1>3. LogsAreBegun
  BY <1>2 DEF LogsAreBegun
<1>4. EventLogIsHistory
  <2>. SUFFICES ASSUME NEW a \in Attempts
                PROVE  /\ events[a][1] = CreatedEvent
                       /\ \A i \in 2..Len(events[a]) : events[a][i].prior = events[a][i - 1].next
                       /\ events[a][Len(events[a])].next = attempts[a].state
                       /\ attempts[a].version = Cardinality(Transitions(a))
    BY DEF EventLogIsHistory
  <2>1. Len(events[a]) = 1 /\ events[a][1] = CreatedEvent
    BY <1>2
  <2>2. Transitions(a) = {}
    BY <2>1 DEF Transitions, CreatedEvent, LifecycleStates
  <2>3. attempts[a].state = "prepared" /\ attempts[a].version = 0
    BY DEF ControlInit, StoreInit
  <2>. QED  BY <2>1, <2>2, <2>3, FS_EmptySet DEF CreatedEvent
<1>5. OutcomesAreLoggedOnce
  <2>. SUFFICES ASSUME NEW a \in Attempts, NEW k \in Keys
                PROVE  Cardinality(OutcomeEvents(a, k)) =
                          IF commands[a][k].state = "succeeded"
                             \/ commands[a][k].error \in {"failure", "timeout"} THEN 1 ELSE 0
    BY DEF OutcomesAreLoggedOnce
  <2>1. Len(events[a]) = 1 /\ events[a][1] = CreatedEvent
    BY <1>2
  <2>2. OutcomeEvents(a, k) = {}
    BY <2>1, NoneAssumption DEF OutcomeEvents, CreatedEvent, Keys
  <2>3. commands[a][k].state \in {"pending", "absent"} /\ commands[a][k].error = "none"
    BY DEF ControlInit, StoreInit, NewCommand, AbsentCommand
  <2>. QED  BY <2>2, <2>3, FS_EmptySet
<1>. QED  BY <1>1, <1>3, <1>4, <1>5 DEF LogInv

-----------------------------------------------------------------------------
(* Collections.                                                             *)

(* The collection and the collect command of an attempt move together.      *)
CollectInv ==
    \A a \in Attempts :
        /\ collections[a] = "none" <=> attempts[a].state # "succeeded"
        /\ collections[a] = "none" <=> commands[a]["collect"].state = "absent"
        /\ collections[a] = "prepared" <=> IsActive(commands[a]["collect"])

(* Steps that change no attempt and no collection, store no cancel and      *)
(* leave every collect as active as it is.                                  *)
IntentsKept ==
    \A a \in Attempts, k \in CancelKeys :
        commands'[a][k].state = "absent" <=> commands[a][k].state = "absent"

CollectKept ==
    \A a \in Attempts :
        /\ commands'[a]["collect"].state = "absent" <=> commands[a]["collect"].state = "absent"
        /\ IsActive(commands[a]["collect"])' <=> IsActive(commands[a]["collect"])

QuietStep == UNCHANGED <<attempts, collections>> /\ IntentsKept /\ CollectKept

LEMMA CollectIsKey == "collect" \in Keys /\ "collect" \notin CancelKeys /\ "collect" \notin OperatorKeys
BY KeysAssumption DEF Keys, WorkerKeys, OperatorKeys

(* A step that touches one command and keeps it present and as active as it *)
(* was.                                                                     *)
LEMMA OneCommandIsQuiet ==
  ASSUME StoreTypeOK, UNCHANGED <<attempts, collections>>, NEW x \in Attempts, NEW y \in Keys,
         NEW command, commands' = [commands EXCEPT ![x][y] = command],
         command.state # "absent", commands[x][y].state # "absent",
         y = "collect" => (IsActive(command) <=> IsActive(commands[x][y]))
  PROVE  QuietStep
<1>1. commands'[x][y] = command
  BY DEF StoreTypeOK
<1>2. ASSUME NEW a \in Attempts, NEW k \in Keys, ~ (a = x /\ k = y)
      PROVE  commands'[a][k] = commands[a][k]
  BY <1>2 DEF StoreTypeOK
<1>3. IntentsKept
  BY <1>1, <1>2, CancelKeysAreKeys DEF IntentsKept
<1>4. CollectKept
  <2>. SUFFICES ASSUME NEW a \in Attempts
                PROVE  /\ commands'[a]["collect"].state = "absent" <=>
                              commands[a]["collect"].state = "absent"
                       /\ IsActive(commands'[a]["collect"]) <=> IsActive(commands[a]["collect"])
    BY DEF CollectKept, IsActive
  <2>1. CASE a = x /\ y = "collect"
    BY <1>1, <2>1
  <2>2. CASE ~ (a = x /\ y = "collect")
    <3>1. commands'[a]["collect"] = commands[a]["collect"]
      BY <1>2, <2>2, CollectIsKey
    <3>. QED  BY <3>1
  <2>. QED  BY <2>1, <2>2
<1>. QED  BY <1>3, <1>4 DEF QuietStep

LEMMA ClaimCommandsQuiet ==
  ASSUME StoreTypeOK, NEW w \in Workers, NEW cancels \in BOOLEAN, ClaimCommands(w, Ready(cancels))
  PROVE  QuietStep
<1>1. ASSUME NEW a \in Attempts, NEW k \in Keys
      PROVE  /\ commands'[a][k].state = "absent" <=> commands[a][k].state = "absent"
             /\ IsActive(commands'[a][k]) <=> IsActive(commands[a][k])
  <2>1. CASE <<a, k>> \in Ready(cancels)
    <3>1. commands'[a][k].state = "claimed"
      BY <2>1 DEF ClaimCommands, Claimed
    <3>2. commands[a][k].state \in {"pending", "claimed"}
      BY <2>1 DEF Ready, CommandReady
    <3>. QED  BY <3>1, <3>2 DEF IsActive
  <2>2. CASE <<a, k>> \notin Ready(cancels)
    <3>1. commands'[a][k] = commands[a][k]
      BY <2>2 DEF ClaimCommands
    <3>. QED  BY <3>1
  <2>. QED  BY <2>1, <2>2
<1>2. IntentsKept
  BY <1>1, CancelKeysAreKeys DEF IntentsKept
<1>3. CollectKept
  BY <1>1, CollectIsKey DEF CollectKept, IsActive
<1>. QED  BY <1>2, <1>3 DEF QuietStep, ClaimCommands

LEMMA ReleaseCommandQuiet ==
  ASSUME StoreTypeOK, NEW w \in Workers, NEW c \in Claim, ReleaseCommand(w, c)
  PROVE  QuietStep
<1>. DEFINE command == Completed(commands[c.attempt][c.key], "pending", "none")
<1>1. c.attempt \in Attempts /\ c.key \in Keys
  BY DEF Claim
<1>2. commands' = [commands EXCEPT ![c.attempt][c.key] = command]
  BY DEF ReleaseCommand
<1>3. command.state = "pending" /\ commands[c.attempt][c.key].state = "claimed"
  BY DEF ReleaseCommand, RequireClaimedCommand, Completed
<1>4. UNCHANGED <<attempts, collections>>
  BY DEF ReleaseCommand
<1>. HIDE DEF command
<1>. QED  BY <1>1, <1>2, <1>3, <1>4, OneCommandIsQuiet DEF IsActive

LEMMA TerminalizeCommandQuiet ==
  ASSUME StoreTypeOK, NEW w \in Workers, NEW c \in Claim, TerminalizeCommand(w, c, "conflict"),
         c.key = "collect" => ~ IsActive(commands[c.attempt][c.key])
  PROVE  QuietStep
<1>. DEFINE command == Completed(commands[c.attempt][c.key], "terminal", "conflict")
<1>1. c.attempt \in Attempts /\ c.key \in Keys
  BY DEF Claim
<1>2. commands' = [commands EXCEPT ![c.attempt][c.key] = command]
  BY DEF TerminalizeCommand
<1>3. command.state = "terminal" /\ commands[c.attempt][c.key].state \in {"claimed", "terminal"}
  BY DEF TerminalizeCommand, RequireClaimedCommand, Completed
<1>4. UNCHANGED <<attempts, collections>>
  BY DEF TerminalizeCommand
<1>5. ~ IsActive(command)
  BY <1>3 DEF IsActive
<1>. HIDE DEF command
<1>. QED  BY <1>1, <1>2, <1>3, <1>4, <1>5, OneCommandIsQuiet

LEMMA ExpireQuiet ==
  ASSUME StoreTypeOK, NEW x \in Attempts, NEW y \in Keys, Expire(x, y)
  PROVE  QuietStep
<1>1. ASSUME NEW a \in Attempts, NEW k \in Keys
      PROVE  commands'[a][k].state = commands[a][k].state
  BY DEF Expire, StoreTypeOK, Command
<1>. QED
  BY <1>1, CancelKeysAreKeys, CollectIsKey
     DEF Expire, QuietStep, IntentsKept, CollectKept, IsActive

LEMMA UnchangedStoreQuiet ==
  ASSUME UNCHANGED storeVars
  PROVE  QuietStep
BY DEF storeVars, QuietStep, IntentsKept, CollectKept, IsActive

LEMMA QuietCollects ==
  ASSUME CollectInv, QuietStep
  PROVE  CollectInv'
BY DEF CollectInv, QuietStep, CollectKept

(* A transaction that adds no success, and leaves the collections and the   *)
(* collect commands alone.                                                  *)
LEMMA NoCollectionMoves ==
  ASSUME CollectInv, UNCHANGED collections,
         \A a \in Attempts :
            /\ attempts'[a].state = "succeeded" <=> attempts[a].state = "succeeded"
            /\ commands'[a]["collect"] = commands[a]["collect"]
  PROVE  CollectInv'
BY DEF CollectInv, IsActive

LEMMA CommitCommandOutcomeCollects ==
  ASSUME StoreTypeOK, CollectInv, NEW w \in Workers, NEW c \in Claim, c.key # "collect",
         NEW sn, NEW read, NEW next \in {"submitted", "running", "cancelled", "failed"},
         NEW nextKey \in {"sync", "reconcile", None}, NEW error,
         CommitCommandOutcome(w, c, sn, read, next, nextKey, error)
  PROVE  CollectInv'
<1>. DEFINE x == c.attempt
<1>1. x \in Attempts /\ c.key \in Keys
  BY DEF Claim
<1>2. <<attempts[x].state, next>> \in ValidAttemptTransition
  BY DEF CommitCommandOutcome, ValidAttemptUpdate
<1>3. ~ IsTerminal(attempts[x].state)
  BY <1>2, TransitionShape
<1>4. /\ attempts'[x].state = next /\ UNCHANGED collections
      /\ \A a \in Attempts \ {x} : attempts'[a] = attempts[a]
  BY <1>1 DEF CommitCommandOutcome, Transitioned, StoreTypeOK
<1>5. ASSUME NEW a \in Attempts  PROVE commands'[a]["collect"] = commands[a]["collect"]
  <2>1. "collect" \in Keys /\ "collect" # nextKey
    BY CollectIsKey, NoneAssumption DEF WorkerKeys
  <2>. QED  BY <1>1, <2>1 DEF CommitCommandOutcome, StoreTypeOK
<1>6. \A a \in Attempts : attempts'[a].state = "succeeded" <=> attempts[a].state = "succeeded"
  BY <1>3, <1>4 DEF IsTerminal
<1>. QED  BY <1>4, <1>5, <1>6, NoCollectionMoves

LEMMA PrepareCollectionCollects ==
  ASSUME StoreTypeOK, CollectInv,
         NEW w \in Workers, NEW c \in Claim, c.key \notin CancelKeys,
         NEW sn, NEW read, PrepareCollection(w, c, sn, read)
  PROVE  CollectInv'
<1>. DEFINE x == c.attempt
<1>1. x \in Attempts /\ c.key \in Keys
  BY DEF Claim
<1>2. /\ <<attempts[x].state, "succeeded">> \in ValidAttemptTransition
      /\ ~ ActiveCancel(x) /\ "collect" \notin Present(x) /\ collections[x] = "none"
      /\ commands[x][c.key].state = "claimed"
      /\ collections' = [collections EXCEPT ![x] = "prepared"]
  BY DEF PrepareCollection, ValidAttemptUpdate, RequireClaimedCommand
<1>3. attempts[x].state \in {"submitted", "running"} /\ ~ IsTerminal(attempts[x].state)
  BY <1>2, TransitionShape
<1>4. /\ attempts'[x].state = "succeeded"
      /\ \A a \in Attempts \ {x} : attempts'[a] = attempts[a]
  BY <1>1 DEF PrepareCollection, Transitioned, StoreTypeOK
<1>5. commands[x]["collect"].state = "absent" /\ c.key # "collect"
  BY <1>2, CollectIsKey DEF Present
<1>6. /\ \A a \in Attempts, k \in CancelKeys : commands'[a][k] = commands[a][k]
      /\ \A a \in Attempts \ {x} : commands'[a] = commands[a]
      /\ commands'[x]["collect"] = NewCommand
  BY <1>1, <1>5, CancelKeysAreKeys, CollectIsKey DEF PrepareCollection, StoreTypeOK
<1>. SUFFICES ASSUME NEW a \in Attempts
              PROVE  /\ collections'[a] = "none" <=> attempts'[a].state # "succeeded"
                     /\ collections'[a] = "none" <=> commands'[a]["collect"].state = "absent"
                     /\ collections'[a] = "prepared" <=> IsActive(commands'[a]["collect"])
  BY DEF CollectInv, IsActive
<1>7. CASE a = x
  BY <1>1, <1>2, <1>4, <1>6, <1>7 DEF NewCommand, IsActive, StoreTypeOK
<1>8. CASE a # x
  <2>1. /\ attempts'[a] = attempts[a] /\ commands'[a] = commands[a]
        /\ collections'[a] = collections[a]
    BY <1>2, <1>4, <1>6, <1>8 DEF StoreTypeOK
  <2>. QED  BY <2>1 DEF CollectInv
<1>. QED  BY <1>7, <1>8

LEMMA CommitCollectionCompletionCollects ==
  ASSUME StoreTypeOK, CollectInv, NEW w \in Workers, NEW c \in Claim, c.key = "collect",
         NEW read, NEW next \in {"collected", "failed"},
         CommitCollectionCompletion(w, c, read, next)
  PROVE  CollectInv'
<1>. DEFINE x == c.attempt
<1>1. x \in Attempts /\ c.key \in Keys
  BY DEF Claim
<1>2. /\ commands[x]["collect"].state = "claimed" /\ UNCHANGED attempts
      /\ collections' = [collections EXCEPT ![x] = next]
  BY DEF CommitCollectionCompletion, RequireClaimedCommand
<1>3. collections[x] = "prepared"
  BY <1>1, <1>2 DEF CollectInv, IsActive
<1>4. /\ \A a \in Attempts, k \in CancelKeys : commands'[a][k] = commands[a][k]
      /\ \A a \in Attempts \ {x} : commands'[a] = commands[a]
      /\ commands'[x]["collect"].state \in {"succeeded", "terminal"}
  BY <1>1, CancelKeysAreKeys, CollectIsKey
     DEF CommitCollectionCompletion, StoreTypeOK, Completed
<1>. SUFFICES ASSUME NEW a \in Attempts
              PROVE  /\ collections'[a] = "none" <=> attempts'[a].state # "succeeded"
                     /\ collections'[a] = "none" <=> commands'[a]["collect"].state = "absent"
                     /\ collections'[a] = "prepared" <=> IsActive(commands'[a]["collect"])
  BY DEF CollectInv, IsActive
<1>5. CASE a = x
  BY <1>1, <1>2, <1>3, <1>4, <1>5 DEF IsActive, StoreTypeOK, CollectInv
<1>6. CASE a # x
  <2>1. /\ attempts'[a] = attempts[a] /\ commands'[a] = commands[a]
        /\ collections'[a] = collections[a]
    BY <1>2, <1>4, <1>6 DEF StoreTypeOK
  <2>. QED  BY <2>1 DEF CollectInv
<1>. QED  BY <1>5, <1>6

LEMMA EnqueueCollects ==
  ASSUME StoreTypeOK, CollectInv, NEW x \in Attempts, NEW y \in OperatorKeys, NEW sn, NEW read,
         CancelBeforeSubmit(x, y, sn, read) \/ EnqueueIntent(x, y, sn, read)
  PROVE  CollectInv'
<1>0. y \in Keys /\ y # "collect" /\ "submit" \in Keys
  BY CollectIsKey DEF OperatorKeys, Keys, WorkerKeys
<1>1. UNCHANGED collections
  BY DEF CancelBeforeSubmit, EnqueueIntent
<1>2. ASSUME NEW a \in Attempts  PROVE commands'[a]["collect"] = commands[a]["collect"]
  <2>1. CASE CancelBeforeSubmit(x, y, sn, read)
    BY <1>0, <2>1, CollectIsKey DEF CancelBeforeSubmit, StoreTypeOK
  <2>2. CASE EnqueueIntent(x, y, sn, read)
    BY <1>0, <2>2, CollectIsKey DEF EnqueueIntent, StoreTypeOK
  <2>. QED  BY <2>1, <2>2
<1>3. \A a \in Attempts : attempts'[a].state = "succeeded" <=> attempts[a].state = "succeeded"
  BY DEF CancelBeforeSubmit, EnqueueIntent, Transitioned, StoreTypeOK
<1>. QED  BY <1>1, <1>2, <1>3, NoCollectionMoves
=============================================================================
