---------------------- MODULE SimulationProgressProofs ----------------------
(***************************************************************************)
(* No dead end of the workflow-simulation worker: an unfinished attempt    *)
(* always has an active command that can move it, for any number of        *)
(* attempts, workers, keys and retries, and also when an operator's        *)
(* reconcile has taken the key of the automatic one.                       *)
(***************************************************************************)
EXTENDS SimulationWorkerProofs

(* The commands that carry an attempt forward.                              *)
MainKeys == {"submit", "sync", "reconcile"}

Unsubmitted(a) == attempts[a].state = "prepared"

(* The attempt does not, and will not, need the command to progress.        *)
NotNeeded(k, a) ==
    /\ ~ Unsubmitted(a)
    /\ k = "sync" => HasCancelIntent(a) \/ attempts[a].state # "submitted"
    /\ k = "reconcile" =>
          HasCancelIntent(a) \/ attempts[a].state \notin {"submitted", "running"}

(* What carries an unfinished attempt: its submit, then its sync, then its  *)
(* reconcile, or a stored cancel.                                           *)
AttemptsAreCarried ==
    \A a \in Attempts :
        /\ Unsubmitted(a) => /\ IsActive(commands[a]["submit"])
                             /\ commands[a]["sync"].state = "absent"
                             /\ commands[a]["reconcile"].state = "absent"
        /\ attempts[a].state = "submitted" =>
              HasCancelIntent(a) \/ IsActive(commands[a]["sync"])
        /\ attempts[a].state = "running" =>
              HasCancelIntent(a) \/ IsActive(commands[a]["reconcile"])

(* The claims a worker has not finished with.                               *)
HeldClaims(w) ==
    batch[w] \cup IF pc[w] \in {"idle", "progressions", "take"} THEN {} ELSE {cur[w]}

(* Syncs and reconciles are leased, and reconciles requested, only once the *)
(* attempt is submitted.                                                    *)
LeasedAfterSubmit ==
    \A w \in Workers : \A c \in HeldClaims(w) :
        c.key \in {"sync", "reconcile"} => ~ Unsubmitted(c.attempt)

RequestedAfterSubmit ==
    \A a \in Attempts, k \in ReconcileKeys : requests[a][k] # None => ~ Unsubmitted(a)

(* A worker terminalizes a command only when it is not needed any more.     *)
TerminalizedWhenNotNeeded ==
    \A w \in Workers :
        /\ pc[w] = "yield" => cur[w].key # "submit"
        /\ pc[w] = "terminalize" /\ cur[w].key \in MainKeys =>
              NotNeeded(cur[w].key, cur[w].attempt)

CarryInv ==
    /\ AttemptsAreCarried /\ LeasedAfterSubmit /\ RequestedAfterSubmit
    /\ TerminalizedWhenNotNeeded

LEMMA MainKeysAreKeys ==
  /\ MainKeys \subseteq Keys /\ MainKeys \cap CancelKeys = {}
  /\ "collect" \in Keys /\ "collect" \notin MainKeys
BY KeysAssumption DEF MainKeys, Keys, WorkerKeys

-----------------------------------------------------------------------------
(* What a step may do to the commands that carry an attempt.                *)

IntentsStay == \A a \in Attempts : HasCancelIntent(a) => HasCancelIntent(a)'

(* The attempt stays, and its carrying commands stay active unless they are *)
(* not needed.                                                              *)
Waits(a) ==
    /\ attempts'[a].state = attempts[a].state
    /\ \A k \in MainKeys :
          /\ IsActive(commands[a][k]) => IsActive(commands'[a][k]) \/ NotNeeded(k, a)
          /\ Unsubmitted(a) /\ commands[a][k].state = "absent" =>
                commands'[a][k].state = "absent"

(* The attempt moves on, and the command that carries it next is stored.    *)
MovesOn(a) ==
    \/ IsTerminal(attempts'[a].state)
    \/ attempts'[a].state = "submitted" /\ IsActive(commands'[a]["sync"])
    \/ attempts'[a].state = "running" /\ IsActive(commands'[a]["reconcile"])

Carries == IntentsStay /\ \A a \in Attempts : Waits(a) \/ MovesOn(a)

LEMMA CarriedStep ==
  ASSUME AttemptsAreCarried, Carries
  PROVE  AttemptsAreCarried'
<1>. SUFFICES ASSUME NEW a \in Attempts
              PROVE  /\ attempts'[a].state = "prepared" =>
                           /\ IsActive(commands'[a]["submit"])
                           /\ commands'[a]["sync"].state = "absent"
                           /\ commands'[a]["reconcile"].state = "absent"
                     /\ attempts'[a].state = "submitted" =>
                           HasCancelIntent(a)' \/ IsActive(commands'[a]["sync"])
                     /\ attempts'[a].state = "running" =>
                           HasCancelIntent(a)' \/ IsActive(commands'[a]["reconcile"])
  BY DEF AttemptsAreCarried, Unsubmitted, IsActive
<1>1. CASE MovesOn(a)
  BY <1>1 DEF MovesOn, IsTerminal
<1>2. CASE Waits(a)
  <2>0. HasCancelIntent(a) => HasCancelIntent(a)'
    BY DEF Carries, IntentsStay
  <2>1. CASE attempts[a].state = "prepared"
    BY <1>2, <2>1 DEF Waits, AttemptsAreCarried, Unsubmitted, NotNeeded, MainKeys
  <2>2. CASE attempts[a].state = "submitted"
    BY <1>2, <2>0, <2>2 DEF Waits, AttemptsAreCarried, NotNeeded, MainKeys
  <2>3. CASE attempts[a].state = "running"
    BY <1>2, <2>0, <2>3 DEF Waits, AttemptsAreCarried, NotNeeded, MainKeys
  <2>. QED  BY <1>2, <2>1, <2>2, <2>3 DEF Waits
<1>. QED  BY <1>1, <1>2 DEF Carries

LEMMA NotNeededStays ==
  ASSUME AttemptsMove, IntentsStay, NEW a \in Attempts, NEW k, NotNeeded(k, a)
  PROVE  NotNeeded(k, a)'
<1>1. HasCancelIntent(a) => HasCancelIntent(a)'
  BY DEF IntentsStay
<1>2. /\ attempts[a].state # "prepared" => attempts'[a].state # "prepared"
      /\ attempts[a].state \notin {"prepared", "submitted"} => attempts'[a].state # "submitted"
      /\ attempts[a].state \notin {"prepared", "submitted", "running"} =>
            attempts'[a].state \notin {"submitted", "running"}
  BY TransitionShape DEF AttemptsMove
<1>. QED  BY <1>1, <1>2 DEF NotNeeded, Unsubmitted

LEMMA SameCommandsCarry ==
  ASSUME UNCHANGED <<attempts, commands>>
  PROVE  Carries
BY DEF Carries, IntentsStay, HasCancelIntent, Present, Waits

(* A step that rewrites one command, keeps it present, and keeps it active  *)
(* unless it is not needed.                                                 *)
LEMMA OneCommandCarries ==
  ASSUME StoreTypeOK, UNCHANGED attempts, NEW x \in Attempts, NEW y \in Keys,
         NEW command, commands' = [commands EXCEPT ![x][y] = command],
         command.state # "absent", commands[x][y].state # "absent",
         y \in MainKeys => IsActive(command) \/ ~ IsActive(commands[x][y]) \/ NotNeeded(y, x)
  PROVE  Carries
<1>1. commands'[x][y] = command
  BY DEF StoreTypeOK
<1>2. ASSUME NEW a \in Attempts, NEW k \in Keys, ~ (a = x /\ k = y)
      PROVE  commands'[a][k] = commands[a][k]
  BY <1>2 DEF StoreTypeOK
<1>3. IntentsStay
  BY <1>1, <1>2 DEF IntentsStay, HasCancelIntent, Present
<1>4. ASSUME NEW a \in Attempts, NEW k \in MainKeys
      PROVE  /\ IsActive(commands[a][k]) => IsActive(commands'[a][k]) \/ NotNeeded(k, a)
             /\ commands[a][k].state = "absent" => commands'[a][k].state = "absent"
  <2>0. k \in Keys
    BY MainKeysAreKeys
  <2>1. CASE a = x /\ k = y
    BY <1>1, <2>1
  <2>2. CASE ~ (a = x /\ k = y)
    <3>1. commands'[a][k] = commands[a][k]
      BY <1>2, <2>0, <2>2
    <3>. QED  BY <3>1
  <2>. QED  BY <2>1, <2>2
<1>. QED  BY <1>3, <1>4 DEF Carries, Waits

LEMMA ClaimCommandsCarry ==
  ASSUME StoreTypeOK, NEW w \in Workers, NEW cancels \in BOOLEAN, ClaimCommands(w, Ready(cancels))
  PROVE  Carries
<1>1. ASSUME NEW a \in Attempts, NEW k \in Keys
      PROVE  /\ commands'[a][k].state = "absent" <=> commands[a][k].state = "absent"
             /\ IsActive(commands[a][k]) => IsActive(commands'[a][k])
  <2>1. CASE <<a, k>> \in Ready(cancels)
    <3>1. commands'[a][k].state = "claimed"
      BY <2>1 DEF ClaimCommands, Claimed
    <3>2. commands[a][k].state \in {"pending", "claimed"}
      BY <2>1 DEF Ready, CommandReady
    <3>. QED  BY <3>1, <3>2 DEF IsActive
  <2>2. CASE <<a, k>> \notin Ready(cancels)
    <3>1. commands'[a][k] = commands[a][k]
      BY <2>2 DEF ClaimCommands
    <3>. QED  BY <3>1
  <2>. QED  BY <2>1, <2>2
<1>2. IntentsStay
  BY <1>1 DEF IntentsStay, HasCancelIntent, Present
<1>. QED  BY <1>1, <1>2, MainKeysAreKeys DEF Carries, Waits, ClaimCommands

LEMMA ReleaseCommandCarries ==
  ASSUME StoreTypeOK, NEW w \in Workers, NEW c \in Claim, ReleaseCommand(w, c)
  PROVE  Carries
<1>. DEFINE command == Completed(commands[c.attempt][c.key], "pending", "none")
<1>1. c.attempt \in Attempts /\ c.key \in Keys
  BY DEF Claim
<1>2. commands' = [commands EXCEPT ![c.attempt][c.key] = command] /\ UNCHANGED attempts
  BY DEF ReleaseCommand
<1>3. command.state = "pending" /\ commands[c.attempt][c.key].state = "claimed"
  BY DEF ReleaseCommand, RequireClaimedCommand, Completed
<1>. HIDE DEF command
<1>. QED  BY <1>1, <1>2, <1>3, OneCommandCarries DEF IsActive

LEMMA TerminalizeCommandCarries ==
  ASSUME StoreTypeOK, NEW w \in Workers, NEW c \in Claim, TerminalizeCommand(w, c, "conflict"),
         c.key \in MainKeys => NotNeeded(c.key, c.attempt)
  PROVE  Carries
<1>. DEFINE command == Completed(commands[c.attempt][c.key], "terminal", "conflict")
<1>1. c.attempt \in Attempts /\ c.key \in Keys
  BY DEF Claim
<1>2. commands' = [commands EXCEPT ![c.attempt][c.key] = command] /\ UNCHANGED attempts
  BY DEF TerminalizeCommand
<1>3. command.state = "terminal" /\ commands[c.attempt][c.key].state \in {"claimed", "terminal"}
  BY DEF TerminalizeCommand, RequireClaimedCommand, Completed
<1>. HIDE DEF command
<1>. QED  BY <1>1, <1>2, <1>3, OneCommandCarries

LEMMA CompletionCarries ==
  ASSUME StoreTypeOK, NEW w \in Workers, NEW c \in Claim, c.key = "collect", NEW read, NEW next,
         CommitCollectionCompletion(w, c, read, next)
  PROVE  Carries
<1>1. c.attempt \in Attempts /\ c.key \in Keys /\ c.key \notin MainKeys
  BY MainKeysAreKeys
     DEF Claim
<1>. DEFINE row == commands[c.attempt][c.key]
            command == IF next = "collected" THEN Completed(row, "succeeded", "none")
                                             ELSE Completed(row, "terminal", "failure")
<1>2. commands' = [commands EXCEPT ![c.attempt][c.key] = command] /\ command.state # "absent"
  BY DEF CommitCollectionCompletion, Completed
<1>3. commands[c.attempt][c.key].state = "claimed" /\ UNCHANGED attempts
  BY DEF CommitCollectionCompletion, RequireClaimedCommand
<1>. HIDE DEF command
<1>. QED  BY <1>1, <1>2, <1>3, OneCommandCarries

LEMMA PrepareCarries ==
  ASSUME StoreTypeOK, NEW w \in Workers, NEW c \in Claim, NEW sn, NEW read,
         PrepareCollection(w, c, sn, read)
  PROVE  Carries
<1>. DEFINE x == c.attempt
<1>1. x \in Attempts /\ c.key \in Keys
  BY DEF Claim
<1>2. IsTerminal(attempts'[x].state) /\ \A a \in Attempts \ {x} : attempts'[a] = attempts[a]
  BY <1>1 DEF PrepareCollection, Transitioned, StoreTypeOK, IsTerminal
<1>3. ASSUME NEW a \in Attempts, NEW k \in Keys
      PROVE  /\ commands[a][k].state # "absent" => commands'[a][k].state # "absent"
             /\ a # x => commands'[a][k] = commands[a][k]
  BY <1>1 DEF PrepareCollection, Completed, NewCommand, StoreTypeOK
<1>4. IntentsStay
  BY <1>3 DEF IntentsStay, HasCancelIntent, Present
<1>. QED  BY <1>2, <1>3, <1>4, MainKeysAreKeys DEF Carries, Waits, MovesOn

LEMMA CommitOutcomeCarries ==
  ASSUME StoreTypeOK, NEW w \in Workers, NEW c \in Claim, NEW sn, NEW read, NEW next, NEW nextKey,
         NEW error, CommitCommandOutcome(w, c, sn, read, next, nextKey, error),
         \/ IsTerminal(next)
         \/ next = "submitted" /\ nextKey = "sync" /\ c.key # "sync"
         \/ next = "running" /\ nextKey = "reconcile" /\ c.key # "reconcile"
  PROVE  Carries
<1>. DEFINE x == c.attempt
<1>1. x \in Attempts /\ c.key \in Keys
  BY DEF Claim
<1>2. attempts'[x].state = next /\ \A a \in Attempts \ {x} : attempts'[a] = attempts[a]
  BY <1>1 DEF CommitCommandOutcome, Transitioned, StoreTypeOK
<1>3. ASSUME NEW a \in Attempts, NEW k \in Keys
      PROVE  /\ commands[a][k].state # "absent" => commands'[a][k].state # "absent"
             /\ a # x => commands'[a][k] = commands[a][k]
             /\ a = x /\ k # c.key /\ k = nextKey => commands'[a][k].state = "pending"
  BY <1>1 DEF CommitCommandOutcome, Completed, NewCommand, StoreTypeOK
<1>4. IntentsStay
  BY <1>3 DEF IntentsStay, HasCancelIntent, Present
<1>5. MovesOn(x)
  BY <1>1, <1>2, <1>3, MainKeysAreKeys DEF MovesOn, IsActive, MainKeys
<1>. QED  BY <1>2, <1>3, <1>4, <1>5, MainKeysAreKeys DEF Carries, Waits

LEMMA EnqueueCarries ==
  ASSUME StoreTypeOK, NEW x \in Attempts, NEW y \in OperatorKeys, NEW sn, NEW read,
         CancelBeforeSubmit(x, y, sn, read) \/ EnqueueIntent(x, y, sn, read),
         y \in ReconcileKeys => ~ Unsubmitted(x)
  PROVE  Carries
<1>0. y \in Keys /\ "submit" \in Keys /\ y # "submit" /\ commands[x][y].state = "absent"
  BY KeysAssumption DEF OperatorKeys, Keys, WorkerKeys, CancelBeforeSubmit, EnqueueIntent,
                        EnqueueChecks, Present
<1>1. CASE CancelBeforeSubmit(x, y, sn, read)
  <2>1. IsTerminal(attempts'[x].state) /\ \A a \in Attempts \ {x} : attempts'[a] = attempts[a]
    BY <1>1 DEF CancelBeforeSubmit, Transitioned, StoreTypeOK, IsTerminal
  <2>2. ASSUME NEW a \in Attempts, NEW k \in Keys
        PROVE  /\ commands[a][k].state # "absent" => commands'[a][k].state # "absent"
               /\ a # x => commands'[a][k] = commands[a][k]
    BY <1>0, <1>1 DEF CancelBeforeSubmit, Completed, NewCommand, StoreTypeOK
  <2>3. IntentsStay
    BY <2>2 DEF IntentsStay, HasCancelIntent, Present
  <2>. QED  BY <2>1, <2>2, <2>3, MainKeysAreKeys DEF Carries, Waits, MovesOn
<1>2. CASE EnqueueIntent(x, y, sn, read)
  <2>1. /\ UNCHANGED attempts /\ commands'[x][y].state = "pending"
        /\ \A a \in Attempts, k \in Keys : ~ (a = x /\ k = y) => commands'[a][k] = commands[a][k]
    BY <1>0, <1>2 DEF EnqueueIntent, NewCommand, StoreTypeOK
  <2>2. IntentsStay
    BY <2>1 DEF IntentsStay, HasCancelIntent, Present
  <2>3. y \in MainKeys => ~ Unsubmitted(x)
    BY MainKeysAreKeys DEF OperatorKeys
  <2>4. ASSUME NEW a \in Attempts, NEW k \in MainKeys
        PROVE  /\ IsActive(commands[a][k]) => IsActive(commands'[a][k])
               /\ Unsubmitted(a) /\ commands[a][k].state = "absent" =>
                     commands'[a][k].state = "absent"
    <3>1. CASE a = x /\ k = y
      BY <1>0, <2>3, <3>1 DEF IsActive
    <3>2. CASE ~ (a = x /\ k = y)
      <4>1. commands'[a][k] = commands[a][k]
        BY <2>1, <3>2, MainKeysAreKeys
      <4>. QED  BY <4>1
    <3>. QED  BY <3>1, <3>2
  <2>. QED  BY <2>1, <2>2, <2>4 DEF Carries, Waits
<1>. QED  BY <1>1, <1>2

LEMMA ExpireCarries ==
  ASSUME StoreTypeOK, NEW x \in Attempts, NEW y \in Keys, Expire(x, y)
  PROVE  Carries
<1>. DEFINE command == [commands[x][y] EXCEPT !.live = FALSE]
<1>1. commands' = [commands EXCEPT ![x][y] = command] /\ UNCHANGED attempts
  BY DEF Expire, StoreTypeOK
<1>2. command.state = "claimed" /\ commands[x][y].state = "claimed"
  BY DEF Expire, StoreTypeOK, Command
<1>. HIDE DEF command
<1>. QED  BY <1>1, <1>2, OneCommandCarries DEF IsActive

-----------------------------------------------------------------------------
(* What a step may do to claims, requests and labels.                       *)

SubmitDone(c) ==
    c.key \in {"sync", "reconcile"} => c.attempt \in Attempts /\ ~ Unsubmitted(c.attempt)

ClaimsMoveOn ==
    \A w \in Workers : \A c \in HeldClaims(w)' : c \in HeldClaims(w) \/ SubmitDone(c)

RequestsMoveOn ==
    \A a \in Attempts, k \in ReconcileKeys :
        requests'[a][k] = None \/ requests'[a][k] = requests[a][k] \/ ~ Unsubmitted(a)

LabelsMoveOn ==
    \A w \in Workers :
        \/ pc'[w] = pc[w] /\ cur'[w] = cur[w]
        \/ pc'[w] \notin {"yield", "terminalize"}
        \/ pc'[w] = "yield" /\ cur'[w].key # "submit"
        \/ /\ pc'[w] = "terminalize"
           /\ cur'[w].key \in MainKeys =>
                 cur'[w].attempt \in Attempts /\ NotNeeded(cur'[w].key, cur'[w].attempt)

WorkersMoveOn == ClaimsMoveOn /\ RequestsMoveOn /\ LabelsMoveOn

LEMMA CarryStep ==
  ASSUME IInv, CarryInv, AttemptsMove, Carries, WorkersMoveOn
  PROVE  CarryInv'
<1>1. AttemptsAreCarried'
  BY CarriedStep DEF CarryInv
<1>2. ASSUME NEW a \in Attempts, ~ Unsubmitted(a)  PROVE ~ Unsubmitted(a)'
  BY <1>2, TerminalStays DEF Unsubmitted
<1>3. LeasedAfterSubmit'
  <2>. SUFFICES ASSUME NEW w \in Workers, NEW c \in HeldClaims(w)',
                       c.key \in {"sync", "reconcile"}
                PROVE  ~ Unsubmitted(c.attempt)'
    BY DEF LeasedAfterSubmit
  <2>1. CASE c \in HeldClaims(w)
    <3>1. c.attempt \in Attempts
      BY <2>1 DEF HeldClaims, IInv, IInvType, TypeInv, HoldsCommand, ControlTypeOK, Claim
    <3>2. ~ Unsubmitted(c.attempt)
      BY <2>1 DEF CarryInv, LeasedAfterSubmit
    <3>. QED  BY <1>2, <3>1, <3>2
  <2>2. CASE SubmitDone(c)
    BY <1>2, <2>2 DEF SubmitDone
  <2>. QED  BY <2>1, <2>2 DEF WorkersMoveOn, ClaimsMoveOn
<1>4. RequestedAfterSubmit'
  BY <1>2 DEF CarryInv, RequestedAfterSubmit, WorkersMoveOn, RequestsMoveOn
<1>5. TerminalizedWhenNotNeeded'
  <2>1. ASSUME NEW w \in Workers, pc'[w] = "yield"  PROVE cur'[w].key # "submit"
    BY <2>1 DEF CarryInv, TerminalizedWhenNotNeeded, WorkersMoveOn, LabelsMoveOn
  <2>2. ASSUME NEW w \in Workers, pc'[w] = "terminalize", NEW k \in MainKeys, cur'[w].key = k,
               NEW a, cur'[w].attempt = a
        PROVE  NotNeeded(k, a)'
    <3>1. a \in Attempts /\ NotNeeded(k, a)
      <4>1. CASE pc'[w] = pc[w] /\ cur'[w] = cur[w]
        BY <2>2, <4>1, HeldCommand DEF IInv, CarryInv, TerminalizedWhenNotNeeded
      <4>2. CASE a \in Attempts /\ NotNeeded(k, a)
        BY <4>2
      <4>. QED  BY <2>2, <4>1, <4>2 DEF WorkersMoveOn, LabelsMoveOn
    <3>. QED  BY <3>1, NotNeededStays DEF Carries
  <2>. QED  BY <2>1, <2>2 DEF TerminalizedWhenNotNeeded
<1>. QED  BY <1>1, <1>3, <1>4, <1>5 DEF CarryInv

LEMMA ProceedMovesOn ==
  ASSUME ControlTypeOK, NEW w \in Workers, Proceed(w) \/ Abort(w), UNCHANGED requests
  PROVE  WorkersMoveOn
<1>1. ClaimsMoveOn
  BY DEF ControlTypeOK, Proceed, Abort, Forget, Goto, HeldClaims, ClaimsMoveOn
<1>2. LabelsMoveOn
  BY DEF ControlTypeOK, Proceed, Abort, Forget, Goto, LabelsMoveOn
<1>. QED  BY <1>1, <1>2 DEF WorkersMoveOn, RequestsMoveOn

LEMMA GotoMovesOn ==
  ASSUME ControlTypeOK, NEW w \in Workers, NEW label, Goto(w, label),
         pc[w] \notin {"idle", "progressions", "take"},
         \/ label \notin {"yield", "terminalize"}
         \/ label = "yield" /\ cur[w].key # "submit"
         \/ /\ label = "terminalize"
            /\ cur[w].key \in MainKeys =>
                  cur[w].attempt \in Attempts /\ NotNeeded(cur[w].key, cur[w].attempt),
         UNCHANGED <<batch, cur, requests>>
  PROVE  WorkersMoveOn
<1>1. pc'[w] = label /\ \A v \in Workers \ {w} : pc'[v] = pc[v]
  BY DEF ControlTypeOK, Goto
<1>2. ClaimsMoveOn
  BY <1>1 DEF HeldClaims, ClaimsMoveOn
<1>3. LabelsMoveOn
  <2>. SUFFICES ASSUME NEW v \in Workers
                PROVE  \/ pc'[v] = pc[v] /\ cur'[v] = cur[v]
                       \/ pc'[v] \notin {"yield", "terminalize"}
                       \/ pc'[v] = "yield" /\ cur'[v].key # "submit"
                       \/ /\ pc'[v] = "terminalize"
                          /\ cur'[v].key \in MainKeys =>
                                cur'[v].attempt \in Attempts
                                /\ NotNeeded(cur'[v].key, cur'[v].attempt)
    BY DEF LabelsMoveOn
  <2>1. CASE v = w
    BY <1>1, <2>1
  <2>2. CASE v # w
    BY <1>1, <2>2
  <2>. QED  BY <2>1, <2>2
<1>. QED  BY <1>2, <1>3 DEF WorkersMoveOn, RequestsMoveOn

-----------------------------------------------------------------------------
(* Every step carries the attempts.                                         *)

LEMMA ClaimsAreSubmitted ==
  ASSUME StoreTypeOK, AttemptsAreCarried, NEW cancels \in BOOLEAN,
         NEW c \in ClaimsOf(Ready(cancels))
  PROVE  SubmitDone(c)
<1>1. PICK p \in Ready(cancels) :
        c = [attempt |-> p[1], key |-> p[2], lease |-> commands[p[1]][p[2]].lease + 1]
  BY DEF ClaimsOf
<1>2. /\ c.attempt = p[1] /\ c.key = p[2] /\ c.attempt \in Attempts
      /\ commands[c.attempt][c.key].state # "absent"
  BY <1>1 DEF Ready, CommandReady
<1>. QED  BY <1>2 DEF SubmitDone, AttemptsAreCarried

LEMMA TakeMovesOn ==
  ASSUME IInv, CarryInv, NEW w \in Workers, Take(w)
  PROVE  WorkersMoveOn
<1>0. ControlTypeOK /\ StoreTypeOK
  BY DEF IInv, IInvType, TypeInv, ControlTypeOK
<1>1. PICK c \in batch[w] :
         /\ cur' = [cur EXCEPT ![w] = c]
         /\ batch' = [batch EXCEPT ![w] = @ \ {c}]
         /\ Goto(w, IF CommandCanRunFromAttempt(Operation(c.key), attempts[c.attempt].state)
                    THEN "heartbeat" ELSE "terminalize")
  BY DEF Take
<1>2. c.attempt \in Attempts /\ c.key \in Keys /\ cur'[w] = c
  BY <1>0, <1>1 DEF ControlTypeOK, Claim
<1>3. ClaimsMoveOn
  BY <1>0, <1>1, <1>2 DEF ControlTypeOK, HeldClaims, ClaimsMoveOn, Goto
<1>4. LabelsMoveOn
  <2>1. CASE CommandCanRunFromAttempt(Operation(c.key), attempts[c.attempt].state)
    BY <1>0, <1>1, <2>1 DEF LabelsMoveOn, Goto, ControlTypeOK
  <2>2. CASE ~ CommandCanRunFromAttempt(Operation(c.key), attempts[c.attempt].state)
    <3>1. c.key \in {"sync", "reconcile"} => ~ Unsubmitted(c.attempt)
      BY DEF CarryInv, LeasedAfterSubmit, HeldClaims
    <3>2. c.key \in MainKeys => NotNeeded(c.key, c.attempt)
      <4>1. CASE c.key = "submit"
        BY <1>2, <2>2, <4>1, OperationOfKey DEF CommandCanRunFromAttempt, NotNeeded, Unsubmitted
      <4>2. CASE c.key = "sync"
        BY <1>2, <2>2, <3>1, <4>2, OperationOfKey DEF CommandCanRunFromAttempt, NotNeeded
      <4>3. CASE c.key = "reconcile"
        <5>1. Operation(c.key) = "reconcile"
          BY <4>3, MainKeysAreKeys DEF Operation, MainKeys
        <5>. QED  BY <2>2, <3>1, <4>3, <5>1 DEF CommandCanRunFromAttempt, NotNeeded
      <4>. QED  BY <4>1, <4>2, <4>3 DEF MainKeys
    <3>3. Goto(w, "terminalize")
      BY <1>1, <2>2
    <3>. QED  BY <1>0, <1>1, <1>2, <3>2, <3>3 DEF LabelsMoveOn, Goto, ControlTypeOK
  <2>. QED  BY <2>1, <2>2
<1>. QED  BY <1>3, <1>4 DEF WorkersMoveOn, RequestsMoveOn, Take

LEMMA ControlStepCarries ==
  ASSUME IInv, CarryInv, NEW w \in Workers, ControlStep(w)
  PROVE  Carries /\ WorkersMoveOn
<1>0. ControlTypeOK /\ StoreTypeOK /\ IInvType
  BY DEF IInv, IInvType, TypeInv, ControlTypeOK
<1>1. ASSUME ClaimCancellations(w) \/ ClaimProgressions(w)  PROVE Carries /\ WorkersMoveOn
  <2>1. Carries
    BY <1>0, <1>1, ClaimCommandsCarry DEF ClaimCancellations, ClaimProgressions
  <2>2. ClaimsMoveOn
    BY <1>0, <1>1, ClaimsAreSubmitted
       DEF ClaimCancellations, ClaimProgressions, ClaimsMoveOn, HeldClaims, Goto, ControlTypeOK,
           CarryInv
  <2>3. LabelsMoveOn
    BY <1>0, <1>1 DEF ClaimCancellations, ClaimProgressions, Goto, LabelsMoveOn, ControlTypeOK
  <2>. QED
    BY <1>1, <2>1, <2>2, <2>3
       DEF WorkersMoveOn, RequestsMoveOn, ClaimCancellations, ClaimProgressions
<1>2. CASE Take(w)
  <2>1. Carries
    BY <1>2, SameCommandsCarry DEF Take, storeVars
  <2>. QED  BY <1>2, <2>1, TakeMovesOn
<1>3. CASE Heartbeat(w)
  <2>1. Carries
    BY <1>3, SameCommandsCarry DEF Heartbeat, storeVars
  <2>. QED  BY <1>0, <1>3, <2>1, GotoMovesOn, ProceedMovesOn DEF Heartbeat
<1>4. CASE Release(w)
  <2>1. Carries
    BY <1>0, <1>4, HeldCommand, ReleaseCommandCarries, SameCommandsCarry DEF Release, storeVars
  <2>. QED  BY <1>0, <1>4, <2>1, ProceedMovesOn DEF Release
<1>5. CASE Terminalize(w)
  <2>1. cur[w] \in Claim /\ (cur[w].key \in MainKeys => NotNeeded(cur[w].key, cur[w].attempt))
    BY <1>0, <1>5, HeldCommand DEF Terminalize, CarryInv, TerminalizedWhenNotNeeded
  <2>2. Carries
    BY <1>0, <1>5, <2>1, TerminalizeCommandCarries, SameCommandsCarry DEF Terminalize, storeVars
  <2>. QED  BY <1>0, <1>5, <2>2, ProceedMovesOn DEF Terminalize
<1>. QED  BY <1>1, <1>2, <1>3, <1>4, <1>5 DEF ControlStep

LEMMA CommitCarries ==
  ASSUME IInv, NEW w \in Workers, Commit(w)
  PROVE  Carries
<1>0. StoreTypeOK /\ cur[w] \in Claim /\ cur[w].key \in Keys
  BY HeldCommand DEF IInv, Commit
<1>1. Op(w) \in {"submit", "sync", "reconcile", "collect", "cancel"}
  BY <1>0, OperationOfKey DEF Op
<1>2. CASE intent[w] # "response" /\ Op(w) # "collect"
  <2>1. CommitCommandOutcome(w, cur[w], seen[w], reading[w], "failed", None, "failure")
    BY <1>2 DEF Commit, CommitFailure
  <2>. QED  BY <1>0, <2>1, CommitOutcomeCarries DEF IsTerminal
<1>3. CASE Op(w) = "collect"
  <2>1. \E next \in {"collected", "failed"} :
            CommitCollectionCompletion(w, cur[w], reading[w], next)
    BY <1>3 DEF Commit, CommitFailure, CommitResponse
  <2>2. cur[w].key = "collect"
    BY <1>0, <1>3, OperationOfKey DEF Op
  <2>. QED  BY <1>0, <2>1, <2>2, CompletionCarries
<1>4. CASE intent[w] = "response" /\ Op(w) = "reconcile"
  <2>1. PrepareCollection(w, cur[w], seen[w], reading[w])
    BY <1>4 DEF Commit, CommitResponse
  <2>. QED  BY <1>0, <2>1, PrepareCarries
<1>5. CASE intent[w] = "response" /\ Op(w) \in {"submit", "sync", "cancel"}
  <2>1. CommitCommandOutcome(w, cur[w], seen[w], reading[w],
                             NextState[Op(w)], NextKey[Op(w)], "none")
    BY <1>5 DEF Commit, CommitResponse
  <2>2. /\ NextState["submit"] = "submitted" /\ NextKey["submit"] = "sync"
        /\ NextState["sync"] = "running" /\ NextKey["sync"] = "reconcile"
        /\ NextState["cancel"] = "cancelled"
    BY DEF NextState, NextKey
  <2>3. (Op(w) = "submit" => cur[w].key = "submit") /\ (Op(w) = "sync" => cur[w].key = "sync")
    BY <1>0, OperationOfKey DEF Op
  <2>. QED  BY <1>0, <1>5, <2>1, <2>2, <2>3, CommitOutcomeCarries DEF IsTerminal
<1>. QED  BY <1>1, <1>2, <1>3, <1>4, <1>5

LEMMA RefusalCarries ==
  ASSUME IInv, CarryInv, NEW w \in Workers,
         CommitRefused(w) \/ ResolveCancelProgressionRace(w) \/ YieldToCancellation(w)
  PROVE  Carries /\ WorkersMoveOn
<1>0. /\ ControlTypeOK /\ StoreTypeOK /\ UNCHANGED <<attempts, commands, requests>>
      /\ pc[w] \in {"commit", "race", "yield"}
  BY RefusalShape DEF IInv, IInvType, TypeInv, ControlTypeOK, storeVars
<1>1. cur[w] \in Claim /\ cur[w].key \in Keys /\ cur[w].attempt \in Attempts
  BY <1>0, HeldCommand DEF IInv
<1>2. Carries
  BY <1>0, SameCommandsCarry
<1>3. CASE Abort(w)
  BY <1>0, <1>2, <1>3, ProceedMovesOn
<1>4. CASE CommitRefused(w) /\ ~ Abort(w)
  <2>1. /\ Op(w) \in {"cancel", "sync", "reconcile"} /\ UNCHANGED <<batch, cur>>
        /\ Goto(w, IF Op(w) = "cancel" THEN "race" ELSE "yield")
    BY <1>4 DEF CommitRefused
  <2>2. cur[w].key # "submit"
    BY <1>1, <2>1, OperationOfKey DEF Op
  <2>3. PICK label : Goto(w, label) /\ label \in {"race", "yield"}
    BY <2>1
  <2>. QED  BY <1>0, <1>2, <2>1, <2>2, <2>3, GotoMovesOn
<1>5. CASE ResolveCancelProgressionRace(w) /\ ~ Abort(w)
  <2>1. /\ UNCHANGED <<batch, cur>>
        /\ Goto(w, IF IsTerminal(attempts[cur[w].attempt].state) THEN "terminalize" ELSE "release")
    BY <1>5 DEF ResolveCancelProgressionRace
  <2>2. CASE IsTerminal(attempts[cur[w].attempt].state)
    <3>1. NotNeeded(cur[w].key, cur[w].attempt)
      BY <2>2 DEF IsTerminal, NotNeeded, Unsubmitted
    <3>2. Goto(w, "terminalize")
      BY <2>1, <2>2
    <3>. QED  BY <1>0, <1>1, <1>2, <2>1, <3>1, <3>2, GotoMovesOn
  <2>3. CASE ~ IsTerminal(attempts[cur[w].attempt].state)
    <3>1. Goto(w, "release")
      BY <2>1, <2>3
    <3>. QED  BY <1>0, <1>2, <2>1, <3>1, GotoMovesOn
  <2>. QED  BY <2>2, <2>3
<1>6. CASE YieldToCancellation(w) /\ ~ Abort(w)
  <2>1. /\ pc[w] = "yield" /\ Goto(w, "terminalize") /\ UNCHANGED <<batch, cur>>
        /\ CommandMustYieldToCancellation(cur[w].attempt)
    BY <1>6 DEF YieldToCancellation
  <2>2. \/ attempts[cur[w].attempt].state = "cancelled"
        \/ HasCancelIntent(cur[w].attempt)
    BY <2>1, CancelKeysAreKeys DEF CommandMustYieldToCancellation, HasCancelIntent, Present
  <2>3. cur[w].key \in MainKeys => cur[w].key \in {"sync", "reconcile"}
    BY <2>1 DEF CarryInv, TerminalizedWhenNotNeeded, MainKeys
  <2>4. cur[w] \in HeldClaims(w)
    BY <2>1 DEF HeldClaims
  <2>5. cur[w].key \in MainKeys => ~ Unsubmitted(cur[w].attempt)
    BY <2>3, <2>4 DEF CarryInv, LeasedAfterSubmit
  <2>6. cur[w].key \in MainKeys => NotNeeded(cur[w].key, cur[w].attempt)
    BY <2>2, <2>5 DEF NotNeeded
  <2>. QED  BY <1>0, <1>1, <1>2, <2>1, <2>6, GotoMovesOn
<1>. QED  BY <1>3, <1>4, <1>5, <1>6

LEMMA RequestCarries ==
  ASSUME IInv, CarryInv, NEW x \in Attempts, NEW y \in OperatorKeys, RequestStep(x, y)
  PROVE  Carries /\ RequestsMoveOn
<1>0. ControlTypeOK /\ StoreTypeOK
  BY DEF IInv, IInvType, TypeInv, ControlTypeOK
<1>1. CASE CancelExecutionAttempt(x, y)
  <2>1. Carries
    BY <1>1, SameCommandsCarry DEF CancelExecutionAttempt, storeVars
  <2>2. y \notin ReconcileKeys
    BY <1>1, KeysAssumption DEF CancelExecutionAttempt
  <2>. QED  BY <1>0, <1>1, <2>1, <2>2
            DEF CancelExecutionAttempt, BeginRequest, RequestsMoveOn, ControlTypeOK, OperatorKeys
<1>2. CASE ReconcileExecutionAttempt(x, y)
  <2>1. Carries
    BY <1>2, SameCommandsCarry DEF ReconcileExecutionAttempt, storeVars
  <2>2. ~ Unsubmitted(x)
    BY <1>2 DEF ReconcileExecutionAttempt, Unsubmitted
  <2>. QED  BY <1>0, <1>2, <2>1, <2>2
            DEF ReconcileExecutionAttempt, BeginRequest, RequestsMoveOn, ControlTypeOK, OperatorKeys
<1>3. ASSUME EndRequest(x, y)  PROVE RequestsMoveOn
  BY <1>0, <1>3 DEF EndRequest, RequestsMoveOn, ControlTypeOK, OperatorKeys
<1>4. CASE EnqueueControlCommand(x, y)
  <2>. DEFINE sn == requests[x][y].seen
              read == requests[x][y].read
  <2>1. CancelBeforeSubmit(x, y, sn, read) \/ EnqueueIntent(x, y, sn, read)
    BY <1>4 DEF EnqueueControlCommand
  <2>2. y \in ReconcileKeys => ~ Unsubmitted(x)
    BY <1>4 DEF EnqueueControlCommand, CarryInv, RequestedAfterSubmit
  <2>3. Carries
    BY <1>0, <2>1, <2>2, EnqueueCarries
  <2>. QED  BY <1>3, <1>4, <2>3 DEF EnqueueControlCommand
<1>5. CASE RequestFails(x, y)
  BY <1>3, <1>5, SameCommandsCarry DEF RequestFails, storeVars
<1>. QED  BY <1>1, <1>2, <1>4, <1>5 DEF RequestStep

LEMMA SameWorkersMoveOn ==
  ASSUME UNCHANGED workerVars, RequestsMoveOn
  PROVE  WorkersMoveOn
BY DEF workerVars, WorkersMoveOn, ClaimsMoveOn, HeldClaims, LabelsMoveOn

LEMMA StepCarries ==
  ASSUME IInv, CarryInv, [Next]_vars
  PROVE  Carries /\ WorkersMoveOn
<1>. DEFINE Moves == Carries /\ WorkersMoveOn
<1>0. IInvType /\ ControlTypeOK /\ StoreTypeOK
  BY DEF IInv, IInvType, TypeInv, ControlTypeOK
<1>1. ASSUME NEW w \in Workers, ControlStep(w)  PROVE Moves
  BY <1>1, ControlStepCarries
<1>2. ASSUME NEW w \in Workers, Dispatch(w)  PROVE Moves
  <2>1. Carries /\ UNCHANGED <<batch, cur, requests>>
    BY <1>2, SameCommandsCarry DEF Dispatch, storeVars
  <2>2. pc[w] = "dispatch"
    BY <1>2 DEF Dispatch
  <2>3. PICK label \in {"release", "read"} : Goto(w, label)
    BY <1>2, DispatchLabel
  <2>. QED  BY <1>0, <2>1, <2>2, <2>3, GotoMovesOn
<1>3. ASSUME NEW w \in Workers, ReadSequences(w)  PROVE Moves
  <2>1. Carries
    BY <1>3, SameCommandsCarry DEF ReadSequences, storeVars
  <2>. QED  BY <1>0, <1>3, <2>1, ProceedMovesOn, GotoMovesOn DEF ReadSequences
<1>4. ASSUME NEW w \in Workers, Commit(w)  PROVE Moves
  BY <1>0, <1>4, CommitCarries, ProceedMovesOn DEF Commit
<1>5. ASSUME NEW w \in Workers,
             CommitRefused(w) \/ ResolveCancelProgressionRace(w) \/ YieldToCancellation(w)
      PROVE  Moves
  BY <1>5, RefusalCarries
<1>6. ASSUME NEW w \in Workers, Crash(w)  PROVE Moves
  BY <1>0, <1>6, SameCommandsCarry, ProceedMovesOn DEF Crash, storeVars
<1>7. ASSUME NEW a \in Attempts, NEW k \in OperatorKeys, RequestStep(a, k)  PROVE Moves
  <2>1. UNCHANGED workerVars
    BY <1>7 DEF RequestStep, CancelExecutionAttempt, ReconcileExecutionAttempt,
                EnqueueControlCommand, RequestFails
  <2>. QED  BY <1>7, <2>1, RequestCarries, SameWorkersMoveOn
<1>8. ASSUME NEW a \in Attempts, NEW k \in Keys,
             AbandonedLeaseExpires(a, k) \/ LateLeaseExpires(a, k)
      PROVE  Moves
  <2>1. Expire(a, k)
    BY <1>8 DEF AbandonedLeaseExpires, LateLeaseExpires
  <2>. QED  BY <1>0, <2>1, ExpireCarries, SameWorkersMoveOn DEF Expire, RequestsMoveOn
<1>9. CASE UNCHANGED vars
  BY <1>9, SameCommandsCarry, SameWorkersMoveOn
     DEF vars, controlVars, storeVars, RequestsMoveOn
<1>. QED
  BY <1>1, <1>2, <1>3, <1>4, <1>5, <1>6, <1>7, <1>8, <1>9
     DEF Next, WorkerStep, EnvironmentStep

LEMMA InitCarries == Init => CarryInv
<1>. SUFFICES ASSUME Init PROVE CarryInv
  OBVIOUS
<1>1. \A a \in Attempts :
         /\ attempts[a].state = "prepared" /\ commands[a]["submit"].state = "pending"
         /\ commands[a]["sync"].state = "absent" /\ commands[a]["reconcile"].state = "absent"
  BY DEF Init, ControlInit, StoreInit, Keys, WorkerKeys, AbsentCommand, NewCommand
<1>2. AttemptsAreCarried
  BY <1>1 DEF AttemptsAreCarried, IsActive
<1>3. LeasedAfterSubmit /\ RequestedAfterSubmit /\ TerminalizedWhenNotNeeded
  BY DEF Init, ControlInit, LeasedAfterSubmit, HeldClaims, RequestedAfterSubmit,
         TerminalizedWhenNotNeeded, OperatorKeys
<1>. QED  BY <1>2, <1>3 DEF CarryInv

LEMMA CarriedCanProgress ==
  ASSUME IInv, CarryInv
  PROVE  NeverStuck
<1>0. StoreTypeOK
  BY DEF IInv, IInvType, TypeInv, ControlTypeOK
<1>. SUFFICES ASSUME NEW a \in Attempts, ~ IsTerminal(attempts[a].state)
              PROVE  CanProgress(a)
  BY DEF NeverStuck
<1>1. attempts[a].state \in {"prepared", "submitted", "running"}
  BY <1>0 DEF StoreTypeOK, Attempt, LifecycleStates, IsTerminal
<1>2. /\ "submit" \in Keys /\ Operation("submit") = "submit"
      /\ "sync" \in Keys /\ Operation("sync") = "sync"
      /\ "reconcile" \in Keys /\ Operation("reconcile") = "reconcile"
  BY KeysAssumption DEF Keys, WorkerKeys, Operation
<1>3. CASE attempts[a].state # "prepared" /\ HasCancelIntent(a)
  <2>1. PICK k \in CancelKeys : k \in Keys /\ commands[a][k].state # "absent"
    BY <1>3 DEF HasCancelIntent, Present
  <2>2. ~ IsSettled(commands[a][k])
    BY DEF IInv, CancelInv, SettledCancelIsOver
  <2>3. commands[a][k].state \in {"absent", "pending", "claimed", "succeeded", "terminal"}
    BY <1>0, <2>1 DEF StoreTypeOK, Command
  <2>4. IsActive(commands[a][k])
    BY <2>1, <2>2, <2>3 DEF IsActive, IsSettled
  <2>5. Operation(k) = "cancel"
    BY DEF Operation
  <2>. QED  BY <1>1, <1>3, <2>1, <2>4, <2>5 DEF CanProgress, CommandCanRunFromAttempt
<1>4. CASE attempts[a].state = "prepared"
  BY <1>2, <1>4 DEF CanProgress, CommandCanRunFromAttempt, CarryInv, AttemptsAreCarried, Unsubmitted
<1>5. CASE attempts[a].state = "submitted" /\ ~ HasCancelIntent(a)
  BY <1>2, <1>5 DEF CanProgress, CommandCanRunFromAttempt, CarryInv, AttemptsAreCarried
<1>6. CASE attempts[a].state = "running" /\ ~ HasCancelIntent(a)
  BY <1>2, <1>6 DEF CanProgress, CommandCanRunFromAttempt, CarryInv, AttemptsAreCarried
<1>. QED  BY <1>1, <1>3, <1>4, <1>5, <1>6

-----------------------------------------------------------------------------
(* No interleaving of leases, refusals, crashes and requests leaves an      *)
(* unfinished attempt without a command that a worker can still run.        *)
THEOREM AttemptsNeverStick == Spec => []NeverStuck
<1>1. Init => IInv /\ CarryInv
  BY InitInv, InitCarries
<1>2. IInv /\ CarryInv /\ [Next]_vars => (IInv /\ CarryInv)'
  <2>. SUFFICES ASSUME IInv, CarryInv, [Next]_vars PROVE (IInv /\ CarryInv)'
    OBVIOUS
  <2>1. IInv'
    BY StepInv
  <2>2. CarryInv'
    BY StepMoves, StepCarries, CarryStep DEF SafeStoreStep
  <2>. QED  BY <2>1, <2>2
<1>. QED  BY <1>1, <1>2, CarriedCanProgress, PTL DEF Spec
=============================================================================
