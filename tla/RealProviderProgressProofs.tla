---------------------- MODULE RealProviderProgressProofs ----------------------
(***************************************************************************)
(* What becomes of an attempt of RealProviderWorker: one that nobody       *)
(* cancels always has a command that can move it, and one that succeeded   *)
(* is being collected or has its evidence, cancels or not.                 *)
(***************************************************************************)
EXTENDS RealProviderWorkerProofs

-----------------------------------------------------------------------------
(* No dead end.  A cancel that meets a succeeded job is terminalized and    *)
(* may leave nothing behind (CancelDefersToReconcile), so what holds is     *)
(* that an attempt nobody cancels always has a command that can move it:    *)
(* its submit as long as it is prepared, and then a reconcile, the          *)
(* automatic one or an operator's.                                          *)

Idling == {"idle", "progressions", "take"}

Past(w) == pc[w] \notin Idling

Live(a) == ~ HasCancelIntent(a) /\ attempts[a].state \in {"prepared", "submitted"}

HeldClaims(w) == batch[w] \cup IF Past(w) THEN {cur[w]} ELSE {}

Holding(w, a, k) == Past(w) /\ cur[w].attempt = a /\ cur[w].key = k

(* The worker ends its command, or will: its commit is bound to be refused. *)
Doomed(w) ==
    \/ pc[w] = "terminalize"
    \/ pc[w] = "commit" /\ reading[w].command # NextCommandSequence(cur[w].attempt)

(* A reconcile that no worker is about to end.                              *)
Sound(a, k) ==
    /\ Operation(k) = "reconcile" /\ IsActive(commands[a][k])
    /\ \A w \in Workers : Holding(w, a, k) => ~ Doomed(w)

AttemptsAreCarried ==
    \A a \in Attempts : Live(a) =>
        /\ attempts[a].state = "prepared" =>
              IsActive(commands[a]["submit"]) /\ Present(a) = {"submit"}
        /\ attempts[a].state = "submitted" => \E k \in Keys : Sound(a, k)

(* No command of this worker is a sync, and a success only is collected.    *)
NothingIsSynced ==
    \A a \in Attempts :
        /\ "sync" \notin Present(a) /\ attempts[a].state # "running"
        /\ attempts[a].state # "succeeded" => collections[a] = "none"

HeldArePresent ==
    \A w \in Workers : \A c \in HeldClaims(w) : c.key \in Present(c.attempt)

(* What a worker past `take' knows of an attempt nobody cancels: it found   *)
(* the command obsolete, or holds a submit that another worker has already  *)
(* brought to an end, or its snapshot is the row and so are the sequences.  *)
Ending(w) == pc[w] = "terminalize" /\ attempts[cur[w].attempt].state = "submitted"

Straggling(w) ==
    /\ pc[w] # "terminalize" /\ Op(w) = "submit" /\ seen[w].state = "prepared"
    /\ attempts[cur[w].attempt].state = "submitted"

UpToDate(w) ==
    LET a == cur[w].attempt IN
    /\ pc[w] # "terminalize" /\ seen[w] = attempts[a]
    /\ Op(w) = IF attempts[a].state = "prepared" THEN "submit" ELSE "reconcile"
    /\ pc[w] = "commit" =>
          /\ reading[w].event = NextEventSequence(a)
          /\ attempts[a].state = "prepared" => reading[w].command = NextCommandSequence(a)

WorkersAreCurrent ==
    \A w \in Workers :
        Past(w) /\ Live(cur[w].attempt) => Ending(w) \/ Straggling(w) \/ UpToDate(w)

OnlyCancelsSettle == \A w \in Workers : pc[w] = "settle" => Op(w) = "cancel"

RequestedAfterSubmit ==
    \A a \in Attempts, k \in ReconcileKeys :
        requests[a][k] # None => attempts[a].state # "prepared"

ProgressInv ==
    /\ AttemptsAreCarried /\ NothingIsSynced /\ HeldArePresent /\ WorkersAreCurrent
    /\ OnlyCancelsSettle /\ RequestedAfterSubmit

(* What a step may do to an attempt nobody cancels: leave it and its        *)
(* commands alone, but for one that a worker ends; store a reconcile; or    *)
(* submit the attempt and store its reconcile.                              *)
Ends(a, k) == \E w \in Workers : pc[w] \in {"terminalize", "settle"} /\ Holding(w, a, k)

StaysAsItIs(a) ==
    /\ attempts'[a] = attempts[a] /\ events'[a] = events[a] /\ Present(a)' = Present(a)
    /\ \A k \in Keys :
          IsActive(commands[a][k]) => IsActive(commands'[a][k]) \/ Ends(a, k)

Stores(a, k) ==
    /\ Operation(k) = "reconcile" /\ k \in Keys \ Present(a)
    /\ Present(a)' = Present(a) \cup {k} /\ IsActive(commands'[a][k])

IsReconciled(a) ==
    /\ attempts'[a] = attempts[a] /\ events'[a] = events[a] /\ attempts[a].state = "submitted"
    /\ \E k \in Keys : Stores(a, k)

IsSubmitted(a) ==
    /\ attempts[a].state = "prepared" /\ attempts'[a].state = "submitted"
    /\ \E k \in Keys : Stores(a, k)

AttemptMoves(a) == Live(a)' => StaysAsItIs(a) \/ IsReconciled(a) \/ IsSubmitted(a)

(* What a step may do to a worker.                                          *)
Rests(v) == pc'[v] = pc[v] /\ cur'[v] = cur[v] /\ seen'[v] = seen[v] /\ reading'[v] = reading[v]

Takes(v) ==
    /\ cur'[v] \in HeldClaims(v) /\ seen'[v] = attempts[cur'[v].attempt]
    /\ pc'[v] = IF CommandCanRunFromAttempt(Operation(cur'[v].key), seen'[v].state)
                THEN "heartbeat" ELSE "terminalize"

GoesOn(v) ==
    /\ Past(v) /\ pc[v] # "terminalize" /\ pc'[v] \notin {"terminalize", "commit"}
    /\ cur'[v] = cur[v] /\ seen'[v] = seen[v]
    /\ pc'[v] = "settle" => Op(v) = "cancel"

Reads(v) ==
    /\ pc[v] = "read" /\ pc'[v] = "commit"
    /\ cur'[v] = cur[v] /\ seen'[v] = seen[v] /\ reading'[v] = ReadingOf(cur[v].attempt)

IsRefused(v) ==
    /\ pc[v] = "commit" /\ pc'[v] = "terminalize"
    /\ cur'[v] = cur[v] /\ seen'[v] = seen[v] /\ Conflict(v) = "state_conflict"

WorkerMoves(v) ==
    \/ Rests(v)
    \/ pc'[v] \in Idling
    \/ UNCHANGED storeVars /\ (Takes(v) \/ GoesOn(v) \/ Reads(v) \/ IsRefused(v))

LEMMA KeysOfTheWorker ==
  /\ "submit" \in Keys /\ "sync" \in Keys /\ "reconcile" \in Keys /\ "collect" \in Keys
  /\ Operation("submit") = "submit" /\ Operation("reconcile") = "reconcile"
  /\ CancelKeys \subseteq Keys /\ ReconcileKeys \subseteq Keys
  /\ \A k \in CancelKeys : Operation(k) = "cancel"
  /\ \A k \in ReconcileKeys : Operation(k) = "reconcile"
BY KeysAssumption DEF Keys, WorkerKeys, Operation

(* Nobody stores a cancel on an attempt and takes it back.                  *)
LEMMA LiveBefore ==
  ASSUME NEW a \in Attempts, Live(a)', StaysAsItIs(a) \/ IsReconciled(a) \/ IsSubmitted(a)
  PROVE  Live(a)
BY DEF Live, HasCancelIntent, StaysAsItIs, IsReconciled, IsSubmitted, Stores

(* A worker whose snapshot and sequences are current is not refused for     *)
(* their sake.                                                              *)
LEMMA NoStateConflict ==
  ASSUME NEW w \in Workers, NEW a \in Attempts, a = cur[w].attempt, Live(a), UpToDate(w),
         pc[w] = "commit", reading[w].command = NextCommandSequence(a),
         attempts[a].state = "prepared" => Present(a) = {"submit"},
         NothingIsSynced, CollectAfterSuccess
  PROVE  Conflict(w) # "state_conflict"
<1>1. ~ ActiveCancel(a)
  BY KeysOfTheWorker DEF Live, HasCancelIntent, Present, ActiveCancel, IsActive
<1>2. "collect" \notin Present(a) /\ collections[a] = "none"
  BY DEF CollectAfterSuccess, Live, Present, NothingIsSynced
<1>3. seen[w] = attempts[a] /\ reading[w].event = NextEventSequence(a)
  BY DEF UpToDate
<1>4. CASE attempts[a].state = "prepared"
  <2>1. Op(w) = "submit" /\ Operation(cur[w].key) = "submit"
    BY <1>4 DEF UpToDate, Op
  <2>2. "reconcile" \notin Present(a)
    BY <1>4
  <2>3. /\ ValidAttemptUpdate(a, seen[w], "submitted") /\ ValidAttemptUpdate(a, seen[w], "failed")
        /\ CommandOutcomeTransition("submit", "submitted")
        /\ CommandOutcomeTransition("submit", "failed")
    BY <1>3, <1>4 DEF ValidAttemptUpdate, ValidAttemptTransition, CommandOutcomeTransition
  <2>4. Conflict(w) = IF intent[w] = "response"
                      THEN CommitConflict(w, cur[w], seen[w], reading[w], "submitted", "reconcile")
                      ELSE CommitConflict(w, cur[w], seen[w], reading[w], "failed", None)
    BY <2>1 DEF Conflict, NextState, NextKey
  <2>. QED  BY <1>3, <2>1, <2>2, <2>3, <2>4 DEF CommitConflict
<1>5. CASE attempts[a].state = "submitted"
  <2>1. Op(w) = "reconcile" /\ Operation(cur[w].key) = "reconcile"
    BY <1>5 DEF UpToDate, Op
  <2>2. /\ ValidAttemptUpdate(a, seen[w], "succeeded") /\ ValidAttemptUpdate(a, seen[w], "failed")
        /\ CommandOutcomeTransition("reconcile", "failed")
    BY <1>3, <1>5 DEF ValidAttemptUpdate, ValidAttemptTransition, CommandOutcomeTransition
  <2>3. Conflict(w) = IF intent[w] = "response"
                      THEN PrepareConflict(w, cur[w], seen[w], reading[w])
                      ELSE CommitConflict(w, cur[w], seen[w], reading[w], "failed", None)
    BY <2>1 DEF Conflict
  <2>. QED  BY <1>1, <1>2, <1>3, <2>1, <2>2, <2>3 DEF CommitConflict, PrepareConflict
<1>. QED  BY <1>4, <1>5 DEF Live

(* How a step may move what an attempt nobody cancels is carried by.        *)
LEMMA SoundStays ==
  ASSUME LogInv, ProgressInv, NEW a \in Attempts, Live(a), attempts[a].state = "submitted",
         StaysAsItIs(a), \A v \in Workers : WorkerMoves(v), NEW k \in Keys, Sound(a, k)
  PROVE  Sound(a, k)'
<1>1. IsActive(commands'[a][k])
  <2>. SUFFICES ASSUME NEW w \in Workers, pc[w] \in {"terminalize", "settle"}, Holding(w, a, k)
                PROVE  FALSE
    BY DEF StaysAsItIs, Ends, Sound
  <2>1. pc[w] # "terminalize"
    BY DEF Sound, Doomed
  <2>2. Op(w) = "reconcile"
    BY DEF Sound, Holding, Op
  <2>. QED  BY <2>1, <2>2 DEF ProgressInv, OnlyCancelsSettle
<1>2. ASSUME NEW v \in Workers, Holding(v, a, k)'
      PROVE  ~ Doomed(v)'
  <2>0. cur'[v].attempt = a /\ cur'[v].key = k /\ pc'[v] \notin Idling
    BY <1>2 DEF Holding, Past
  <2>1. NextCommandSequence(a)' = NextCommandSequence(a)
    BY DEF StaysAsItIs, NextCommandSequence
  <2>2. CASE Rests(v)
    <3>1. Holding(v, a, k)
      BY <2>0, <2>2 DEF Rests, Holding, Past
    <3>2. ~ Doomed(v)
      BY <3>1 DEF Sound
    <3>. QED  BY <2>0, <2>1, <2>2, <3>2 DEF Rests, Doomed
  <2>3. CASE UNCHANGED storeVars /\ Takes(v)
    <3>1. Operation(cur'[v].key) = "reconcile" /\ seen'[v].state = "submitted"
      BY <2>0, <2>3 DEF Takes, Sound
    <3>2. pc'[v] = "heartbeat"
      BY <2>3, <3>1 DEF Takes, CommandCanRunFromAttempt
    <3>. QED  BY <3>2 DEF Doomed
  <2>4. CASE UNCHANGED storeVars /\ GoesOn(v)
    BY <2>4 DEF GoesOn, Doomed
  <2>5. CASE UNCHANGED storeVars /\ Reads(v)
    <3>1. reading'[v].command = NextCommandSequence(a) /\ pc'[v] = "commit"
      BY <2>0, <2>5 DEF Reads, ReadingOf
    <3>. QED  BY <2>0, <2>1, <3>1 DEF Doomed
  <2>6. CASE UNCHANGED storeVars /\ IsRefused(v)
    <3>1. Holding(v, a, k) /\ pc[v] = "commit"
      BY <2>0, <2>6 DEF IsRefused, Holding, Past, Idling
    <3>2. cur[v].attempt = a /\ Op(v) = "reconcile" /\ Past(v)
      BY <3>1 DEF Holding, Op, Sound
    <3>3. reading[v].command = NextCommandSequence(a)
      BY <3>1, <3>2 DEF Sound, Doomed
    <3>4. UpToDate(v)
      BY <3>1, <3>2 DEF ProgressInv, WorkersAreCurrent, Ending, Straggling
    <3>. QED
      BY <2>6, <3>1, <3>2, <3>3, <3>4, NoStateConflict DEF IsRefused, ProgressInv, LogInv
  <2>. QED  BY <2>0, <2>2, <2>3, <2>4, <2>5, <2>6 DEF WorkerMoves
<1>. QED  BY <1>1, <1>2 DEF Sound

(* A reconcile that has just been stored is held by nobody.                 *)
LEMMA StoredIsSound ==
  ASSUME ProgressInv, NEW a \in Attempts, NEW k \in Keys, Stores(a, k),
         \A v \in Workers : WorkerMoves(v)
  PROVE  Sound(a, k)'
<1>1. ~ UNCHANGED storeVars
  BY DEF Stores, Present, storeVars
<1>2. ASSUME NEW v \in Workers, Holding(v, a, k)'  PROVE FALSE
  <2>1. Rests(v)
    BY <1>1, <1>2 DEF WorkerMoves, Holding, Past
  <2>2. Holding(v, a, k)
    BY <1>2, <2>1 DEF Rests, Holding, Past
  <2>3. cur[v] \in HeldClaims(v) /\ cur[v].attempt = a /\ cur[v].key = k
    BY <2>2 DEF Holding, HeldClaims
  <2>. QED  BY <2>3 DEF ProgressInv, HeldArePresent, Stores
<1>. QED  BY <1>2 DEF Stores, Sound

LEMMA CarriedStep ==
  ASSUME LogInv, ProgressInv, \A a \in Attempts : AttemptMoves(a), \A v \in Workers : WorkerMoves(v)
  PROVE  AttemptsAreCarried'
<1>. SUFFICES ASSUME NEW a \in Attempts, Live(a)'
              PROVE  /\ attempts'[a].state = "prepared" =>
                           IsActive(commands'[a]["submit"]) /\ Present(a)' = {"submit"}
                     /\ attempts'[a].state = "submitted" => \E k \in Keys : Sound(a, k)'
  BY DEF AttemptsAreCarried, IsActive
<1>1. StaysAsItIs(a) \/ IsReconciled(a) \/ IsSubmitted(a)
  BY DEF AttemptMoves
<1>2. Live(a)
  BY <1>1, LiveBefore
<1>3. CASE StaysAsItIs(a) /\ attempts[a].state = "prepared"
  <2>1. IsActive(commands[a]["submit"]) /\ Present(a) = {"submit"}
    BY <1>2, <1>3 DEF ProgressInv, AttemptsAreCarried
  <2>2. ASSUME NEW w \in Workers, pc[w] \in {"terminalize", "settle"}, Holding(w, a, "submit")
        PROVE  FALSE
    <3>1. Past(w) /\ cur[w].attempt = a /\ Op(w) = "submit"
      BY <2>2, KeysOfTheWorker DEF Holding, Op
    <3>2. pc[w] = "terminalize"
      BY <2>2, <3>1 DEF ProgressInv, OnlyCancelsSettle
    <3>. QED
      BY <1>2, <1>3, <3>1, <3>2
         DEF ProgressInv, WorkersAreCurrent, Ending, Straggling, UpToDate
  <2>. QED  BY <1>3, <2>1, <2>2, KeysOfTheWorker DEF StaysAsItIs, Ends
<1>4. CASE StaysAsItIs(a) /\ attempts[a].state = "submitted"
  <2>1. PICK k \in Keys : Sound(a, k)
    BY <1>2, <1>4 DEF ProgressInv, AttemptsAreCarried
  <2>2. Sound(a, k)'
    BY <1>2, <1>4, <2>1, SoundStays
  <2>. QED  BY <1>4, <2>2 DEF StaysAsItIs
<1>5. CASE IsReconciled(a) \/ IsSubmitted(a)
  <2>1. PICK k \in Keys : Stores(a, k)
    BY <1>5 DEF IsReconciled, IsSubmitted
  <2>2. Sound(a, k)'
    BY <2>1, StoredIsSound
  <2>. QED  BY <1>5, <2>2 DEF IsReconciled, IsSubmitted
<1>. QED  BY <1>1, <1>2, <1>3, <1>4, <1>5 DEF Live

(* A worker that rests knows the row still, or holds a submit that another  *)
(* worker brought to an end.                                                *)
LEMMA RestingStaysCurrent ==
  ASSUME ProgressInv, NEW v \in Workers, NEW a \in Attempts, cur[v].attempt = a,
         Past(v), Live(a), Rests(v), StaysAsItIs(a) \/ IsReconciled(a) \/ IsSubmitted(a)
  PROVE  (Ending(v) \/ Straggling(v) \/ UpToDate(v))'
<1>0. Ending(v) \/ Straggling(v) \/ UpToDate(v)
  BY DEF ProgressInv, WorkersAreCurrent
<1>1. /\ pc'[v] = pc[v] /\ cur'[v] = cur[v] /\ seen'[v] = seen[v] /\ reading'[v] = reading[v]
      /\ Op(v)' = Op(v) /\ cur'[v].attempt = a
  BY DEF Rests, Op
<1>2. CASE StaysAsItIs(a)
  <2>1. /\ NextCommandSequence(a)' = NextCommandSequence(a)
        /\ NextEventSequence(a)' = NextEventSequence(a)
        /\ attempts'[a] = attempts[a]
    BY <1>2 DEF StaysAsItIs, NextCommandSequence, NextEventSequence
  <2>2. Ending(v) => Ending(v)'
    BY <1>1, <2>1 DEF Ending
  <2>3. Straggling(v) => Straggling(v)'
    BY <1>1, <2>1 DEF Straggling
  <2>4. UpToDate(v) => UpToDate(v)'
    BY <1>1, <2>1 DEF UpToDate
  <2>. QED  BY <1>0, <2>2, <2>3, <2>4
<1>3. CASE IsReconciled(a)
  <2>1. /\ NextEventSequence(a)' = NextEventSequence(a)
        /\ attempts'[a] = attempts[a] /\ attempts[a].state = "submitted"
    BY <1>3 DEF IsReconciled, NextEventSequence
  <2>2. Ending(v) => Ending(v)'
    BY <1>1, <2>1 DEF Ending
  <2>3. Straggling(v) => Straggling(v)'
    BY <1>1, <2>1 DEF Straggling
  <2>4. UpToDate(v) => UpToDate(v)'
    BY <1>1, <2>1 DEF UpToDate
  <2>. QED  BY <1>0, <2>2, <2>3, <2>4
<1>4. CASE IsSubmitted(a)
  <2>1. attempts[a].state = "prepared" /\ attempts'[a].state = "submitted"
    BY <1>4 DEF IsSubmitted
  <2>2. UpToDate(v)
    BY <1>0, <2>1 DEF Ending, Straggling
  <2>3. pc[v] # "terminalize" /\ Op(v) = "submit" /\ seen[v].state = "prepared"
    BY <2>1, <2>2 DEF UpToDate
  <2>4. Straggling(v)'
    BY <1>1, <2>1, <2>3 DEF Straggling
  <2>. QED  BY <2>4
<1>. QED  BY <1>2, <1>3, <1>4

(* A worker that takes a command of an attempt nobody cancels.              *)
LEMMA TakenIsCurrent ==
  ASSUME LogInv, ProgressInv, StoreTypeOK, NEW v \in Workers, NEW a \in Attempts,
         UNCHANGED storeVars, Takes(v), cur'[v].attempt = a, Live(a)
  PROVE  (Ending(v) \/ UpToDate(v))'
<1>. DEFINE k == cur'[v].key
<1>1. k \in Present(a) /\ seen'[v] = attempts[a] /\ attempts'[a] = attempts[a]
  BY DEF ProgressInv, HeldArePresent, Takes, storeVars
<1>2. k \in Keys /\ k \notin CancelKeys
  BY <1>1 DEF Present, Live, HasCancelIntent
<1>3. pc'[v] \in {"heartbeat", "terminalize"}
  BY DEF Takes
<1>4. CASE attempts[a].state = "prepared"
  <2>1. k = "submit"
    BY <1>1, <1>4 DEF ProgressInv, AttemptsAreCarried
  <2>2. pc'[v] = "heartbeat" /\ Op(v)' = "submit"
    BY <1>1, <1>4, <2>1, KeysOfTheWorker DEF Takes, CommandCanRunFromAttempt, Op
  <2>3. UpToDate(v)'
    BY <1>1, <1>4, <2>2 DEF UpToDate
  <2>. QED  BY <2>3
<1>5. CASE attempts[a].state = "submitted"
  <2>1. k # "collect" /\ k # "sync"
    BY <1>1, <1>5 DEF LogInv, CollectAfterSuccess, Present, ProgressInv, NothingIsSynced
  <2>2. Operation(k) \in {"submit", "reconcile"}
    BY <1>2, <2>1, OperationOfKey
  <2>3. CASE pc'[v] = "terminalize"
    <3>1. Ending(v)'
      BY <1>1, <1>5, <2>3 DEF Ending
    <3>. QED  BY <3>1
  <2>4. CASE pc'[v] # "terminalize"
    <3>1. pc'[v] = "heartbeat"
      BY <1>3, <2>4
    <3>2. Operation(k) = "reconcile"
      BY <1>1, <1>5, <2>2, <2>4 DEF Takes, CommandCanRunFromAttempt
    <3>3. Op(v)' = "reconcile"
      BY <3>2 DEF Op
    <3>4. UpToDate(v)'
      BY <1>1, <1>5, <3>1, <3>3 DEF UpToDate
    <3>. QED  BY <3>4
  <2>. QED  BY <2>3, <2>4
<1>. QED  BY <1>4, <1>5 DEF Live

(* A worker that goes on with its command.                                  *)
LEMMA WorkingStaysCurrent ==
  ASSUME LogInv, ProgressInv, NEW v \in Workers, NEW a \in Attempts, cur[v].attempt = a,
         UNCHANGED storeVars, GoesOn(v) \/ Reads(v) \/ IsRefused(v), Live(a)
  PROVE  (Ending(v) \/ Straggling(v) \/ UpToDate(v))'
<1>1. Past(v) /\ pc[v] # "terminalize"
  BY DEF GoesOn, Reads, IsRefused, Past, Idling
<1>2. Straggling(v) \/ UpToDate(v)
  BY <1>1 DEF ProgressInv, WorkersAreCurrent, Ending
<1>3. /\ cur'[v] = cur[v] /\ seen'[v] = seen[v] /\ Op(v)' = Op(v)
      /\ attempts' = attempts /\ NextEventSequence(a)' = NextEventSequence(a)
      /\ NextCommandSequence(a)' = NextCommandSequence(a)
  BY DEF GoesOn, Reads, IsRefused, Op, storeVars, NextEventSequence, NextCommandSequence, Present
<1>4. CASE GoesOn(v) \/ Reads(v)
  <2>1. pc'[v] # "terminalize"
    BY <1>4 DEF GoesOn, Reads
  <2>2. Straggling(v) => Straggling(v)'
    BY <1>3, <2>1 DEF Straggling
  <2>3. pc'[v] = "commit" =>
           /\ reading'[v].event = NextEventSequence(a)
           /\ reading'[v].command = NextCommandSequence(a)
    BY <1>4 DEF GoesOn, Reads, ReadingOf
  <2>4. UpToDate(v) => UpToDate(v)'
    BY <1>3, <2>1, <2>3 DEF UpToDate
  <2>. QED  BY <1>2, <2>2, <2>4
<1>5. CASE IsRefused(v)
  <2>1. attempts[a].state = "submitted"
    <3>. SUFFICES ASSUME attempts[a].state = "prepared" PROVE FALSE
      BY DEF Live
    <3>1. UpToDate(v)
      BY <1>2 DEF Straggling
    <3>2. pc[v] = "commit" /\ reading[v].command = NextCommandSequence(a)
      BY <1>5, <3>1 DEF IsRefused, UpToDate
    <3>3. Present(a) = {"submit"}
      BY DEF ProgressInv, AttemptsAreCarried
    <3>. QED  BY <1>5, <3>1, <3>2, <3>3, NoStateConflict DEF IsRefused, ProgressInv, LogInv
  <2>2. Ending(v)'
    BY <1>3, <1>5, <2>1 DEF Ending, IsRefused
  <2>. QED  BY <2>2
<1>. QED  BY <1>4, <1>5

LEMMA CurrentStep ==
  ASSUME LogInv, ProgressInv, StoreTypeOK, HoldsCommand, HoldsCommand',
         \A a \in Attempts : AttemptMoves(a), \A v \in Workers : WorkerMoves(v)
  PROVE  WorkersAreCurrent'
<1>. SUFFICES ASSUME NEW v \in Workers, Past(v)', Live(cur[v].attempt)'
              PROVE  (Ending(v) \/ Straggling(v) \/ UpToDate(v))'
  BY DEF WorkersAreCurrent
<1>h. cur'[v].attempt \in Attempts
  BY DEF HoldsCommand, Past, Idling, Claim
<1>0. PICK a \in Attempts : a = cur'[v].attempt
  BY <1>h
<1>1. StaysAsItIs(a) \/ IsReconciled(a) \/ IsSubmitted(a)
  BY <1>0 DEF AttemptMoves
<1>2. Live(a)
  BY <1>0, <1>1, LiveBefore
<1>3. CASE Rests(v)
  <2>1. Past(v) /\ cur[v].attempt = a
    BY <1>0, <1>3 DEF Rests, Past
  <2>. QED  BY <1>0, <1>1, <1>2, <1>3, <2>1, RestingStaysCurrent
<1>4. CASE UNCHANGED storeVars /\ Takes(v)
  BY <1>0, <1>2, <1>4, TakenIsCurrent
<1>5. CASE UNCHANGED storeVars /\ (GoesOn(v) \/ Reads(v) \/ IsRefused(v))
  <2>1. cur[v].attempt = a
    BY <1>0, <1>5 DEF GoesOn, Reads, IsRefused
  <2>. QED  BY <1>0, <1>2, <1>5, <2>1, WorkingStaysCurrent
<1>. QED  BY <1>3, <1>4, <1>5 DEF WorkerMoves, Past

-----------------------------------------------------------------------------
(* Each transaction of the store moves attempts in these ways.              *)

(* Commands are never removed and no sync is stored; no attempt comes to    *)
(* run or back to prepared; only a success gets a collection.               *)
RowsGrow ==
    \A a \in Attempts :
        /\ Present(a) \subseteq Present(a)' /\ Present(a)' \subseteq Present(a) \cup (Keys \ {"sync"})
        /\ attempts'[a].state \in {"prepared", "running"} => attempts'[a].state = attempts[a].state
        /\ attempts[a].state = "succeeded" => attempts'[a].state = "succeeded"
        /\ collections'[a] = collections[a] \/ attempts'[a].state = "succeeded"

StoreMoves == RowsGrow /\ \A a \in Attempts : AttemptMoves(a)

LEMMA SameStoreMoves ==
  ASSUME UNCHANGED storeVars
  PROVE  StoreMoves
BY DEF storeVars, StoreMoves, RowsGrow, AttemptMoves, StaysAsItIs, Present

(* A transaction that rewrites rows of stored commands and ends only what   *)
(* a worker is about to end.                                                *)
LEMMA RewrittenRowsMove ==
  ASSUME UNCHANGED <<attempts, events, collections>>,
         \A a \in Attempts, k \in Keys :
            /\ commands'[a][k].state = "absent" <=> commands[a][k].state = "absent"
            /\ IsActive(commands[a][k]) => IsActive(commands'[a][k]) \/ Ends(a, k)
  PROVE  StoreMoves
<1>1. \A a \in Attempts : Present(a)' = Present(a)
  BY DEF Present
<1>. QED  BY <1>1 DEF StoreMoves, RowsGrow, AttemptMoves, StaysAsItIs

LEMMA ClaimsAreMoves ==
  ASSUME StoreTypeOK, NEW w \in Workers, NEW cancels \in BOOLEAN, ClaimCommands(w, Ready(cancels))
  PROVE  StoreMoves
<1>1. ASSUME NEW a \in Attempts, NEW k \in Keys
      PROVE  /\ commands'[a][k].state = "absent" <=> commands[a][k].state = "absent"
             /\ IsActive(commands[a][k]) => IsActive(commands'[a][k])
  <2>1. CASE <<a, k>> \in Ready(cancels)
    <3>1. commands'[a][k].state = "claimed"
      BY <2>1 DEF ClaimCommands, Claimed
    <3>2. commands[a][k].state \in {"pending", "claimed"}
      BY <2>1 DEF Ready, CommandReady
    <3>. QED  BY <3>1, <3>2 DEF IsActive
  <2>2. CASE <<a, k>> \notin Ready(cancels)
    <3>1. commands'[a][k] = commands[a][k]
      BY <2>2 DEF ClaimCommands
    <3>. QED  BY <3>1
  <2>. QED  BY <2>1, <2>2
<1>. QED  BY <1>1, RewrittenRowsMove DEF ClaimCommands

(* One row of a stored command is rewritten.                                *)
LEMMA RewrittenRowMoves ==
  ASSUME StoreTypeOK, UNCHANGED <<attempts, events, collections>>,
         NEW x \in Attempts, NEW y \in Keys, NEW command,
         commands' = [commands EXCEPT ![x][y] = command],
         command.state # "absent", commands[x][y].state # "absent",
         IsActive(command) \/ ~ IsActive(commands[x][y]) \/ Ends(x, y)
  PROVE  StoreMoves
<1>1. commands'[x][y] = command
  BY DEF StoreTypeOK
<1>2. ASSUME NEW a \in Attempts, NEW k \in Keys, ~ (a = x /\ k = y)
      PROVE  commands'[a][k] = commands[a][k]
  BY <1>2 DEF StoreTypeOK
<1>3. ASSUME NEW a \in Attempts, NEW k \in Keys
      PROVE  /\ commands'[a][k].state = "absent" <=> commands[a][k].state = "absent"
             /\ IsActive(commands[a][k]) => IsActive(commands'[a][k]) \/ Ends(a, k)
  <2>1. CASE a = x /\ k = y
    BY <1>1, <2>1
  <2>2. CASE ~ (a = x /\ k = y)
    <3>1. commands'[a][k] = commands[a][k]
      BY <1>2, <2>2
    <3>. QED  BY <3>1
  <2>. QED  BY <2>1, <2>2
<1>. QED  BY <1>3, RewrittenRowsMove

LEMMA GivingBackMoves ==
  ASSUME StoreTypeOK, NEW w \in Workers, cur[w] \in Claim, Past(w),
         \/ ReleaseCommand(w, cur[w])
         \/ TerminalizeCommand(w, cur[w], "conflict") /\ pc[w] \in {"terminalize", "settle"}
  PROVE  StoreMoves
<1>. DEFINE x == cur[w].attempt
            y == cur[w].key
<1>0. x \in Attempts /\ y \in Keys
  BY DEF Claim
<1>1. CASE ReleaseCommand(w, cur[w])
  <2>. DEFINE command == Completed(commands[x][y], "pending", "none")
  <2>1. commands' = [commands EXCEPT ![x][y] = command]
    BY <1>1 DEF ReleaseCommand
  <2>2. command.state = "pending" /\ commands[x][y].state = "claimed"
    BY <1>1 DEF ReleaseCommand, RequireClaimedCommand, Completed
  <2>3. UNCHANGED <<attempts, events, collections>>
    BY <1>1 DEF ReleaseCommand
  <2>. HIDE DEF command
  <2>. QED  BY <1>0, <2>1, <2>2, <2>3, RewrittenRowMoves DEF IsActive
<1>2. CASE TerminalizeCommand(w, cur[w], "conflict") /\ pc[w] \in {"terminalize", "settle"}
  <2>. DEFINE command == Completed(commands[x][y], "terminal", "conflict")
  <2>1. commands' = [commands EXCEPT ![x][y] = command]
    BY <1>2 DEF TerminalizeCommand
  <2>2. command.state = "terminal" /\ commands[x][y].state \in {"claimed", "terminal"}
    BY <1>2 DEF TerminalizeCommand, RequireClaimedCommand, Completed
  <2>3. UNCHANGED <<attempts, events, collections>>
    BY <1>2 DEF TerminalizeCommand
  <2>4. Ends(x, y)
    BY <1>2 DEF Ends, Holding
  <2>. HIDE DEF command
  <2>. QED  BY <1>0, <2>1, <2>2, <2>3, <2>4, RewrittenRowMoves
<1>. QED  BY <1>1, <1>2

LEMMA ExpiryMoves ==
  ASSUME StoreTypeOK, NEW x \in Attempts, NEW y \in Keys, Expire(x, y)
  PROVE  StoreMoves
<1>. DEFINE command == [commands[x][y] EXCEPT !.live = FALSE]
<1>1. commands' = [commands EXCEPT ![x][y] = command] /\ UNCHANGED <<attempts, events, collections>>
  BY DEF Expire, StoreTypeOK
<1>2. command.state = "claimed" /\ commands[x][y].state = "claimed"
  BY DEF Expire, StoreTypeOK, Command
<1>. HIDE DEF command
<1>. QED  BY <1>1, <1>2, RewrittenRowMoves DEF IsActive

LEMMA EnqueueMoves ==
  ASSUME StoreTypeOK, ProgressInv, NEW x \in Attempts, NEW y \in OperatorKeys,
         NEW sn, NEW read, requests[x][y] # None,
         CancelBeforeSubmit(x, y, sn, read) \/ EnqueueIntent(x, y, sn, read)
  PROVE  StoreMoves
<1>0. /\ y \in Keys /\ y \notin {"submit", "sync"} /\ y \notin Present(x)
      /\ "submit" \in Keys
  BY KeysAssumption DEF OperatorKeys, Keys, WorkerKeys, CancelBeforeSubmit, EnqueueIntent,
                        EnqueueChecks
<1>1. CASE CancelBeforeSubmit(x, y, sn, read)
  <2>1. /\ attempts'[x].state = "cancelled" /\ attempts[x].state = "prepared"
        /\ \A a \in Attempts \ {x} : attempts'[a] = attempts[a] /\ events'[a] = events[a]
        /\ UNCHANGED collections
    BY <1>1 DEF CancelBeforeSubmit, Transitioned, StoreTypeOK
  <2>2. ASSUME NEW a \in Attempts, NEW k \in Keys
        PROVE  /\ commands[a][k].state # "absent" => commands'[a][k].state # "absent"
               /\ a # x => commands'[a][k] = commands[a][k]
               /\ k = "sync" => commands'[a][k] = commands[a][k]
    BY <1>0, <1>1 DEF CancelBeforeSubmit, Completed, NewCommand, StoreTypeOK
  <2>3. ASSUME NEW a \in Attempts
        PROVE  /\ Present(a) \subseteq Present(a)'
               /\ Present(a)' \subseteq Present(a) \cup (Keys \ {"sync"})
    BY <2>2 DEF Present
  <2>4. ASSUME NEW a \in Attempts \ {x}  PROVE StaysAsItIs(a)
    BY <2>1, <2>2 DEF StaysAsItIs, Present
  <2>5. ~ Live(x)'
    BY <2>1 DEF Live
  <2>. QED  BY <2>1, <2>3, <2>4, <2>5 DEF StoreMoves, RowsGrow, AttemptMoves
<1>2. CASE EnqueueIntent(x, y, sn, read)
  <2>1. /\ UNCHANGED <<attempts, events, collections>> /\ commands'[x][y].state = "pending"
        /\ \A a \in Attempts, k \in Keys : ~ (a = x /\ k = y) => commands'[a][k] = commands[a][k]
    BY <1>0, <1>2 DEF EnqueueIntent, NewCommand, StoreTypeOK
  <2>2. Present(x)' = Present(x) \cup {y}
    BY <1>0, <2>1 DEF Present
  <2>3. ASSUME NEW a \in Attempts \ {x}  PROVE StaysAsItIs(a)
    BY <2>1 DEF StaysAsItIs, Present
  <2>4. RowsGrow
    BY <1>0, <2>1, <2>2, <2>3 DEF RowsGrow, StaysAsItIs
  <2>5. AttemptMoves(x)
    <3>1. CASE y \in CancelKeys
      <4>1. ~ Live(x)'
        BY <2>2, <3>1 DEF Live, HasCancelIntent
      <4>. QED  BY <4>1 DEF AttemptMoves
    <3>2. CASE y \in ReconcileKeys
      <4>1. attempts[x].state # "prepared"
        BY <3>2 DEF ProgressInv, RequestedAfterSubmit
      <4>2. Stores(x, y)
        BY <1>0, <2>1, <2>2, <3>2, KeysOfTheWorker DEF Stores, IsActive
      <4>. QED  BY <1>0, <2>1, <4>1, <4>2 DEF AttemptMoves, Live, IsReconciled
    <3>. QED  BY <3>1, <3>2 DEF OperatorKeys
  <2>. QED  BY <2>3, <2>4, <2>5 DEF StoreMoves, AttemptMoves
<1>. QED  BY <1>1, <1>2

LEMMA CommitMoves ==
  ASSUME IInvType, LogInv, ProgressInv, NEW w \in Workers, Commit(w)
  PROVE  StoreMoves
<1>h. cur[w].attempt \in Attempts /\ cur[w].key \in Keys /\ StoreTypeOK /\ cur[w] \in Claim
  BY HeldCommand DEF Commit
<1>p. PICK x \in Attempts, y \in Keys : x = cur[w].attempt /\ y = cur[w].key
  BY <1>h
<1>0. /\ x = cur[w].attempt /\ y = cur[w].key /\ StoreTypeOK /\ pc[w] = "commit"
      /\ cur[w] \in Claim /\ attempts[x].state \in LifecycleStates
  BY <1>h, <1>p DEF Commit, StoreTypeOK, Attempt
<1>1. y \in Present(x) /\ y # "sync"
  <2>1. cur[w] \in HeldClaims(w)
    BY <1>0 DEF HeldClaims, Past, Idling
  <2>. QED  BY <1>0, <2>1 DEF ProgressInv, HeldArePresent, NothingIsSynced
<1>a. ASSUME RowsGrow, ~ Live(x)', \A a \in Attempts \ {x} : StaysAsItIs(a)  PROVE StoreMoves
  BY <1>a DEF StoreMoves, AttemptMoves
<1>2. CASE PrepareCollection(w, cur[w], seen[w], reading[w])
  <2>1. /\ attempts'[x].state = "succeeded"
        /\ \A a \in Attempts \ {x} :
              attempts'[a] = attempts[a] /\ events'[a] = events[a] /\ collections'[a] = collections[a]
    BY <1>0, <1>2 DEF PrepareCollection, Transitioned, StoreTypeOK
  <2>2. ASSUME NEW a \in Attempts, NEW k \in Keys
        PROVE  /\ commands[a][k].state # "absent" => commands'[a][k].state # "absent"
               /\ a # x => commands'[a][k] = commands[a][k]
               /\ a = x /\ k = "sync" => commands'[a][k] = commands[a][k]
    BY <1>0, <1>1, <1>2 DEF PrepareCollection, Completed, NewCommand, StoreTypeOK
  <2>3. ASSUME NEW a \in Attempts \ {x}  PROVE StaysAsItIs(a)
    BY <2>1, <2>2 DEF StaysAsItIs, Present
  <2>4. Present(x) \subseteq Present(x)' /\ Present(x)' \subseteq Present(x) \cup (Keys \ {"sync"})
    BY <1>0, <2>2 DEF Present
  <2>5. RowsGrow
    BY <2>1, <2>3, <2>4 DEF RowsGrow, StaysAsItIs
  <2>. QED  BY <1>a, <2>1, <2>3, <2>5 DEF Live
<1>3. ASSUME Op(w) = "collect", NEW next, CommitCollectionCompletion(w, cur[w], reading[w], next)
      PROVE  StoreMoves
  <2>1. attempts[x].state = "succeeded"
    BY <1>0, <1>1, <1>3, OperationOfKey DEF Op, Present, LogInv, CollectAfterSuccess
  <2>2. /\ UNCHANGED attempts
        /\ \A a \in Attempts \ {x} : events'[a] = events[a] /\ collections'[a] = collections[a]
    BY <1>0, <1>3 DEF CommitCollectionCompletion, StoreTypeOK
  <2>3. ASSUME NEW a \in Attempts, NEW k \in Keys
        PROVE  /\ commands'[a][k].state = "absent" <=> commands[a][k].state = "absent"
               /\ a # x => commands'[a][k] = commands[a][k]
    <3>1. commands[x][y].state = "claimed"
      BY <1>0, <1>3 DEF CommitCollectionCompletion, RequireClaimedCommand
    <3>2. commands'[x][y].state \in {"succeeded", "terminal"}
      BY <1>0, <1>3 DEF CommitCollectionCompletion, Completed, StoreTypeOK
    <3>3. ~ (a = x /\ k = y) => commands'[a][k] = commands[a][k]
      BY <1>0, <1>3 DEF CommitCollectionCompletion, StoreTypeOK
    <3>. QED  BY <3>1, <3>2, <3>3
  <2>4. ASSUME NEW a \in Attempts \ {x}  PROVE StaysAsItIs(a)
    BY <2>2, <2>3 DEF StaysAsItIs, Present
  <2>5. Present(x)' = Present(x)
    BY <1>0, <2>3 DEF Present
  <2>6. RowsGrow
    BY <2>1, <2>2, <2>4, <2>5 DEF RowsGrow, StaysAsItIs
  <2>. QED  BY <1>a, <2>1, <2>2, <2>4, <2>6 DEF Live
<1>4. ASSUME NEW next \in {"submitted", "running", "cancelled", "failed"},
             NEW nextKey \in {"reconcile", None}, NEW error,
             CommitCommandOutcome(w, cur[w], seen[w], reading[w], next, nextKey, error),
             next = "submitted" => Op(w) = "submit" /\ nextKey = "reconcile"
      PROVE  StoreMoves
  <2>1. /\ attempts'[x].state = next /\ UNCHANGED collections
        /\ \A a \in Attempts \ {x} : attempts'[a] = attempts[a] /\ events'[a] = events[a]
        /\ seen[w].state = attempts[x].state
        /\ <<attempts[x].state, next>> \in ValidAttemptTransition
    BY <1>0, <1>4 DEF CommitCommandOutcome, Transitioned, ValidAttemptUpdate, StoreTypeOK
  <2>2. next # "running" /\ attempts[x].state # "succeeded"
    <3>1. next = "running" => Operation(y) = "sync"
      BY <1>0, <1>4 DEF CommitCommandOutcome, CommandOutcomeTransition
    <3>. QED  BY <1>0, <1>1, <2>1, <3>1, OperationOfKey, TransitionShape DEF IsTerminal
  <2>3. ASSUME NEW a \in Attempts, NEW k \in Keys
        PROVE  /\ commands[a][k].state # "absent" => commands'[a][k].state # "absent"
               /\ a # x => commands'[a][k] = commands[a][k]
               /\ a = x /\ k = y => commands'[a][k].state # "absent"
               /\ a = x /\ k # y /\ k # nextKey => commands'[a][k] = commands[a][k]
               /\ a = x /\ k # y /\ k = nextKey => commands'[a][k] = NewCommand
    BY <1>0, <1>4 DEF CommitCommandOutcome, Completed, NewCommand, StoreTypeOK
  <2>4. ASSUME NEW a \in Attempts \ {x}  PROVE StaysAsItIs(a)
    BY <2>1, <2>3 DEF StaysAsItIs, Present
  <2>5. nextKey # "sync"
    BY <1>4, NoneAssumption DEF WorkerKeys
  <2>6. Present(x) \subseteq Present(x)' /\ Present(x)' \subseteq Present(x) \cup (Keys \ {"sync"})
    BY <1>0, <1>1, <2>3, <2>5 DEF Present
  <2>7. RowsGrow
    BY <1>0, <2>1, <2>2, <2>4, <2>6 DEF RowsGrow, StaysAsItIs
  <2>8. CASE next = "submitted" /\ Live(x)
    <3>1. UpToDate(w) /\ attempts[x].state = "prepared"
      <4>1. Ending(w) \/ Straggling(w) \/ UpToDate(w)
        BY <1>0, <2>8 DEF ProgressInv, WorkersAreCurrent, Past, Idling
      <4>. QED
        BY <1>0, <1>4, <2>1, <2>8, <4>1 DEF Ending, Straggling, UpToDate, Live
    <3>2. Present(x) = {"submit"} /\ y = "submit"
      BY <1>0, <1>4, <2>8, <3>1, OperationOfKey DEF ProgressInv, AttemptsAreCarried, Op
    <3>3. nextKey = "reconcile" /\ nextKey \in Keys /\ nextKey \notin Present(x)
      BY <1>4, <2>8, <3>2, KeysOfTheWorker
    <3>4. Present(x)' = Present(x) \cup {nextKey}
      BY <1>0, <2>3, <3>2, <3>3 DEF Present, NewCommand
    <3>5. Stores(x, nextKey)
      BY <1>0, <2>3, <3>2, <3>3, <3>4, KeysOfTheWorker DEF Stores, IsActive, NewCommand
    <3>6. IsSubmitted(x)
      BY <2>1, <2>8, <3>1, <3>3, <3>5 DEF IsSubmitted
    <3>. QED  BY <2>4, <2>7, <3>6 DEF StoreMoves, AttemptMoves
  <2>9. CASE ~ (next = "submitted" /\ Live(x))
    <3>1. ~ Live(x)'
      <4>1. CASE next = "submitted"
        <5>1. HasCancelIntent(x)
          BY <1>0, <1>4, <2>1, <2>9, <4>1, TransitionShape DEF Live
        <5>. QED  BY <2>6, <5>1 DEF Live, HasCancelIntent
      <4>2. CASE next # "submitted"
        BY <1>4, <2>1, <2>2, <4>2 DEF Live
      <4>. QED  BY <4>1, <4>2
    <3>. QED  BY <1>a, <2>4, <2>7, <3>1
  <2>. QED  BY <2>8, <2>9
<1>. QED  BY <1>2, <1>3, <1>4, CommitTransaction


LEMMA StepStoreMoves ==
  ASSUME IInvType, LogInv, ProgressInv, [Next]_vars
  PROVE  StoreMoves
<1>0. StoreTypeOK
  BY DEF IInvType, TypeInv, ControlTypeOK
<1>1. ASSUME NEW w \in Workers, ControlStep(w)  PROVE StoreMoves
  <2>1. CASE ClaimCancellations(w)
    BY <1>0, <2>1, ClaimsAreMoves DEF ClaimCancellations
  <2>2. CASE ClaimProgressions(w)
    BY <1>0, <2>2, ClaimsAreMoves DEF ClaimProgressions
  <2>3. CASE Take(w) \/ Heartbeat(w)
    BY <2>3, SameStoreMoves DEF Take, Heartbeat
  <2>4. CASE Release(w)
    <3>1. cur[w] \in Claim /\ Past(w)
      BY <2>4, HeldCommand DEF Release, Past, Idling
    <3>. QED  BY <1>0, <2>4, <3>1, GivingBackMoves, SameStoreMoves DEF Release
  <2>5. CASE Terminalize(w)
    <3>1. cur[w] \in Claim /\ Past(w)
      BY <2>5, HeldCommand DEF Terminalize, Past, Idling
    <3>. QED  BY <1>0, <2>5, <3>1, GivingBackMoves, SameStoreMoves DEF Terminalize
  <2>. QED  BY <1>1, <2>1, <2>2, <2>3, <2>4, <2>5 DEF ControlStep
<1>2. ASSUME NEW w \in Workers, Commit(w)  PROVE StoreMoves
  BY <1>2, CommitMoves
<1>3. ASSUME NEW w \in Workers, PollAgain(w) \/ Settle(w)  PROVE StoreMoves
  <2>1. cur[w] \in Claim /\ Past(w)
    BY <1>3, HeldCommand DEF PollAgain, Settle, Past, Idling
  <2>. QED  BY <1>0, <1>3, <2>1, GivingBackMoves, SameStoreMoves DEF PollAgain, Settle
<1>4. CASE EnvironmentStep
  <2>1. ASSUME NEW w \in Workers, Crash(w)  PROVE StoreMoves
    BY <2>1, SameStoreMoves DEF Crash
  <2>2. ASSUME NEW a \in Attempts, NEW k \in OperatorKeys, RequestStep(a, k)  PROVE StoreMoves
    <3>1. CASE EnqueueControlCommand(a, k)
      BY <1>0, <2>2, <3>1, EnqueueMoves DEF EnqueueControlCommand
    <3>2. CASE UNCHANGED storeVars
      BY <3>2, SameStoreMoves
    <3>. QED
      BY <2>2, <3>1, <3>2
         DEF RequestStep, CancelExecutionAttempt, ReconcileExecutionAttempt, RequestFails
  <2>3. ASSUME NEW a \in Attempts, NEW k \in Keys,
               AbandonedLeaseExpires(a, k) \/ LateLeaseExpires(a, k)
        PROVE  StoreMoves
    BY <1>0, <2>3, ExpiryMoves DEF AbandonedLeaseExpires, LateLeaseExpires
  <2>. QED  BY <1>4, <2>1, <2>2, <2>3 DEF EnvironmentStep
<1>5. CASE UNCHANGED storeVars
  BY <1>5, SameStoreMoves
<1>6. ASSUME NEW w \in Workers, ProviderCall(w) \/ ReadSequences(w) \/ CommitRefused(w)
      PROVE  UNCHANGED storeVars
  BY <1>6, ProviderCallShape, RefusalShape DEF ReadSequences
<1>7. ASSUME NEW a \in Attempts, JobEnds(a) \/ WatchdogDeadlinePasses(a)
      PROVE  UNCHANGED storeVars
  BY <1>7 DEF JobEnds, WatchdogDeadlinePasses, controlVars
<1>. QED
  BY <1>1, <1>2, <1>3, <1>4, <1>5, <1>6, <1>7
     DEF Next, WorkerStep, ProviderCall, vars, controlVars

-----------------------------------------------------------------------------
(* Each step moves the workers, and the claims they hold, in these ways.    *)

HoldsKnown(v) ==
    \A c \in HeldClaims(v)' :
        c \in HeldClaims(v) \/ (c.attempt \in Attempts /\ c.key \in Present(c.attempt))

OthersRest(w) == \A v \in Workers \ {w} : Rests(v) /\ batch'[v] = batch[v]

WorkersMove == \A v \in Workers : WorkerMoves(v) /\ HoldsKnown(v)

(* What a worker holds afterwards, and that it held it.                     *)
LEMMA HeldAfter ==
  ASSUME NEW v \in Workers, NEW c, c \in HeldClaims(v)'
  PROVE  c \in batch'[v] \/ (pc'[v] \notin Idling /\ c = cur'[v])
BY DEF HeldClaims, Past

LEMMA HeldBefore ==
  ASSUME NEW v \in Workers, NEW c, c \in batch[v] \/ (pc[v] \notin Idling /\ c = cur[v])
  PROVE  c \in HeldClaims(v)
BY DEF HeldClaims, Past

LEMMA RestingKeeps ==
  ASSUME NEW v \in Workers, pc'[v] = pc[v] \/ pc[v] \notin Idling,
         cur'[v] = cur[v], batch'[v] = batch[v]
  PROVE  HoldsKnown(v)
<1>. SUFFICES ASSUME NEW c \in HeldClaims(v)'  PROVE c \in HeldClaims(v)
  BY DEF HoldsKnown
<1>. QED  BY HeldAfter, HeldBefore

LEMMA OneWorkerMoves ==
  ASSUME NEW w \in Workers, OthersRest(w), WorkerMoves(w), HoldsKnown(w)
  PROVE  WorkersMove
<1>1. ASSUME NEW v \in Workers \ {w}  PROVE WorkerMoves(v) /\ HoldsKnown(v)
  <2>1. Rests(v) /\ batch'[v] = batch[v]
    BY DEF OthersRest
  <2>. QED  BY <2>1, RestingKeeps DEF WorkerMoves, Rests
<1>. QED  BY <1>1 DEF WorkersMove

LEMMA WorkersRest ==
  ASSUME UNCHANGED workerVars
  PROVE  WorkersMove
<1>1. ASSUME NEW v \in Workers  PROVE Rests(v) /\ batch'[v] = batch[v]
  BY DEF workerVars, Rests
<1>2. ASSUME NEW v \in Workers  PROVE WorkerMoves(v) /\ HoldsKnown(v)
  BY <1>1, RestingKeeps DEF WorkerMoves, Rests
<1>. QED  BY <1>2 DEF WorkersMove

LEMMA LeavingMoves ==
  ASSUME TypeInv, NEW w \in Workers, Proceed(w) \/ Abort(w)
  PROVE  WorkersMove
<1>1. OthersRest(w)
  BY DEF Proceed, Abort, Forget, Goto, OthersRest, Rests, TypeInv, ControlTypeOK
<1>2. pc'[w] \in Idling /\ batch'[w] \subseteq batch[w]
  BY DEF Proceed, Abort, Goto, Idling, TypeInv, ControlTypeOK
<1>3. ASSUME NEW c \in HeldClaims(w)'  PROVE c \in HeldClaims(w)
  BY <1>2, HeldAfter, HeldBefore
<1>4. HoldsKnown(w)
  BY <1>3 DEF HoldsKnown
<1>. QED  BY <1>1, <1>2, <1>4, OneWorkerMoves DEF WorkerMoves

LEMMA StayingMoves ==
  ASSUME TypeInv, NEW w \in Workers, Past(w), NEW label, Goto(w, label), UNCHANGED <<batch, cur>>,
         \A v \in Workers \ {w} : seen'[v] = seen[v] /\ reading'[v] = reading[v], WorkerMoves(w)
  PROVE  WorkersMove
<1>1. OthersRest(w)
  BY DEF Goto, OthersRest, Rests, TypeInv, ControlTypeOK
<1>2. HoldsKnown(w)
  BY RestingKeeps DEF Past
<1>. QED  BY <1>1, <1>2, OneWorkerMoves

LEMMA ClaimingMoves ==
  ASSUME TypeInv, NEW w \in Workers, NEW cancels \in BOOLEAN,
         pc'[w] \in Idling, NEW label, Goto(w, label), UNCHANGED <<cur, seen, reading>>,
         NEW claims, claims \subseteq batch[w] \cup ClaimsOf(Ready(cancels)),
         batch' = [batch EXCEPT ![w] = claims]
  PROVE  WorkersMove
<1>1. OthersRest(w)
  BY DEF Goto, OthersRest, Rests, TypeInv, ControlTypeOK
<1>2. ASSUME NEW c \in ClaimsOf(Ready(cancels))
      PROVE  c.attempt \in Attempts /\ c.key \in Present(c.attempt)
  <2>1. PICK p \in Ready(cancels) :
           c = [attempt |-> p[1], key |-> p[2], lease |-> commands[p[1]][p[2]].lease + 1]
    BY <1>2 DEF ClaimsOf
  <2>2. /\ p[1] \in Attempts /\ p[2] \in Keys
        /\ commands[p[1]][p[2]].state \in {"pending", "claimed"}
    BY <2>1 DEF Ready, CommandReady
  <2>. QED  BY <2>1, <2>2 DEF Present
<1>3. ASSUME NEW c \in HeldClaims(w)'
      PROVE  c \in HeldClaims(w) \/ c \in ClaimsOf(Ready(cancels))
  <2>1. c \in claims
    BY <1>3, HeldAfter DEF TypeInv, ControlTypeOK
  <2>. QED  BY <2>1, HeldBefore
<1>4. HoldsKnown(w)
  BY <1>2, <1>3 DEF HoldsKnown
<1>. QED  BY <1>1, <1>4, OneWorkerMoves DEF WorkerMoves

LEMMA ControlStepMovesWorkers ==
  ASSUME TypeInv, NEW w \in Workers, ControlStep(w)
  PROVE  WorkersMove
<1>0. pc \in [Workers -> Labels] /\ cur \in [Workers -> Claim \cup {None}]
      /\ seen \in [Workers -> Attempt \cup {None}] /\ batch \in [Workers -> SUBSET Claim]
  BY DEF TypeInv, ControlTypeOK
<1>1. CASE ClaimCancellations(w)
  <2>1. Goto(w, "progressions") /\ UNCHANGED <<cur, seen, reading>>
        /\ batch' = [batch EXCEPT ![w] = ClaimsOf(Ready(TRUE))]
    BY <1>1 DEF ClaimCancellations
  <2>2. pc'[w] \in Idling
    BY <1>0, <2>1 DEF Goto, Idling
  <2>. QED  BY <2>1, <2>2, ClaimingMoves
<1>2. CASE ClaimProgressions(w)
  <2>. DEFINE claims == batch[w] \cup ClaimsOf(Ready(FALSE))
  <2>1. UNCHANGED <<cur, seen, reading>> /\ batch' = [batch EXCEPT ![w] = claims]
    BY <1>2 DEF ClaimProgressions
  <2>2. PICK label \in {"idle", "take"} : Goto(w, label)
    BY <1>2 DEF ClaimProgressions
  <2>3. pc'[w] \in Idling
    BY <1>0, <2>2 DEF Goto, Idling
  <2>4. claims \subseteq batch[w] \cup ClaimsOf(Ready(FALSE))
    OBVIOUS
  <2>. HIDE DEF claims
  <2>. QED  BY <2>1, <2>2, <2>3, <2>4, ClaimingMoves
<1>3. CASE Take(w)
  <2>1. PICK c \in batch[w] :
          /\ cur' = [cur EXCEPT ![w] = c] /\ batch' = [batch EXCEPT ![w] = @ \ {c}]
          /\ seen' = [seen EXCEPT ![w] = attempts[c.attempt]]
          /\ Goto(w, IF CommandCanRunFromAttempt(Operation(c.key), attempts[c.attempt].state)
                     THEN "heartbeat" ELSE "terminalize")
    BY <1>3 DEF Take
  <2>2. /\ cur'[w] = c /\ batch'[w] = batch[w] \ {c} /\ seen'[w] = attempts[c.attempt]
        /\ pc'[w] = IF CommandCanRunFromAttempt(Operation(c.key), attempts[c.attempt].state)
                    THEN "heartbeat" ELSE "terminalize"
    BY <1>0, <2>1 DEF Goto
  <2>3. OthersRest(w)
    BY <1>0, <1>3, <2>1 DEF Take, Goto, OthersRest, Rests
  <2>4. UNCHANGED storeVars
    BY <1>3 DEF Take
  <2>5. Takes(w)
    BY <2>2 DEF Takes, HeldClaims
  <2>6. ASSUME NEW d \in HeldClaims(w)'  PROVE d \in HeldClaims(w)
    BY <2>2, <2>6, HeldAfter, HeldBefore
  <2>7. HoldsKnown(w)
    BY <2>6 DEF HoldsKnown
  <2>. QED  BY <2>3, <2>4, <2>5, <2>7, OneWorkerMoves DEF WorkerMoves
<1>4. CASE Heartbeat(w)
  <2>1. CASE Proceed(w)
    BY <2>1, LeavingMoves
  <2>2. CASE Goto(w, "dispatch") /\ UNCHANGED <<batch, cur, seen, reading, intent>>
    <3>1. Past(w) /\ pc[w] = "heartbeat" /\ pc'[w] = "dispatch"
      BY <1>0, <1>4, <2>2 DEF Heartbeat, Past, Idling, Goto
    <3>2. GoesOn(w) /\ UNCHANGED storeVars
      BY <1>4, <2>2, <3>1 DEF GoesOn, Heartbeat
    <3>. QED  BY <2>2, <3>1, <3>2, StayingMoves DEF WorkerMoves
  <2>. QED  BY <1>4, <2>1, <2>2 DEF Heartbeat
<1>5. CASE Release(w) \/ Terminalize(w)
  BY <1>5, LeavingMoves DEF Release, Terminalize
<1>. QED  BY <1>1, <1>2, <1>3, <1>4, <1>5 DEF ControlStep


LEMMA ProviderCallMovesWorkers ==
  ASSUME TypeInv, NEW w \in Workers, ProviderCall(w)
  PROVE  WorkersMove
<1>1. PICK outcome \in Intents,
           label \in {"settle", "read", "poll", "cleanup", "release", "create", "recover", "stop"} :
           Resolve(w, outcome, label) /\ (label = "settle" => Op(w) = "cancel")
  BY ProviderCallShape
<1>2. /\ pc[w] \in {"dispatch", "create", "recover", "cleanup", "stop"} /\ pc'[w] = label
      /\ UNCHANGED <<storeVars, batch, cur, seen, reading>> /\ Goto(w, label)
  BY <1>1, ProviderCallShape DEF Resolve, Goto, TypeInv, ControlTypeOK
<1>3. GoesOn(w) /\ Past(w)
  BY <1>1, <1>2 DEF GoesOn, Past, Idling
<1>. QED  BY <1>2, <1>3, StayingMoves DEF WorkerMoves

LEMMA ReadSequencesMovesWorkers ==
  ASSUME TypeInv, NEW w \in Workers, ReadSequences(w)
  PROVE  WorkersMove
<1>1. CASE Abort(w)
  BY <1>1, LeavingMoves
<1>2. CASE /\ reading' = [reading EXCEPT ![w] = ReadingOf(cur[w].attempt)]
           /\ Goto(w, "commit") /\ UNCHANGED <<batch, cur, seen, intent>>
  <2>1. /\ pc[w] = "read" /\ pc'[w] = "commit" /\ UNCHANGED storeVars
        /\ reading'[w] = ReadingOf(cur[w].attempt)
        /\ \A v \in Workers \ {w} : seen'[v] = seen[v] /\ reading'[v] = reading[v]
    BY <1>2 DEF ReadSequences, Goto, TypeInv, ControlTypeOK
  <2>2. Reads(w) /\ Past(w)
    BY <1>2, <2>1 DEF Reads, Past, Idling
  <2>. QED  BY <1>2, <2>1, <2>2, StayingMoves DEF WorkerMoves
<1>. QED  BY <1>1, <1>2 DEF ReadSequences

LEMMA ConflictIs ==
  ASSUME NEW w \in Workers
  PROVE  Conflict(w) \in {"none", "lease_conflict", "response_invalid", "state_conflict"}
<1>1. ASSUME NEW c, NEW sn, NEW read, NEW next, NEW k
      PROVE  CommitConflict(w, c, sn, read, next, k) \in
                {"none", "lease_conflict", "response_invalid", "state_conflict"}
  BY DEF CommitConflict
<1>2. ASSUME NEW c, NEW sn, NEW read
      PROVE  PrepareConflict(w, c, sn, read) \in
                {"none", "lease_conflict", "response_invalid", "state_conflict"}
  BY DEF PrepareConflict
<1>3. ASSUME NEW c, NEW read, NEW next
      PROVE  CompletionConflict(w, c, read, next) \in
                {"none", "lease_conflict", "response_invalid", "state_conflict"}
  BY DEF CompletionConflict
<1>. HIDE DEF CommitConflict, PrepareConflict, CompletionConflict
<1>. QED  BY <1>1, <1>2, <1>3 DEF Conflict

LEMMA CommitRefusedMovesWorkers ==
  ASSUME TypeInv, NEW w \in Workers, CommitRefused(w)
  PROVE  WorkersMove
<1>0. /\ pc[w] = "commit" /\ Past(w) /\ UNCHANGED storeVars /\ Conflict(w) # "none"
      /\ intent[w] \in Intents
  BY DEF CommitRefused, Past, Idling, TypeInv, ControlTypeOK
<1>1. CASE Abort(w) \/ Proceed(w)
  BY <1>1, LeavingMoves
<1>2. ASSUME NEW outcome, Resolve(w, outcome, "read"), UNCHANGED <<batch, cur, seen, reading>>
      PROVE  WorkersMove
  <2>1. Goto(w, "read") /\ pc'[w] = "read"
    BY <1>2 DEF Resolve, Goto, TypeInv, ControlTypeOK
  <2>2. GoesOn(w)
    BY <1>0, <1>2, <2>1 DEF GoesOn
  <2>. QED  BY <1>0, <1>2, <2>1, <2>2, StayingMoves DEF WorkerMoves
<1>3. CASE /\ Goto(w, "terminalize") /\ UNCHANGED <<batch, cur, seen, reading>>
           /\ Conflict(w) = "state_conflict"
  <2>1. pc'[w] = "terminalize"
    BY <1>3 DEF Goto, TypeInv, ControlTypeOK
  <2>2. IsRefused(w)
    BY <1>0, <1>3, <2>1 DEF IsRefused
  <2>. QED  BY <1>0, <1>3, <2>1, <2>2, StayingMoves DEF WorkerMoves
<1>4. CASE intent[w] = "timeout"
  BY <1>2, <1>4 DEF CommitRefused
<1>5. CASE intent[w] = "fault" \/ (intent[w] # "timeout" /\ Conflict(w) = "response_invalid")
  BY <1>1, <1>5 DEF CommitRefused
<1>6. CASE intent[w] \notin {"timeout", "fault"} /\ Conflict(w) # "response_invalid"
  <2>1. CASE Conflict(w) = "lease_conflict"
    <3>1. intent[w] \in {"response", "failure"}
      BY <1>0, <1>6 DEF Intents
    <3>2. Proceed(w)
      BY <1>6, <2>1, <3>1 DEF CommitRefused
    <3>. QED  BY <1>1, <3>2
  <2>2. CASE Conflict(w) # "lease_conflict"
    <3>1. Conflict(w) = "state_conflict"
      BY <1>0, <1>6, <2>2, ConflictIs
    <3>2. /\ Goto(w, "terminalize") \/ FinalFault(w)
          /\ UNCHANGED <<batch, cur, seen, reading>>
      BY <1>6, <2>2, <3>1 DEF CommitRefused
    <3>. QED  BY <1>2, <1>3, <3>1, <3>2 DEF FinalFault
  <2>. QED  BY <2>1, <2>2
<1>. QED  BY <1>4, <1>5, <1>6

LEMMA StepMovesWorkers ==
  ASSUME TypeInv, [Next]_vars
  PROVE  WorkersMove
<1>1. ASSUME NEW w \in Workers, WorkerStep(w)  PROVE WorkersMove
  <2>1. CASE ControlStep(w)
    BY <2>1, ControlStepMovesWorkers
  <2>2. CASE ProviderCall(w)
    BY <2>2, ProviderCallMovesWorkers
  <2>3. CASE ReadSequences(w)
    BY <2>3, ReadSequencesMovesWorkers
  <2>4. CASE CommitRefused(w)
    BY <2>4, CommitRefusedMovesWorkers
  <2>5. CASE Commit(w) \/ PollAgain(w) \/ Settle(w)
    BY <2>5, LeavingMoves DEF Commit, PollAgain, Settle
  <2>. QED  BY <1>1, <2>1, <2>2, <2>3, <2>4, <2>5 DEF WorkerStep, ProviderCall
<1>2. CASE EnvironmentStep
  <2>1. ASSUME NEW w \in Workers, Crash(w)  PROVE WorkersMove
    BY <2>1, LeavingMoves DEF Crash
  <2>2. CASE UNCHANGED workerVars
    BY <2>2, WorkersRest
  <2>. QED
    BY <1>2, <2>1, <2>2
       DEF EnvironmentStep, RequestStep, CancelExecutionAttempt, ReconcileExecutionAttempt,
           EnqueueControlCommand, RequestFails, AbandonedLeaseExpires, LateLeaseExpires, Expire
<1>3. CASE UNCHANGED workerVars
  BY <1>3, WorkersRest
<1>4. ASSUME NEW a \in Attempts, JobEnds(a) \/ WatchdogDeadlinePasses(a)
      PROVE  UNCHANGED workerVars
  BY <1>4 DEF JobEnds, WatchdogDeadlinePasses, controlVars
<1>. QED  BY <1>1, <1>2, <1>3, <1>4 DEF Next, vars, controlVars

(* A reconcile is asked for only after the submit.                          *)
LEMMA StepMovesRequests ==
  ASSUME TypeInv, [Next]_vars
  PROVE  \A a \in Attempts, k \in ReconcileKeys :
            requests'[a][k] # None => requests[a][k] # None \/ attempts[a].state # "prepared"
<1>. DEFINE Follow ==
       \A a \in Attempts, k \in ReconcileKeys :
          requests'[a][k] # None => requests[a][k] # None \/ attempts[a].state # "prepared"
<1>0. requests \in [Attempts -> [OperatorKeys -> Request \cup {None}]]
      /\ ReconcileKeys \subseteq OperatorKeys
  BY DEF TypeInv, ControlTypeOK, OperatorKeys
<1>1. CASE UNCHANGED requests
  BY <1>1
<1>2. ASSUME NEW w \in Workers, WorkerStep(w)  PROVE UNCHANGED requests
  <2>1. CASE ProviderCall(w) \/ CommitRefused(w)
    BY <2>1, ProviderCallShape, RefusalShape
  <2>2. CASE ControlStep(w)
    BY <2>2 DEF ControlStep, ClaimCancellations, ClaimProgressions, Take, Heartbeat, Release,
                Terminalize
  <2>. QED
    BY <1>2, <2>1, <2>2 DEF WorkerStep, ProviderCall, ReadSequences, Commit, PollAgain, Settle
<1>3. ASSUME NEW x \in Attempts, NEW y \in OperatorKeys, RequestStep(x, y)  PROVE Follow
  <2>1. CASE EndRequest(x, y)
    BY <1>0, <2>1 DEF EndRequest
  <2>2. CASE CancelExecutionAttempt(x, y)
    <3>1. y \notin ReconcileKeys
      BY <2>2, KeysAssumption DEF CancelExecutionAttempt
    <3>. QED  BY <1>0, <2>2, <3>1 DEF CancelExecutionAttempt, BeginRequest
  <2>3. CASE ReconcileExecutionAttempt(x, y)
    BY <1>0, <2>3 DEF ReconcileExecutionAttempt, BeginRequest
  <2>. QED  BY <1>3, <2>1, <2>2, <2>3 DEF RequestStep, EnqueueControlCommand, RequestFails
<1>4. CASE EnvironmentStep
  <2>1. ASSUME NEW w \in Workers, Crash(w)  PROVE UNCHANGED requests
    BY <2>1 DEF Crash
  <2>2. ASSUME NEW a \in Attempts, NEW k \in Keys,
               AbandonedLeaseExpires(a, k) \/ LateLeaseExpires(a, k)
        PROVE  UNCHANGED requests
    BY <2>2 DEF AbandonedLeaseExpires, LateLeaseExpires, Expire
  <2>. QED  BY <1>1, <1>3, <1>4, <2>1, <2>2 DEF EnvironmentStep
<1>5. ASSUME NEW a \in Attempts, JobEnds(a) \/ WatchdogDeadlinePasses(a)
      PROVE  UNCHANGED requests
  BY <1>5 DEF JobEnds, WatchdogDeadlinePasses, controlVars
<1>. QED  BY <1>1, <1>2, <1>4, <1>5 DEF Next, vars, controlVars


-----------------------------------------------------------------------------
(* Every step preserves the invariant.                                      *)

LEMMA PresentStep ==
  ASSUME TypeInv, TypeInv', ProgressInv, RowsGrow, WorkersMove
  PROVE  HeldArePresent'
<1>. SUFFICES ASSUME NEW v \in Workers, NEW c \in HeldClaims(v)'
              PROVE  c.key \in Present(c.attempt)'
  BY DEF HeldArePresent
<1>1. c \in Claim
  <2>1. c \in batch'[v] \/ (pc'[v] \notin Idling /\ c = cur'[v])
    BY HeldAfter
  <2>. QED  BY <2>1 DEF TypeInv, ControlTypeOK, HoldsCommand, Idling
<1>2. c \in HeldClaims(v) \/ c.key \in Present(c.attempt)
  BY DEF WorkersMove, HoldsKnown
<1>3. c.key \in Present(c.attempt) /\ c.attempt \in Attempts
  BY <1>1, <1>2 DEF ProgressInv, HeldArePresent, Claim
<1>. QED  BY <1>3 DEF RowsGrow

LEMMA StepProgress == IInvType /\ LogInv /\ ProgressInv /\ [Next]_vars => ProgressInv'
<1>. SUFFICES ASSUME IInvType, LogInv, ProgressInv, [Next]_vars PROVE ProgressInv'
  OBVIOUS
<1>0. TypeInv /\ TypeInv' /\ StoreTypeOK /\ HoldsCommand /\ HoldsCommand'
  BY StepType DEF IInvType, TypeInv, ControlTypeOK
<1>1. RowsGrow /\ \A a \in Attempts : AttemptMoves(a)
  BY StepStoreMoves DEF StoreMoves
<1>2. WorkersMove /\ \A v \in Workers : WorkerMoves(v)
  BY <1>0, StepMovesWorkers DEF WorkersMove
<1>3. AttemptsAreCarried'
  BY <1>1, <1>2, CarriedStep
<1>4. WorkersAreCurrent'
  BY <1>0, <1>1, <1>2, CurrentStep
<1>5. NothingIsSynced'
  <2>. SUFFICES ASSUME NEW a \in Attempts
                PROVE  /\ "sync" \notin Present(a)' /\ attempts'[a].state # "running"
                       /\ attempts'[a].state # "succeeded" => collections'[a] = "none"
    BY DEF NothingIsSynced
  <2>1. /\ "sync" \notin Present(a) /\ attempts[a].state # "running"
        /\ attempts[a].state # "succeeded" => collections[a] = "none"
    BY DEF ProgressInv, NothingIsSynced
  <2>2. /\ Present(a)' \subseteq Present(a) \cup (Keys \ {"sync"})
        /\ attempts'[a].state \in {"prepared", "running"} => attempts'[a].state = attempts[a].state
        /\ attempts[a].state = "succeeded" => attempts'[a].state = "succeeded"
        /\ collections'[a] = collections[a] \/ attempts'[a].state = "succeeded"
    BY <1>1 DEF RowsGrow
  <2>. QED  BY <2>1, <2>2
<1>6. HeldArePresent'
  BY <1>0, <1>1, <1>2, PresentStep
<1>7. OnlyCancelsSettle'
  <2>. SUFFICES ASSUME NEW v \in Workers, pc'[v] = "settle"  PROVE Op(v)' = "cancel"
    BY DEF OnlyCancelsSettle
  <2>1. Rests(v) \/ GoesOn(v)
    BY <1>2 DEF WorkerMoves, Idling, Takes, Reads, IsRefused
  <2>. QED  BY <2>1 DEF Rests, GoesOn, Op, ProgressInv, OnlyCancelsSettle
<1>8. RequestedAfterSubmit'
  <2>. SUFFICES ASSUME NEW a \in Attempts, NEW k \in ReconcileKeys, requests'[a][k] # None,
                       attempts'[a].state = "prepared"
                PROVE  FALSE
    BY DEF RequestedAfterSubmit
  <2>1. attempts[a].state = "prepared"
    BY <1>1 DEF RowsGrow
  <2>2. requests[a][k] # None
    BY <1>0, <2>1, StepMovesRequests
  <2>. QED  BY <2>1, <2>2 DEF ProgressInv, RequestedAfterSubmit
<1>. QED  BY <1>3, <1>4, <1>5, <1>6, <1>7, <1>8 DEF ProgressInv

LEMMA InitProgress == Init => ProgressInv
<1>. SUFFICES ASSUME Init PROVE ProgressInv
  OBVIOUS
<1>1. \A a \in Attempts :
         /\ attempts[a].state = "prepared" /\ collections[a] = "none"
         /\ IsActive(commands[a]["submit"]) /\ Present(a) = {"submit"}
  BY KeysOfTheWorker DEF Init, ControlInit, StoreInit, NewCommand, AbsentCommand, IsActive, Present
<1>2. \A w \in Workers : pc[w] = "idle" /\ HeldClaims(w) = {} /\ ~ Past(w)
  BY DEF Init, ControlInit, HeldClaims, Past, Idling
<1>3. \A a \in Attempts, k \in ReconcileKeys : requests[a][k] = None
  BY DEF Init, ControlInit, OperatorKeys
<1>. QED
  BY <1>1, <1>2, <1>3
     DEF ProgressInv, AttemptsAreCarried, NothingIsSynced, HeldArePresent, WorkersAreCurrent,
         OnlyCancelsSettle, RequestedAfterSubmit

UncancelledNeverStuck ==
    \A a \in Attempts : IsTerminal(attempts[a].state) \/ HasCancelIntent(a) \/ CanProgress(a)

LEMMA CarriedIsNotStuck == IInvType /\ ProgressInv => UncancelledNeverStuck
<1>. SUFFICES ASSUME IInvType, ProgressInv, NEW a \in Attempts,
                     ~ IsTerminal(attempts[a].state), ~ HasCancelIntent(a)
              PROVE  CanProgress(a)
  BY DEF UncancelledNeverStuck
<1>1. attempts[a].state \in LifecycleStates /\ attempts[a].state # "running"
  BY DEF IInvType, TypeInv, ControlTypeOK, StoreTypeOK, Attempt, ProgressInv, NothingIsSynced
<1>2. Live(a)
  BY <1>1 DEF LifecycleStates, IsTerminal, Live
<1>3. CASE attempts[a].state = "prepared"
  <2>1. IsActive(commands[a]["submit"])
    BY <1>2, <1>3 DEF ProgressInv, AttemptsAreCarried
  <2>. QED  BY <1>3, <2>1, KeysOfTheWorker DEF CanProgress, CommandCanRunFromAttempt
<1>4. CASE attempts[a].state = "submitted"
  <2>1. PICK k \in Keys : Operation(k) = "reconcile" /\ IsActive(commands[a][k])
    BY <1>2, <1>4 DEF ProgressInv, AttemptsAreCarried, Sound
  <2>. QED  BY <1>4, <2>1 DEF CanProgress, CommandCanRunFromAttempt
<1>. QED  BY <1>2, <1>3, <1>4 DEF Live

(* No dead end without a cancel: whatever workers race, lose their lease,   *)
(* crash, are refused or give up a command as obsolete, an unfinished       *)
(* attempt no cancel is stored for keeps a pending or leased command that   *)
(* its state lets run, so that the next claim can move it on.               *)
THEOREM UncancelledAttemptsNeverStick == Spec => []UncancelledNeverStuck
<1>. DEFINE Inv == IInvType /\ LogInv /\ ProgressInv
<1>1. Init => Inv
  BY InitType, LogInvInit, InitProgress DEF Init
<1>2. Inv /\ [Next]_vars => Inv'
  BY LogsStep, StepProgress
<1>3. Inv => UncancelledNeverStuck
  BY CarriedIsNotStuck
<1>. QED  BY <1>1, <1>2, <1>3, PTL DEF Spec

(* Where nobody may cancel, no attempt at all is ever stuck.                *)
THEOREM NoAttemptSticks ==
  ASSUME CancelKeys = {}
  PROVE  Spec => []NeverStuck
<1>1. UncancelledNeverStuck => NeverStuck
  BY DEF UncancelledNeverStuck, HasCancelIntent, NeverStuck
<1>. QED  BY <1>1, UncancelledAttemptsNeverStick, PTL


-----------------------------------------------------------------------------
(* Collections.  A collect that is refused for the state of its attempt     *)
(* would be terminalized and leave its collection prepared for ever.  It is *)
(* never refused for that while the collection is prepared: the worker      *)
(* found a success, and nothing else writes the events of a success.        *)
CollectsAreCurrent ==
    \A w \in Workers :
        Past(w) /\ cur[w].key = "collect" /\ collections[cur[w].attempt] = "prepared" =>
            /\ pc[w] # "terminalize"
            /\ pc[w] = "commit" =>
                  /\ reading[w].collection = "prepared"
                  /\ reading[w].event = NextEventSequence(cur[w].attempt)

CollectionInv == CollectInv /\ CollectsAreCurrent

(* A prepared collection was prepared before, and then its attempt gained   *)
(* no event, or has just been prepared.                                     *)
CollectionsStand ==
    \A a \in Attempts :
        collections'[a] = "prepared" =>
            \/ collections[a] = "prepared" /\ events'[a] = events[a]
            \/ "collect" \notin Present(a)

Collecting == CollectInv' /\ CollectionsStand

LEMMA QuietStands ==
  ASSUME CollectInv, QuietStep, UNCHANGED events
  PROVE  Collecting
BY QuietCollects DEF QuietStep, Collecting, CollectionsStand

LEMMA SameStoreStands ==
  ASSUME CollectInv, UNCHANGED storeVars
  PROVE  Collecting
BY UnchangedStoreQuiet, QuietStands DEF storeVars

LEMMA GivingBackStands ==
  ASSUME StoreTypeOK, CollectInv, NEW w \in Workers, cur[w] \in Claim,
         \/ ReleaseCommand(w, cur[w])
         \/ /\ TerminalizeCommand(w, cur[w], "conflict")
            /\ cur[w].key = "collect" => collections[cur[w].attempt] # "prepared"
  PROVE  Collecting
<1>1. CASE ReleaseCommand(w, cur[w])
  <2>1. QuietStep
    BY <1>1, ReleaseCommandQuiet
  <2>2. UNCHANGED events
    BY <1>1 DEF ReleaseCommand
  <2>. QED  BY <2>1, <2>2, QuietStands
<1>2. CASE /\ TerminalizeCommand(w, cur[w], "conflict")
           /\ cur[w].key = "collect" => collections[cur[w].attempt] # "prepared"
  <2>1. cur[w].key = "collect" => ~ IsActive(commands[cur[w].attempt][cur[w].key])
    BY <1>2 DEF CollectInv, Claim
  <2>2. QuietStep
    BY <1>2, <2>1, TerminalizeCommandQuiet
  <2>3. UNCHANGED events
    BY <1>2 DEF TerminalizeCommand
  <2>. QED  BY <2>2, <2>3, QuietStands
<1>. QED  BY <1>1, <1>2

LEMMA EnqueueStands ==
  ASSUME StoreTypeOK, CollectInv, NEW x \in Attempts, NEW y \in OperatorKeys, NEW sn, NEW read,
         CancelBeforeSubmit(x, y, sn, read) \/ EnqueueIntent(x, y, sn, read)
  PROVE  Collecting
<1>1. CollectInv'
  BY EnqueueCollects
<1>2. CASE EnqueueIntent(x, y, sn, read)
  BY <1>1, <1>2 DEF EnqueueIntent, Collecting, CollectionsStand
<1>3. CASE CancelBeforeSubmit(x, y, sn, read)
  <2>1. /\ attempts[x].state = "prepared" /\ UNCHANGED collections
        /\ \A a \in Attempts \ {x} : events'[a] = events[a]
    BY <1>3 DEF CancelBeforeSubmit, StoreTypeOK
  <2>2. collections[x] = "none"
    BY <2>1 DEF CollectInv
  <2>. QED  BY <1>1, <2>1, <2>2 DEF Collecting, CollectionsStand
<1>. QED  BY <1>2, <1>3

LEMMA CommitStands ==
  ASSUME IInvType, CollectInv, NEW w \in Workers, Commit(w)
  PROVE  Collecting
<1>0. /\ cur[w] \in Claim /\ cur[w].attempt \in Attempts /\ cur[w].key \in Keys
      /\ StoreTypeOK
  BY HeldCommand DEF Commit, Claim
<1>. DEFINE x == cur[w].attempt
<1>1. CASE Op(w) = "reconcile" /\ PrepareCollection(w, cur[w], seen[w], reading[w])
  <2>1. cur[w].key \notin CancelKeys
    BY <1>1, KeysOfTheWorker DEF Op
  <2>2. CollectInv'
    BY <1>0, <1>1, <2>1, PrepareCollectionCollects
  <2>3. "collect" \notin Present(x)
        /\ \A a \in Attempts \ {x} : events'[a] = events[a] /\ collections'[a] = collections[a]
    BY <1>0, <1>1 DEF PrepareCollection, StoreTypeOK
  <2>. QED  BY <2>2, <2>3 DEF Collecting, CollectionsStand
<1>2. ASSUME Op(w) = "collect", NEW next \in {"collected", "failed"},
             CommitCollectionCompletion(w, cur[w], reading[w], next)
      PROVE  Collecting
  <2>1. cur[w].key = "collect"
    BY <1>0, <1>2, OperationOfKey DEF Op
  <2>2. CollectInv'
    BY <1>0, <1>2, <2>1, CommitCollectionCompletionCollects
  <2>3. /\ collections'[x] = next
        /\ \A a \in Attempts \ {x} : events'[a] = events[a] /\ collections'[a] = collections[a]
    BY <1>0, <1>2 DEF CommitCollectionCompletion, StoreTypeOK
  <2>. QED  BY <2>2, <2>3 DEF Collecting, CollectionsStand
<1>3. ASSUME NEW next \in {"submitted", "running", "cancelled", "failed"},
             NEW nextKey \in {"reconcile", None}, NEW error,
             CommitCommandOutcome(w, cur[w], seen[w], reading[w], next, nextKey, error)
      PROVE  Collecting
  <2>1. /\ <<attempts[x].state, next>> \in ValidAttemptTransition
        /\ commands[x][cur[w].key].state = "claimed" /\ UNCHANGED collections
        /\ \A a \in Attempts \ {x} : events'[a] = events[a]
    BY <1>0, <1>3
       DEF CommitCommandOutcome, ValidAttemptUpdate, RequireClaimedCommand, StoreTypeOK
  <2>2. attempts[x].state # "succeeded"
    BY <2>1, TransitionShape DEF IsTerminal
  <2>3. collections[x] = "none" /\ cur[w].key # "collect"
    BY <1>0, <2>1, <2>2 DEF CollectInv
  <2>4. CollectInv'
    BY <1>0, <1>3, <2>3, CommitCommandOutcomeCollects
  <2>. QED  BY <2>1, <2>3, <2>4 DEF Collecting, CollectionsStand
<1>. QED  BY <1>1, <1>2, <1>3, CommitTransaction

LEMMA StepStands ==
  ASSUME IInvType, ProgressInv, CollectionInv, [Next]_vars
  PROVE  Collecting
<1>0. StoreTypeOK /\ CollectInv
  BY DEF IInvType, TypeInv, ControlTypeOK, CollectionInv
<1>1. ASSUME NEW w \in Workers, ControlStep(w)  PROVE Collecting
  <2>1. CASE ClaimCancellations(w)
    BY <1>0, <2>1, ClaimCommandsQuiet, QuietStands DEF ClaimCancellations, ClaimCommands
  <2>2. CASE ClaimProgressions(w)
    BY <1>0, <2>2, ClaimCommandsQuiet, QuietStands DEF ClaimProgressions, ClaimCommands
  <2>3. CASE Take(w) \/ Heartbeat(w)
    BY <1>0, <2>3, SameStoreStands DEF Take, Heartbeat
  <2>4. CASE Release(w)
    <3>1. cur[w] \in Claim
      BY <2>4, HeldCommand DEF Release
    <3>. QED  BY <1>0, <2>4, <3>1, GivingBackStands, SameStoreStands DEF Release
  <2>5. CASE Terminalize(w)
    <3>1. cur[w] \in Claim
      BY <2>5, HeldCommand DEF Terminalize
    <3>2. cur[w].key = "collect" => collections[cur[w].attempt] # "prepared"
      BY <2>5 DEF Terminalize, CollectionInv, CollectsAreCurrent, Past, Idling
    <3>. QED  BY <1>0, <2>5, <3>1, <3>2, GivingBackStands, SameStoreStands DEF Terminalize
  <2>. QED  BY <1>1, <2>1, <2>2, <2>3, <2>4, <2>5 DEF ControlStep
<1>2. ASSUME NEW w \in Workers, Commit(w)  PROVE Collecting
  BY <1>0, <1>2, CommitStands
<1>3. ASSUME NEW w \in Workers, PollAgain(w) \/ Settle(w)  PROVE Collecting
  <2>1. cur[w] \in Claim
    BY <1>3, HeldCommand DEF PollAgain, Settle
  <2>2. CASE PollAgain(w)
    BY <1>0, <2>1, <2>2, GivingBackStands, SameStoreStands DEF PollAgain
  <2>3. CASE Settle(w)
    <3>0. Operation(cur[w].key) = "cancel"
      BY <2>3 DEF Settle, ProgressInv, OnlyCancelsSettle, Op
    <3>1. cur[w].key # "collect"
      BY <3>0, KeysAssumption DEF Operation, WorkerKeys
    <3>. QED  BY <1>0, <2>1, <2>3, <3>1, GivingBackStands, SameStoreStands DEF Settle
  <2>. QED  BY <1>3, <2>2, <2>3
<1>4. CASE EnvironmentStep
  <2>1. ASSUME NEW w \in Workers, Crash(w)  PROVE Collecting
    BY <1>0, <2>1, SameStoreStands DEF Crash
  <2>2. ASSUME NEW a \in Attempts, NEW k \in OperatorKeys, RequestStep(a, k)  PROVE Collecting
    <3>1. CASE EnqueueControlCommand(a, k)
      BY <1>0, <2>2, <3>1, EnqueueStands DEF EnqueueControlCommand
    <3>2. CASE UNCHANGED storeVars
      BY <1>0, <3>2, SameStoreStands
    <3>. QED
      BY <2>2, <3>1, <3>2
         DEF RequestStep, CancelExecutionAttempt, ReconcileExecutionAttempt, RequestFails
  <2>3. ASSUME NEW a \in Attempts, NEW k \in Keys,
               AbandonedLeaseExpires(a, k) \/ LateLeaseExpires(a, k)
        PROVE  Collecting
    <3>1. Expire(a, k)
      BY <2>3 DEF AbandonedLeaseExpires, LateLeaseExpires
    <3>2. QuietStep /\ UNCHANGED events
      BY <1>0, <3>1, ExpireQuiet DEF Expire
    <3>. QED  BY <1>0, <3>2, QuietStands
  <2>. QED  BY <1>4, <2>1, <2>2, <2>3 DEF EnvironmentStep
<1>5. CASE UNCHANGED storeVars
  BY <1>0, <1>5, SameStoreStands
<1>6. ASSUME NEW w \in Workers, ProviderCall(w) \/ ReadSequences(w) \/ CommitRefused(w)
      PROVE  UNCHANGED storeVars
  BY <1>6, ProviderCallShape, RefusalShape DEF ReadSequences
<1>7. ASSUME NEW a \in Attempts, JobEnds(a) \/ WatchdogDeadlinePasses(a)
      PROVE  UNCHANGED storeVars
  BY <1>7 DEF JobEnds, WatchdogDeadlinePasses, controlVars
<1>. QED
  BY <1>1, <1>2, <1>3, <1>4, <1>5, <1>6, <1>7
     DEF Next, WorkerStep, ProviderCall, vars, controlVars

(* A worker with a collect is not refused for the state of its attempt.     *)
LEMMA NoCollectConflict ==
  ASSUME CollectionInv, NEW v \in Workers, pc[v] = "commit", cur[v].key = "collect",
         collections[cur[v].attempt] = "prepared"
  PROVE  Conflict(v) # "state_conflict"
<1>1. /\ reading[v].collection = "prepared"
      /\ reading[v].event = NextEventSequence(cur[v].attempt)
  BY DEF CollectionInv, CollectsAreCurrent, Past, Idling
<1>2. Op(v) = "collect"
  BY KeysAssumption DEF Op, Operation, WorkerKeys
<1>3. PICK next \in {"collected", "failed"} :
        Conflict(v) = CompletionConflict(v, cur[v], reading[v], next)
  BY <1>2 DEF Conflict
<1>. QED  BY <1>1, <1>3 DEF CompletionConflict

LEMMA CollectsStep ==
  ASSUME ProgressInv, CollectionInv, HoldsCommand', CollectionsStand,
         \A v \in Workers : WorkerMoves(v)
  PROVE  CollectsAreCurrent'
<1>. SUFFICES ASSUME NEW v \in Workers, pc'[v] \notin Idling, cur'[v].key = "collect",
                     NEW x \in Attempts, x = cur'[v].attempt, collections'[x] = "prepared"
              PROVE  /\ pc'[v] # "terminalize"
                     /\ pc'[v] = "commit" =>
                           /\ reading'[v].collection = "prepared"
                           /\ reading'[v].event = NextEventSequence(x)'
  <2>1. \A v \in Workers : pc'[v] \notin Idling => cur'[v].attempt \in Attempts
    BY DEF HoldsCommand, Idling, Claim
  <2>. QED  BY <2>1 DEF CollectsAreCurrent, Past, NextEventSequence
<1>1. CASE Rests(v)
  <2>1. Past(v) /\ cur[v].key = "collect" /\ cur[v].attempt = x
    BY <1>1 DEF Rests, Past
  <2>2. "collect" \in Present(x)
    BY <2>1 DEF ProgressInv, HeldArePresent, HeldClaims
  <2>3. collections[x] = "prepared" /\ events'[x] = events[x]
    BY <2>2 DEF CollectionsStand
  <2>4. /\ pc[v] # "terminalize"
        /\ pc[v] = "commit" => /\ reading[v].collection = "prepared"
                               /\ reading[v].event = NextEventSequence(x)
    BY <2>1, <2>3 DEF CollectionInv, CollectsAreCurrent
  <2>. QED  BY <1>1, <2>3, <2>4 DEF Rests, NextEventSequence
<1>2. CASE UNCHANGED storeVars
  <2>0. /\ collections[x] = "prepared" /\ attempts[x].state = "succeeded"
        /\ ReadingOf(x)' = ReadingOf(x) /\ NextEventSequence(x)' = NextEventSequence(x)
    BY <1>2 DEF storeVars, CollectionInv, CollectInv, ReadingOf, NextEventSequence,
                NextCommandSequence, Present
  <2>1. CASE Takes(v)
    <3>1. Operation("collect") = "collect"
      BY KeysAssumption DEF Operation, WorkerKeys
    <3>. QED  BY <2>0, <2>1, <3>1 DEF Takes, CommandCanRunFromAttempt
  <2>2. CASE GoesOn(v)
    BY <2>2 DEF GoesOn
  <2>3. CASE Reads(v)
    <3>1. reading'[v] = ReadingOf(x) /\ pc'[v] = "commit"
      BY <2>3 DEF Reads
    <3>. QED  BY <2>0, <3>1 DEF ReadingOf
  <2>4. CASE IsRefused(v)
    BY <2>0, <2>4, NoCollectConflict DEF IsRefused
  <2>5. CASE Rests(v)
    BY <1>1, <2>5
  <2>. QED  BY <2>1, <2>2, <2>3, <2>4, <2>5 DEF WorkerMoves
<1>. QED  BY <1>1, <1>2 DEF WorkerMoves

(* A success is followed up: its collection is prepared in the transaction  *)
(* that stores it, and as long as nobody has collected or failed it there   *)
(* is a collect command that a worker can take, whatever workers race for   *)
(* it, are refused, or die with it.                                         *)
THEOREM SuccessIsFollowedUp == Spec => []CollectionFollowsSuccess
<1>. DEFINE Inv == IInvType /\ LogInv /\ ProgressInv /\ CollectionInv
<1>1. Init => Inv
  <2>1. Init => CollectInv
    BY CollectIsKey
       DEF Init, ControlInit, StoreInit, CollectInv, AbsentCommand, NewCommand, IsActive
  <2>2. Init => CollectsAreCurrent
    BY DEF Init, ControlInit, CollectsAreCurrent, Past, Idling
  <2>. QED  BY <2>1, <2>2, InitType, LogInvInit, InitProgress DEF Init, CollectionInv
<1>2. Inv /\ [Next]_vars => Inv'
  <2>. SUFFICES ASSUME Inv, [Next]_vars  PROVE Inv'
    OBVIOUS
  <2>1. IInvType' /\ LogInv' /\ ProgressInv'
    BY LogsStep, StepProgress
  <2>2. CollectInv' /\ CollectionsStand
    BY StepStands DEF Collecting
  <2>3. \A v \in Workers : WorkerMoves(v)
    BY StepMovesWorkers DEF IInvType, WorkersMove
  <2>4. CollectsAreCurrent'
    BY <2>1, <2>2, <2>3, CollectsStep DEF IInvType, TypeInv
  <2>. QED  BY <2>1, <2>2, <2>4 DEF CollectionInv
<1>3. Inv => CollectionFollowsSuccess
  <2>1. IInvType => \A a \in Attempts : /\ collections[a] \in CollectionStates
                                        /\ commands[a]["collect"].state \in
                                              {"absent", "pending", "claimed", "succeeded", "terminal"}
    BY CollectIsKey DEF IInvType, TypeInv, ControlTypeOK, StoreTypeOK, Command
  <2>. QED
    BY <2>1 DEF CollectionInv, CollectInv, CollectionFollowsSuccess, CollectionStates, IsActive,
                IsSettled
<1>. QED  BY <1>1, <1>2, <1>3, PTL DEF Spec
=============================================================================
