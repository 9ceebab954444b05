------------------------- MODULE RunCoordinatorProofs -------------------------
(***************************************************************************)
(* Theorems about the run coordinator, for any number of callers, slots    *)
(* and disturbances: the lease and the freshness of what its holder knows  *)
(* make the persisted steps walk the lane in order, a parked human         *)
(* decision stands, both budgets are kept and a raise of them is never     *)
(* undone, the counters of the row never lead the steps and a terminal     *)
(* run never changes.                                                      *)
(*                                                                         *)
(* The sum of the provider calls is a recursive function over the steps;   *)
(* what it yields follows from the least number where it would not.        *)
(***************************************************************************)
EXTENDS RunCoordinator, WellFoundedInduction, TLAPS

-----------------------------------------------------------------------------
(* The inductive invariant                                                  *)

RowType == [status : Statuses, envelope : Envelopes, consumed : Budget,
            holder : Callers \cup {None}, live : BOOLEAN]

TypeInv ==
    /\ row \in RowType
    /\ steps \in Seq(Step)
    /\ pc \in [Callers -> PCs]
    /\ local \in [Callers -> Locals]

(* Where a caller knows the envelope, where it knows the steps, and where   *)
(* it has decided on a slot.                                                *)
Working == PCs \ {"idle", "acquire", "release"}
Loaded == {"accept", "loop", "slot", "report", "step", "count", "queue", "settle"}
Decided == {"slot", "report", "step"}

(* The step a caller is about to persist suits the steps it knows.          *)
Justified(c) ==
    /\ local[c].result \in Result
    /\ IsNext(local[c].log, local[c].result.index)
    /\ local[c].result.accepted <=> AwaitsDecision(c, local[c].result.index)
    /\ Len(local[c].log) + 1 <= local[c].envelope.steps
    /\ ~ local[c].result.accepted => Calls(local[c].log) < local[c].envelope.calls

(* What the holder of the lease knows is fresh, and a step is persisted     *)
(* under a live lease only.                                                 *)
CallerInv(c) ==
    /\ local[c].entry \notin {"completed", "failed"}
    /\ pc[c] = "raise" => local[c].raise # None
    /\ pc[c] = "step" => Mine(c) /\ row.live
    /\ Mine(c) /\ pc[c] \in Working => local[c].envelope = row.envelope
    /\ Mine(c) /\ pc[c] \in Loaded => local[c].log = steps
    /\ pc[c] \in Decided => Justified(c)

HistoryInv == LaneOrder /\ ParkedDecisionStands /\ BudgetIsKept

IInv ==
    /\ TypeInv
    /\ Terminal => row.holder = None
    /\ \A c \in Callers : CallerInv(c)
    /\ HistoryInv

-----------------------------------------------------------------------------
(* The sum of the provider calls, a recursive function, by the least number *)
(* for which it would go wrong                                              *)

LEMMA LeastNumber ==
  ASSUME NEW T, T \subseteq Nat, T # {}
  PROVE  \E m \in T : \A n \in T : m <= n
<1>. DEFINE R == {ss \in Nat \X Nat : ss[1] < ss[2]}
<1>1. IsWellFoundedOn(R, Nat)
  <2>1. OpToRel(<, Nat) = R
    BY Zenon DEF OpToRel
  <2>. QED  BY <2>1, NatLessThanWellFounded, Zenon
<1>. HIDE DEF R
<1>2. PICK m \in T : \A n \in T : ~ (<<n, m>> \in R)
  BY <1>1, WFMin, Zenon
<1>3. ASSUME NEW n \in T PROVE m <= n
  <2>1. n < m => <<n, m>> \in R
    BY DEF R
  <2>2. m \in Nat /\ n \in Nat
    OBVIOUS
  <2>. QED  BY <1>2, <2>1, <2>2
<1>. QED  BY <1>3

(* f sums the calls of the first n steps.                                   *)
Sums(f, n, log) ==
    f = [k \in 0..n |-> IF k = 0 THEN 0 ELSE f[k - 1] + log[k].calls]

LEMMA SumsAt ==
  ASSUME NEW f, NEW n \in Nat, NEW log, Sums(f, n, log)
  PROVE  f[0] = 0 /\ \A k \in 1..n : f[k] = f[k - 1] + log[k].calls
<1>. DEFINE g == [k \in 0..n |-> IF k = 0 THEN 0 ELSE f[k - 1] + log[k].calls]
<1>1. f = g
  BY DEF Sums
<1>2. g[0] = 0 /\ \A k \in 1..n : g[k] = f[k - 1] + log[k].calls
  OBVIOUS
<1>. HIDE DEF g
<1>. QED  BY <1>1, <1>2

LEMMA SumsAreNumbers ==
  ASSUME NEW log \in Seq(Step), NEW n \in 0..Len(log), NEW f, Sums(f, n, log)
  PROVE  \A k \in 0..n : f[k] \in Nat
<1>. DEFINE T == {k \in 0..n : f[k] \notin Nat}
<1>. SUFFICES ASSUME T # {} PROVE FALSE
  OBVIOUS
<1>1. T \subseteq Nat /\ \A k \in T : k \in 0..n /\ f[k] \notin Nat
  OBVIOUS
<1>2. \A k \in 0..n : k \notin T => f[k] \in Nat
  OBVIOUS
<1>. HIDE DEF T
<1>3. PICK m \in T : \A k \in T : m <= k
  BY <1>1, LeastNumber
<1>4. n \in Nat /\ m \in 0..n
  BY <1>1
<1>5. f[0] = 0 /\ \A k \in 1..n : f[k] = f[k - 1] + log[k].calls
  BY <1>4, SumsAt
<1>6. m # 0
  BY <1>1, <1>5
<1>7. m \in 1..n /\ m - 1 \in 0..n /\ m - 1 \notin T
  BY <1>3, <1>4, <1>6
<1>8. log[m] \in Step
  BY <1>7
<1>9. f[m - 1] \in Nat /\ log[m].calls \in Nat
  BY <1>2, <1>7, <1>8, CoordinatorAssumption DEF Step
<1>. QED  BY <1>1, <1>5, <1>7, <1>9

LEMMA SumsExist ==
  ASSUME NEW log \in Seq(Step)
  PROVE  \E f : Sums(f, Len(log), log)
<1>. DEFINE T == {n \in 0..Len(log) : ~ \E f : Sums(f, n, log)}
<1>. SUFFICES ASSUME T # {} PROVE FALSE
  <2>1. Len(log) \in 0..Len(log)
    OBVIOUS
  <2>. QED  BY <2>1
<1>1. T \subseteq Nat /\ \A n \in T : n \in 0..Len(log) /\ ~ \E f : Sums(f, n, log)
  OBVIOUS
<1>2. \A n \in 0..Len(log) : n \notin T => \E f : Sums(f, n, log)
  OBVIOUS
<1>. HIDE DEF T
<1>3. PICK m \in T : \A n \in T : m <= n
  BY <1>1, LeastNumber
<1>4. m \in 0..Len(log) /\ Len(log) \in Nat
  BY <1>1
<1>5. Sums([k \in 0..0 |-> 0], 0, log)
  BY DEF Sums
<1>6. m # 0
  BY <1>1, <1>5
<1>7. m - 1 \in 0..Len(log) /\ m - 1 \notin T /\ m - 1 \in Nat
  BY <1>3, <1>4, <1>6
<1>8. PICK f : Sums(f, m - 1, log)
  BY <1>2, <1>7
<1>9. f[0] = 0 /\ \A k \in 1..(m - 1) : f[k] = f[k - 1] + log[k].calls
  BY <1>7, <1>8, SumsAt
<1>. DEFINE g == [k \in 0..m |-> IF k = m THEN f[m - 1] + log[m].calls ELSE f[k]]
<1>10. \A k \in 0..m : g[k] = IF k = 0 THEN 0 ELSE g[k - 1] + log[k].calls
  BY <1>4, <1>6, <1>9
<1>11. Sums(g, m, log)
  BY <1>10 DEF Sums
<1>. QED  BY <1>1, <1>11

(* What the definition of Calls chooses is such a sum.                      *)
LEMMA CallsAreSummed ==
  ASSUME NEW log \in Seq(Step)
  PROVE  \E f : Sums(f, Len(log), log) /\ Calls(log) = f[Len(log)]
<1>. DEFINE sum[n \in 0..Len(log)] == IF n = 0 THEN 0 ELSE sum[n - 1] + log[n].calls
<1>1. sum = CHOOSE f : Sums(f, Len(log), log)
  BY DEF Sums
<1>2. Sums(sum, Len(log), log)
  BY <1>1, SumsExist
<1>3. Calls(log) = sum[Len(log)]
  BY Zenon DEF Calls
<1>. HIDE DEF sum
<1>. QED  BY <1>2, <1>3

LEMMA CallsType ==
  ASSUME NEW log \in Seq(Step)
  PROVE  Calls(log) \in Nat
<1>1. PICK f : Sums(f, Len(log), log) /\ Calls(log) = f[Len(log)]
  BY CallsAreSummed
<1>2. Len(log) \in 0..Len(log)
  OBVIOUS
<1>. QED  BY <1>1, <1>2, SumsAreNumbers

LEMMA CallsOfNone == Calls(<<>>) = 0
<1>1. <<>> \in Seq(Step) /\ Len(<<>>) = 0
  OBVIOUS
<1>2. PICK f : Sums(f, 0, <<>>) /\ Calls(<<>>) = f[0]
  BY <1>1, CallsAreSummed
<1>. QED  BY <1>2, SumsAt

(* A step adds its calls to the sum.                                        *)
LEMMA CallsGrow ==
  ASSUME NEW log \in Seq(Step), NEW step \in Step
  PROVE  Calls(Append(log, step)) = Calls(log) + step.calls
<1>. DEFINE n == Len(log)
            longer == Append(log, step)
<1>1. /\ longer \in Seq(Step) /\ n \in Nat /\ Len(longer) = n + 1
      /\ longer[n + 1] = step /\ \A k \in 1..n : longer[k] = log[k]
  OBVIOUS
<1>2. PICK f : Sums(f, n, log) /\ Calls(log) = f[n]
  BY CallsAreSummed
<1>. HIDE DEF n, longer
<1>3. PICK g : Sums(g, n + 1, longer) /\ Calls(longer) = g[n + 1]
  BY <1>1, CallsAreSummed
<1>4. f[0] = 0 /\ \A k \in 1..n : f[k] = f[k - 1] + log[k].calls
  BY <1>1, <1>2, SumsAt
<1>5. g[0] = 0 /\ \A k \in 1..(n + 1) : g[k] = g[k - 1] + longer[k].calls
  BY <1>1, <1>3, SumsAt
<1>6. f[n] = g[n]
  <2>. DEFINE T == {k \in 0..n : f[k] # g[k]}
  <2>. SUFFICES ASSUME T # {} PROVE FALSE
    BY <1>1
  <2>1. T \subseteq Nat /\ \A k \in T : k \in 0..n /\ f[k] # g[k]
    OBVIOUS
  <2>2. \A k \in 0..n : k \notin T => f[k] = g[k]
    OBVIOUS
  <2>. HIDE DEF T
  <2>3. PICK m \in T : \A k \in T : m <= k
    BY <2>1, LeastNumber
  <2>4. m \in 1..n
    BY <1>4, <1>5, <2>1
  <2>5. m - 1 \in 0..n /\ m - 1 \notin T /\ m \in 1..(n + 1)
    BY <1>1, <2>3, <2>4
  <2>6. f[m - 1] = g[m - 1] /\ longer[m] = log[m]
    BY <1>1, <2>2, <2>4, <2>5
  <2>. QED  BY <1>4, <1>5, <2>1, <2>4, <2>5, <2>6
<1>7. n + 1 \in 1..(n + 1) /\ (n + 1) - 1 = n
  BY <1>1
<1>8. Calls(longer) = g[n] + step.calls
  BY <1>1, <1>3, <1>5, <1>7
<1>. QED  BY <1>2, <1>6, <1>8 DEF n, longer

(* The counters only grow with the steps.                                   *)
LEMMA ConsumedGrows ==
  ASSUME NEW log \in Seq(Step), NEW step \in Step, NEW e \in Budget,
         Covers(Consumed(log), e)
  PROVE  Covers(Consumed(Append(log, step)), e)
<1>1. /\ Len(Append(log, step)) = Len(log) + 1 /\ Len(log) \in Nat
      /\ Calls(Append(log, step)) = Calls(log) + step.calls
      /\ Calls(log) \in Nat
  BY CallsGrow, CallsType
<1>2. step.calls \in Nat
  BY CoordinatorAssumption DEF Step
<1>. QED  BY <1>1, <1>2 DEF Consumed, Covers, Budget

-----------------------------------------------------------------------------
(* Types                                                                    *)

LEMMA RaisedType ==
  ASSUME NEW e \in Envelopes, NEW r \in Envelopes
  PROVE  Raised(e, r) \in Envelopes /\ Covers(Raised(e, r), e)
BY CoordinatorAssumption DEF Raised, Larger, Envelopes, Budget, Covers

LEMMA FreshType == Fresh \in Locals
<1>1. InitialEnvelope \in Envelopes
  BY CoordinatorAssumption DEF Envelopes, Budget, Covers
<1>2. <<>> \in Seq(Step) /\ Nothing \in Budget
  BY DEF Nothing, Budget
<1>. QED  BY <1>1, <1>2 DEF Fresh, Locals, Statuses

LEMMA InitType == Init => TypeInv
<1>. SUFFICES ASSUME Init PROVE TypeInv
  OBVIOUS
<1>1. InitialEnvelope \in Envelopes
  BY CoordinatorAssumption DEF Envelopes, Budget, Covers
<1>2. row \in RowType
  BY <1>1 DEF Init, RowType, Statuses, Nothing, Budget
<1>3. steps \in Seq(Step) /\ pc \in [Callers -> PCs] /\ local \in [Callers -> Locals]
  BY FreshType DEF Init, PCs
<1>. QED  BY <1>2, <1>3 DEF TypeInv

LEMMA KnownType ==
  ASSUME TypeInv, NEW c \in Callers, NEW live \in BOOLEAN
  PROVE  Known(c, live) \in RowType
BY DEF TypeInv, Locals, RowType, Known, Statuses

LEMMA ConsumedType ==
  ASSUME NEW log \in Seq(Step)
  PROVE  Consumed(log) \in Budget
BY CallsType DEF Consumed, Budget

LEMMA ReturnType ==
  ASSUME TypeInv, NEW c \in Callers, Return(c)
  PROVE  pc' \in [Callers -> PCs] /\ local' \in [Callers -> Locals]
BY FreshType DEF TypeInv, Return, PCs

LEMMA GotoType ==
  ASSUME TypeInv, NEW c \in Callers, NEW label \in PCs, Goto(c, label)
  PROVE  pc' \in [Callers -> PCs]
BY DEF TypeInv, Goto

LEMMA FinishType ==
  ASSUME TypeInv, NEW c \in Callers, NEW status \in Statuses, Finish(c, status)
  PROVE  TypeInv'
<1>1. Known(c, FALSE) \in RowType
  BY KnownType
<1>2. row' \in RowType
  BY <1>1 DEF Finish, RowType
<1>. QED  BY <1>2, ReturnType DEF Finish, TypeInv

LEMMA EnterType ==
  ASSUME TypeInv, NEW c \in Callers, CallerInv(c), Enter(c)
  PROVE  TypeInv'
<1>1. CASE Request(c)
  <2>1. PICK raise \in Envelopes \cup {None}, accept \in BOOLEAN :
          local' = [local EXCEPT ![c] = [Fresh EXCEPT
                !.entry = row.status, !.raise = raise, !.accept = accept]]
    BY <1>1 DEF Request
  <2>2. local' \in [Callers -> Locals]
    BY <2>1, FreshType DEF TypeInv, Locals, RowType
  <2>3. pc' \in [Callers -> PCs]
    BY <1>1, GotoType DEF Request, PCs
  <2>. QED  BY <1>1, <2>2, <2>3 DEF Request, TypeInv
<1>2. CASE Acquire(c)
  <2>1. row' \in RowType
    BY <1>2 DEF Acquire, TypeInv, RowType, Statuses
  <2>2. local' \in [Callers -> Locals]
    <3>1. local[c] \in Locals /\ row.envelope \in Envelopes /\ row.consumed \in Budget
      BY DEF TypeInv, RowType
    <3>2. local' = [local EXCEPT ![c] = [local[c] EXCEPT !.envelope = row.envelope,
                       !.consumed = row.consumed, !.taken = row.consumed]]
      BY <1>2 DEF Acquire, TypeInv
    <3>3. [local[c] EXCEPT !.envelope = row.envelope, !.consumed = row.consumed,
                           !.taken = row.consumed] \in Locals
      BY <3>1 DEF Locals
    <3>. QED  BY <3>2, <3>3 DEF TypeInv
  <2>3. pc' \in [Callers -> PCs]
    BY <1>2, GotoType DEF Acquire, PCs
  <2>. QED  BY <1>2, <2>1, <2>2, <2>3 DEF Acquire, TypeInv
<1>3. CASE AbandonAcquired(c)
  <2>1. row' \in RowType
    BY <1>3 DEF AbandonAcquired, TypeInv, RowType, Statuses
  <2>. QED  BY <1>3, <2>1, ReturnType DEF AbandonAcquired, TypeInv
<1>4. CASE RefuseAdvance(c)
  BY <1>4, ReturnType DEF RefuseAdvance, TypeInv
<1>5. CASE RaiseEnvelope(c)
  <2>. DEFINE raised == Raised(local[c].envelope, local[c].raise)
  <2>0. local[c].raise # None
    BY <1>5 DEF RaiseEnvelope, CallerInv
  <2>1. raised \in Envelopes
    BY <2>0, RaisedType DEF TypeInv, Locals
  <2>2. row' = [Known(c, row.live) EXCEPT !.envelope = raised]
        /\ local' = [local EXCEPT ![c].envelope = raised, ![c].raise = None]
        /\ Goto(c, "list") /\ UNCHANGED steps
    BY <1>5 DEF RaiseEnvelope
  <2>. HIDE DEF raised
  <2>3. Known(c, row.live) \in RowType
    BY KnownType DEF TypeInv, RowType
  <2>4. row' \in RowType
    BY <2>1, <2>2, <2>3 DEF RowType
  <2>5. local' \in [Callers -> Locals]
    BY <2>1, <2>2 DEF TypeInv, Locals
  <2>6. pc' \in [Callers -> PCs]
    BY <2>2, GotoType DEF PCs
  <2>. QED  BY <2>2, <2>4, <2>5, <2>6 DEF TypeInv
<1>6. CASE ListSteps(c)
  <2>1. local' \in [Callers -> Locals]
    BY <1>6 DEF ListSteps, TypeInv, Locals
  <2>2. pc' \in [Callers -> PCs]
    BY <1>6, GotoType DEF ListSteps, PCs
  <2>. QED  BY <1>6, <2>1, <2>2 DEF ListSteps, TypeInv
<1>7. CASE AcceptReview(c)
  <2>1. PICK i \in Lane :
          local' = [local EXCEPT ![c].result =
                [index |-> i, outcome |-> "passed", calls |-> 0,
                 accepted |-> TRUE, tier |-> FALSE]]
    BY <1>7 DEF AcceptReview
  <2>2. [index |-> i, outcome |-> "passed", calls |-> 0,
         accepted |-> TRUE, tier |-> FALSE] \in Result
    BY CoordinatorAssumption DEF Result, Outcomes
  <2>3. local' \in [Callers -> Locals]
    BY <2>1, <2>2 DEF TypeInv, Locals
  <2>4. pc' \in [Callers -> PCs]
    BY <1>7, GotoType DEF AcceptReview, PCs
  <2>. QED  BY <1>7, <2>3, <2>4, KnownType DEF AcceptReview, Heartbeat, TypeInv
<1>8. CASE RejectAcceptance(c)
  BY <1>8, FinishType DEF RejectAcceptance, Reject, TypeInv, Locals
<1>. QED  BY <1>1, <1>2, <1>3, <1>4, <1>5, <1>6, <1>7, <1>8 DEF Enter

LEMMA LoopType ==
  ASSUME TypeInv, NEW c \in Callers, CallerInv(c), Loop(c)
  PROVE  TypeInv'
<1>0. local[c] \in Locals
  BY DEF TypeInv
<1>1. CASE RebuildConsumed(c)
  <2>1. Consumed(local[c].log) \in Budget
    BY <1>0, ConsumedType DEF Locals
  <2>2. Known(c, row.live) \in RowType
    BY KnownType DEF TypeInv, RowType
  <2>3. row' \in RowType
    BY <1>1, <2>1, <2>2 DEF RebuildConsumed, RowType
  <2>4. local' \in [Callers -> Locals]
    BY <1>1, <2>1 DEF RebuildConsumed, TypeInv, Locals
  <2>. QED  BY <1>1, <2>3, <2>4 DEF RebuildConsumed, TypeInv
<1>2. CASE FinishCompleted(c) \/ FinishExhausted(c) \/ FinishParked(c)
  BY <1>2, FinishType DEF FinishCompleted, FinishExhausted, FinishParked, Statuses
<1>3. CASE RejectAtDecision(c)
  BY <1>0, <1>3, FinishType DEF RejectAtDecision, Reject, Locals
<1>4. CASE StartSlot(c)
  <2>1. PICK i \in Lane :
          local' = [local EXCEPT ![c].result =
                [index |-> i, outcome |-> "blocked", calls |-> 0,
                 accepted |-> FALSE, tier |-> FALSE]]
    BY <1>4 DEF StartSlot
  <2>2. [index |-> i, outcome |-> "blocked", calls |-> 0,
         accepted |-> FALSE, tier |-> FALSE] \in Result
    BY CoordinatorAssumption DEF Result, Outcomes
  <2>3. local' \in [Callers -> Locals]
    BY <2>1, <2>2 DEF TypeInv, Locals
  <2>4. pc' \in [Callers -> PCs]
    BY <1>4, GotoType DEF StartSlot, PCs
  <2>. QED  BY <1>4, <2>3, <2>4, KnownType DEF StartSlot, Heartbeat, TypeInv
<1>5. CASE RunSlot(c)
  <2>1. PICK outcome \in Outcomes, calls \in SlotCalls, tier \in BOOLEAN :
          local' = [local EXCEPT ![c].result =
                [@ EXCEPT !.outcome = outcome, !.calls = calls, !.tier = tier]]
    BY <1>5 DEF RunSlot
  <2>2. local[c].result \in Result
    BY <1>0, <1>5 DEF RunSlot, CallerInv, Justified, Decided, Locals
  <2>3. [local[c].result EXCEPT !.outcome = outcome, !.calls = calls, !.tier = tier] \in Result
    BY <2>2 DEF Result
  <2>4. local' \in [Callers -> Locals]
    BY <2>1, <2>3 DEF TypeInv, Locals
  <2>5. pc' \in [Callers -> PCs]
    BY <1>5, GotoType DEF RunSlot, PCs
  <2>. QED  BY <1>5, <2>4, <2>5 DEF RunSlot, TypeInv
<1>6. CASE ReportSlot(c)
  <2>1. pc' \in [Callers -> PCs]
    BY <1>6, GotoType DEF ReportSlot, PCs
  <2>. QED  BY <1>6, <2>1, KnownType DEF ReportSlot, Heartbeat, TypeInv
<1>7. CASE PersistStep(c)
  <2>. DEFINE step == StepOf(local[c].result)
  <2>1. local[c].result \in Result
    BY <1>0, <1>7 DEF PersistStep, CallerInv, Justified, Decided, Locals
  <2>2. step \in Step
    BY <2>1 DEF StepOf, Step, Result
  <2>3. steps' = Append(steps, step)
        /\ local' = [local EXCEPT ![c].log = Append(local[c].log, step)]
    BY <1>7 DEF PersistStep, TypeInv
  <2>. HIDE DEF step
  <2>4. steps' \in Seq(Step)
    BY <2>2, <2>3 DEF TypeInv
  <2>5. Append(local[c].log, step) \in Seq(Step)
    BY <1>0, <2>2 DEF Locals
  <2>6. local' \in [Callers -> Locals]
    BY <2>3, <2>5 DEF TypeInv, Locals
  <2>7. pc' \in [Callers -> PCs]
    BY <1>7, GotoType DEF PersistStep, PCs
  <2>. QED  BY <1>7, <2>4, <2>6, <2>7 DEF PersistStep, TypeInv
<1>8. CASE CountStep(c)
  <2>1. Consumed(local[c].log) \in Budget
    BY <1>0, ConsumedType DEF Locals
  <2>2. Known(c, TRUE) \in RowType
    BY KnownType
  <2>3. row' \in RowType
    BY <1>8, <2>1, <2>2 DEF CountStep, RowType
  <2>4. local' \in [Callers -> Locals]
    BY <1>8, <2>1 DEF CountStep, TypeInv, Locals
  <2>5. pc' \in [Callers -> PCs]
    BY <1>8, GotoType DEF CountStep, AfterCount, PCs
  <2>. QED  BY <1>8, <2>3, <2>4, <2>5 DEF CountStep, TypeInv
<1>9. CASE EnqueueBlocker(c)
  <2>1. pc' \in [Callers -> PCs]
    BY <1>9, GotoType DEF EnqueueBlocker, PCs
  <2>. QED  BY <1>9, <2>1 DEF EnqueueBlocker, TypeInv
<1>10. CASE ContinueLoop(c)
  <2>1. local' \in [Callers -> Locals]
    BY <1>10 DEF ContinueLoop, TypeInv, Locals
  <2>2. pc' \in [Callers -> PCs]
    BY <1>10, GotoType DEF ContinueLoop, PCs
  <2>. QED  BY <1>10, <2>1, <2>2 DEF ContinueLoop, TypeInv
<1>. QED  BY <1>1, <1>2, <1>3, <1>4, <1>5, <1>6, <1>7, <1>8, <1>9, <1>10 DEF Loop

LEMMA FailType ==
  ASSUME TypeInv, NEW c \in Callers, Fail(c)
  PROVE  TypeInv'
<1>1. CASE FencedOut(c)
  BY <1>1, ReturnType DEF FencedOut, TypeInv
<1>2. CASE FailWrite(c)
  <2>1. pc' \in [Callers -> PCs]
    BY <1>2, GotoType DEF FailWrite, PCs
  <2>. QED  BY <1>2, <2>1 DEF FailWrite, TypeInv
<1>3. CASE ReleaseLease(c)
  <2>1. row' \in RowType
    BY <1>3 DEF ReleaseLease, TypeInv, RowType
  <2>. QED  BY <1>3, <2>1, ReturnType DEF ReleaseLease, TypeInv
<1>4. CASE KeepLease(c)
  BY <1>4, ReturnType DEF KeepLease, TypeInv
<1>5. CASE MarkFailed(c)
  <2>1. Known(c, FALSE) \in RowType /\ local[c].taken \in Budget
    BY KnownType DEF TypeInv, Locals
  <2>2. row' \in RowType
    BY <1>5, <2>1 DEF MarkFailed, TypeInv, RowType, Statuses
  <2>. QED  BY <1>5, <2>2, ReturnType DEF MarkFailed, TypeInv
<1>. QED  BY <1>1, <1>2, <1>3, <1>4, <1>5 DEF Fail

LEMMA CrashType == TypeInv /\ Crash => TypeInv'
BY FreshType DEF Crash, TypeInv, PCs

LEMMA LeaseExpiresType == TypeInv /\ LeaseExpires => TypeInv'
BY DEF LeaseExpires, TypeInv, RowType

LEMMA NextType ==
  ASSUME TypeInv, \A c \in Callers : CallerInv(c), [Next]_vars
  PROVE  TypeInv'
<1>1. CASE UNCHANGED vars
  BY <1>1 DEF vars, TypeInv
<1>. QED  BY <1>1, EnterType, LoopType, FailType, CrashType, LeaseExpiresType DEF Next

-----------------------------------------------------------------------------
(* What a caller does to the rest of the system                             *)

(* A caller writes the row only under its lease or when it takes one, and   *)
(* leaves nobody else as the holder; it persists steps under its lease.     *)
Moves(c) ==
    /\ \A d \in Callers \ {c} : pc'[d] = pc[d] /\ local'[d] = local[d]
    /\ \/ UNCHANGED row
       \/ /\ Mine(c) \/ Acquirable(c)
          /\ row'.holder \in {c, None}
          /\ row'.status \in {"completed", "failed"} => row'.holder = None
          /\ row'.envelope = row.envelope \/ pc[c] \in Working
    /\ \/ UNCHANGED steps
       \/ Mine(c) /\ pc[c] = "step" /\ UNCHANGED row

LEMMA ReturnMoves ==
  ASSUME TypeInv, NEW c \in Callers, Return(c)
  PROVE  \A d \in Callers \ {c} : pc'[d] = pc[d] /\ local'[d] = local[d]
BY DEF TypeInv, Return

LEMMA GotoMoves ==
  ASSUME TypeInv, NEW c \in Callers, NEW label, Goto(c, label)
  PROVE  pc'[c] = label /\ \A d \in Callers \ {c} : pc'[d] = pc[d]
BY DEF TypeInv, Goto

LEMMA LocalMoves ==
  ASSUME TypeInv, NEW c \in Callers, NEW knows, local' = [local EXCEPT ![c] = knows]
  PROVE  local'[c] = knows /\ \A d \in Callers \ {c} : local'[d] = local[d]
BY DEF TypeInv

LEMMA FinishMoves ==
  ASSUME TypeInv, NEW c \in Callers, NEW status, pc[c] \in Working, Finish(c, status)
  PROVE  Moves(c)
<1>1. row'.holder = None
  BY DEF Finish, Known
<1>. QED  BY <1>1, ReturnMoves DEF Finish, Moves

LEMMA EnterMoves ==
  ASSUME TypeInv, NEW c \in Callers, Enter(c)
  PROVE  Moves(c)
<1>1. CASE Request(c)
  BY <1>1, GotoMoves DEF Request, Moves, TypeInv
<1>2. CASE Acquire(c)
  <2>1. row'.holder = c /\ row'.status = "advancing" /\ row'.envelope = row.envelope
    BY <1>2 DEF Acquire, TypeInv, RowType
  <2>. QED  BY <1>2, <2>1, GotoMoves DEF Acquire, Moves, TypeInv
<1>3. CASE AbandonAcquired(c)
  <2>1. row'.holder = c /\ row'.status = "advancing" /\ row'.envelope = row.envelope
    BY <1>3 DEF AbandonAcquired, TypeInv, RowType
  <2>. QED  BY <1>3, <2>1, ReturnMoves DEF AbandonAcquired, Moves
<1>4. CASE RefuseAdvance(c)
  BY <1>4, ReturnMoves DEF RefuseAdvance, Moves
<1>5. CASE RaiseEnvelope(c)
  <2>1. row'.holder = c /\ row'.status = "advancing" /\ pc[c] \in Working
    BY <1>5 DEF RaiseEnvelope, Known, Working, PCs
  <2>. QED  BY <1>5, <2>1, GotoMoves DEF RaiseEnvelope, Moves, TypeInv
<1>6. CASE ListSteps(c)
  BY <1>6, GotoMoves DEF ListSteps, Moves, TypeInv
<1>7. CASE AcceptReview(c)
  <2>1. row'.holder = c /\ row'.status = "advancing" /\ pc[c] \in Working
    BY <1>7 DEF AcceptReview, Heartbeat, Known, Working, PCs
  <2>. QED  BY <1>7, <2>1, GotoMoves DEF AcceptReview, Heartbeat, Moves, TypeInv
<1>8. CASE RejectAcceptance(c)
  BY <1>8, FinishMoves DEF RejectAcceptance, Reject, Working, PCs
<1>. QED  BY <1>1, <1>2, <1>3, <1>4, <1>5, <1>6, <1>7, <1>8 DEF Enter

LEMMA LoopMoves ==
  ASSUME TypeInv, NEW c \in Callers, CallerInv(c), Loop(c)
  PROVE  Moves(c)
<1>0. \A label \in {"loop", "slot", "report", "step", "count", "queue", "settle"} :
         label \in Working
  BY DEF Working, PCs
<1>1. CASE RebuildConsumed(c)
  <2>1. row'.holder = c /\ row'.status = "advancing"
    BY <1>1 DEF RebuildConsumed, Known
  <2>. QED  BY <1>0, <1>1, <2>1 DEF RebuildConsumed, Moves, TypeInv
<1>2. CASE FinishCompleted(c) \/ FinishExhausted(c) \/ FinishParked(c) \/ RejectAtDecision(c)
  BY <1>0, <1>2, FinishMoves DEF FinishCompleted, FinishExhausted, FinishParked,
     RejectAtDecision, Reject, AtLoop
<1>3. CASE StartSlot(c)
  <2>1. row'.holder = c /\ row'.status = "advancing"
    BY <1>3 DEF StartSlot, Heartbeat, Known
  <2>. QED  BY <1>0, <1>3, <2>1, GotoMoves DEF StartSlot, AtLoop, Heartbeat, Moves, TypeInv
<1>4. CASE RunSlot(c)
  BY <1>4, GotoMoves DEF RunSlot, Moves, TypeInv
<1>5. CASE ReportSlot(c)
  <2>1. row'.holder = c /\ row'.status = "advancing"
    BY <1>5 DEF ReportSlot, Heartbeat, Known
  <2>. QED  BY <1>0, <1>5, <2>1, GotoMoves DEF ReportSlot, Heartbeat, Moves
<1>6. CASE PersistStep(c)
  <2>1. Mine(c)
    BY <1>6 DEF PersistStep, CallerInv
  <2>. QED  BY <1>6, <2>1, GotoMoves DEF PersistStep, Moves, TypeInv
<1>7. CASE CountStep(c)
  <2>1. row'.holder = c /\ row'.status = "advancing"
    BY <1>7 DEF CountStep, Known
  <2>. QED  BY <1>0, <1>7, <2>1, GotoMoves DEF CountStep, Moves, TypeInv
<1>8. CASE EnqueueBlocker(c)
  BY <1>8, GotoMoves DEF EnqueueBlocker, Moves
<1>9. CASE ContinueLoop(c)
  BY <1>9, GotoMoves DEF ContinueLoop, Moves, TypeInv
<1>. QED  BY <1>1, <1>2, <1>3, <1>4, <1>5, <1>6, <1>7, <1>8, <1>9 DEF Loop

LEMMA FailMoves ==
  ASSUME TypeInv, NEW c \in Callers, Fail(c)
  PROVE  Moves(c)
<1>1. CASE FencedOut(c) \/ KeepLease(c)
  BY <1>1, ReturnMoves DEF FencedOut, KeepLease, Moves
<1>2. CASE FailWrite(c)
  BY <1>2, GotoMoves DEF FailWrite, Moves
<1>3. CASE ReleaseLease(c)
  <2>1. row' = row \/ (Mine(c) /\ row'.holder = None /\ row'.envelope = row.envelope)
    BY <1>3 DEF ReleaseLease, TypeInv, RowType
  <2>. QED  BY <1>3, <2>1, ReturnMoves DEF ReleaseLease, Moves
<1>4. CASE MarkFailed(c)
  <2>1. row' = row \/ (Mine(c) /\ row'.holder = None)
    BY <1>4 DEF MarkFailed, Known
  <2>2. pc[c] \in Working
    BY <1>4 DEF MarkFailed, AtLoop, Working, PCs
  <2>. QED  BY <1>4, <2>1, <2>2, ReturnMoves DEF MarkFailed, Moves
<1>. QED  BY <1>1, <1>2, <1>3, <1>4 DEF Fail

(* Nothing a caller does disturbs what another one relies on.               *)
LEMMA OthersKeep ==
  ASSUME IInv, NEW c \in Callers, Moves(c), NEW d \in Callers \ {c}
  PROVE  CallerInv(d)'
<1>1. CallerInv(d) /\ pc'[d] = pc[d] /\ local'[d] = local[d]
  BY DEF IInv, Moves
<1>2. Mine(d)' => Mine(d) /\ UNCHANGED <<row, steps>>
  BY CoordinatorAssumption DEF Moves, Mine
<1>3. pc[d] = "step" => UNCHANGED row
  BY <1>1, CoordinatorAssumption DEF CallerInv, Mine, Moves, Acquirable
<1>4. Justified(d)' <=> Justified(d)
  BY <1>1 DEF Justified, AwaitsDecision
<1>. QED  BY <1>1, <1>2, <1>3, <1>4 DEF CallerInv, Mine

-----------------------------------------------------------------------------
(* What a caller knows after its own steps                                  *)

LEMMA FreshCaller ==
  ASSUME TypeInv, NEW c \in Callers, Return(c)
  PROVE  CallerInv(c)'
<1>1. pc'[c] = "idle" /\ local'[c].entry = "created"
  BY DEF TypeInv, Return, Fresh
<1>. QED  BY <1>1 DEF CallerInv, Working, Loaded, Decided

LEMMA EnterCaller ==
  ASSUME TypeInv, NEW c \in Callers, CallerInv(c), Enter(c)
  PROVE  CallerInv(c)'
<1>0. /\ local[c] \in Locals /\ pc[c] \in PCs
      /\ DOMAIN local = Callers /\ DOMAIN pc = Callers
  BY DEF TypeInv
<1>1. CASE Request(c)
  <2>1. pc'[c] = "acquire" /\ local'[c].entry = row.status
    BY <1>0, <1>1 DEF Request, Goto, Fresh
  <2>. QED  BY <1>1, <2>1 DEF Request, Terminal, CallerInv, Working, Loaded, Decided
<1>2. CASE Acquire(c)
  <2>1. /\ pc'[c] = IF local[c].raise = None THEN "list" ELSE "raise"
        /\ local'[c].entry = local[c].entry /\ local'[c].raise = local[c].raise
        /\ local'[c].envelope = row.envelope /\ row'.envelope = row.envelope
    BY <1>0, <1>2 DEF Acquire, Goto, Locals, TypeInv, RowType
  <2>. QED  BY <2>1 DEF CallerInv, Loaded, Decided
<1>3. CASE AbandonAcquired(c)
  BY <1>3, FreshCaller DEF AbandonAcquired
<1>4. CASE RefuseAdvance(c)
  BY <1>4, FreshCaller DEF RefuseAdvance
<1>5. CASE RaiseEnvelope(c)
  <2>. DEFINE raised == Raised(local[c].envelope, local[c].raise)
  <2>1. row' = [Known(c, row.live) EXCEPT !.envelope = raised]
        /\ local' = [local EXCEPT ![c].envelope = raised, ![c].raise = None]
        /\ Goto(c, "list")
    BY <1>5 DEF RaiseEnvelope
  <2>. HIDE DEF raised
  <2>2. /\ pc'[c] = "list" /\ row'.envelope = raised
        /\ local'[c].entry = local[c].entry /\ local'[c].envelope = raised
    BY <1>0, <2>1 DEF Goto, Locals, Known
  <2>. QED  BY <2>2 DEF CallerInv, Loaded, Decided
<1>6. CASE ListSteps(c)
  <2>1. /\ pc'[c] \in {"accept", "loop"} /\ local'[c].entry = local[c].entry
        /\ local'[c].envelope = local[c].envelope /\ local'[c].log = steps
        /\ row' = row /\ steps' = steps /\ pc[c] \in Working
    BY <1>0, <1>6 DEF ListSteps, Goto, Locals, Working
  <2>. QED  BY <2>1 DEF CallerInv, Mine, Decided
<1>7. CASE AcceptReview(c)
  <2>1. PICK i \in Lane :
          /\ Acceptable(c, i)
          /\ local' = [local EXCEPT ![c].result =
                [index |-> i, outcome |-> "passed", calls |-> 0,
                 accepted |-> TRUE, tier |-> FALSE]]
    BY <1>7 DEF AcceptReview
  <2>2. /\ local'[c].entry = local[c].entry /\ local'[c].envelope = local[c].envelope
        /\ local'[c].log = local[c].log
        /\ local'[c].result = [index |-> i, outcome |-> "passed", calls |-> 0,
                               accepted |-> TRUE, tier |-> FALSE]
    BY <1>0, <2>1 DEF Locals
  <2>3. /\ pc'[c] = "step" /\ row' = Known(c, TRUE) /\ steps' = steps /\ Mine(c)
        /\ pc[c] \in Working /\ pc[c] \in Loaded
    BY <1>0, <1>7 DEF AcceptReview, Heartbeat, Goto, Working, Loaded
  <2>4. row'.holder = c /\ row'.live = TRUE /\ row'.envelope = local[c].envelope
    BY <2>3 DEF Known
  <2>5. local'[c].result \in Result
    BY <2>2, CoordinatorAssumption DEF Result, Outcomes
  <2>6. Justified(c)'
    BY <2>1, <2>2, <2>5 DEF Justified, Acceptable, AwaitsDecision
  <2>. QED  BY <2>2, <2>3, <2>4, <2>6 DEF CallerInv, Mine
<1>8. CASE RejectAcceptance(c)
  BY <1>8, FreshCaller DEF RejectAcceptance, Reject, Finish
<1>. QED  BY <1>1, <1>2, <1>3, <1>4, <1>5, <1>6, <1>7, <1>8 DEF Enter

LEMMA LoopCaller ==
  ASSUME TypeInv, NEW c \in Callers, CallerInv(c), Loop(c)
  PROVE  CallerInv(c)'
<1>0. /\ local[c] \in Locals /\ pc[c] \in PCs
      /\ DOMAIN local = Callers /\ DOMAIN pc = Callers
  BY DEF TypeInv
<1>1. CASE RebuildConsumed(c)
  <2>1. /\ pc'[c] = "loop" /\ pc[c] = "loop" /\ Mine(c) /\ steps' = steps
        /\ local'[c].entry = local[c].entry /\ local'[c].envelope = local[c].envelope
        /\ local'[c].log = local[c].log /\ row'.envelope = local[c].envelope
    BY <1>0, <1>1 DEF RebuildConsumed, Locals, Known
  <2>. QED  BY <2>1 DEF CallerInv, Working, Loaded, Decided
<1>2. CASE FinishCompleted(c) \/ FinishExhausted(c) \/ FinishParked(c) \/ RejectAtDecision(c)
  BY <1>2, FreshCaller DEF FinishCompleted, FinishExhausted, FinishParked,
     RejectAtDecision, Reject, Finish
<1>3. CASE StartSlot(c)
  <2>1. PICK i \in Lane :
          /\ SlotToRun(c, i)
          /\ local' = [local EXCEPT ![c].result =
                [index |-> i, outcome |-> "blocked", calls |-> 0,
                 accepted |-> FALSE, tier |-> FALSE]]
    BY <1>3 DEF StartSlot
  <2>2. /\ local'[c].entry = local[c].entry /\ local'[c].envelope = local[c].envelope
        /\ local'[c].log = local[c].log
        /\ local'[c].result = [index |-> i, outcome |-> "blocked", calls |-> 0,
                               accepted |-> FALSE, tier |-> FALSE]
    BY <1>0, <2>1 DEF Locals
  <2>3. /\ pc'[c] = "slot" /\ row' = Known(c, TRUE) /\ steps' = steps /\ Mine(c)
        /\ pc[c] \in Working /\ pc[c] \in Loaded
    BY <1>0, <1>3 DEF StartSlot, AtLoop, Heartbeat, Goto, Working, Loaded
  <2>4. row'.envelope = local[c].envelope
    BY <2>3 DEF Known
  <2>5. local'[c].result \in Result
    BY <2>2, CoordinatorAssumption DEF Result, Outcomes
  <2>6. /\ Len(local[c].log) + 1 <= local[c].envelope.steps
        /\ Calls(local[c].log) < local[c].envelope.calls
    <3>1. /\ Len(local[c].log) \in Nat /\ local[c].envelope.steps \in Int
          /\ Calls(local[c].log) \in Nat /\ local[c].envelope.calls \in Int
      BY <1>0, CallsType, CoordinatorAssumption DEF Locals, Envelopes, Budget
    <3>2. /\ ~ (Len(local[c].log) + 1 > local[c].envelope.steps)
          /\ ~ (Calls(local[c].log) >= local[c].envelope.calls)
      BY <2>1 DEF SlotToRun, Exhausted
    <3>. QED  BY <3>1, <3>2
  <2>7. Justified(c)'
    BY <2>1, <2>2, <2>5, <2>6 DEF Justified, SlotToRun, AwaitsDecision
  <2>. QED  BY <2>2, <2>3, <2>4, <2>7 DEF CallerInv
<1>4. CASE RunSlot(c)
  <2>1. PICK outcome \in Outcomes, calls \in SlotCalls, tier \in BOOLEAN :
          local' = [local EXCEPT ![c].result =
                [@ EXCEPT !.outcome = outcome, !.calls = calls, !.tier = tier]]
    BY <1>4 DEF RunSlot
  <2>2. Justified(c) /\ local[c].result \in Result
    BY <1>4 DEF RunSlot, CallerInv, Justified, Decided
  <2>3. /\ local'[c].entry = local[c].entry /\ local'[c].envelope = local[c].envelope
        /\ local'[c].log = local[c].log
        /\ local'[c].result =
             [local[c].result EXCEPT !.outcome = outcome, !.calls = calls, !.tier = tier]
    BY <1>0, <2>1 DEF Locals
  <2>4. /\ local'[c].result \in Result /\ local'[c].result.index = local[c].result.index
        /\ local'[c].result.accepted = local[c].result.accepted
    BY <2>2, <2>3 DEF Result
  <2>5. Justified(c)'
    BY <2>2, <2>3, <2>4 DEF Justified, AwaitsDecision
  <2>6. /\ pc'[c] = "report" /\ row' = row /\ steps' = steps
        /\ pc[c] \in Working /\ pc[c] \in Loaded
    BY <1>0, <1>4 DEF RunSlot, Goto, Working, Loaded
  <2>. QED  BY <2>3, <2>5, <2>6 DEF CallerInv, Mine
<1>5. CASE ReportSlot(c)
  <2>1. /\ pc'[c] = "step" /\ row' = Known(c, TRUE) /\ steps' = steps /\ Mine(c)
        /\ local' = local /\ pc[c] \in Working /\ pc[c] \in Loaded /\ pc[c] \in Decided
    BY <1>0, <1>5 DEF ReportSlot, Heartbeat, Goto, Working, Loaded, Decided
  <2>2. row'.holder = c /\ row'.live = TRUE /\ row'.envelope = local[c].envelope
    BY <2>1 DEF Known
  <2>3. Justified(c)'
    BY <2>1 DEF CallerInv, Justified, AwaitsDecision
  <2>. QED  BY <2>1, <2>2, <2>3 DEF CallerInv, Mine
<1>6. CASE PersistStep(c)
  <2>. DEFINE step == StepOf(local[c].result)
  <2>1. /\ pc'[c] = "count" /\ row' = row /\ Mine(c) /\ local[c].log = steps
        /\ local[c].envelope = row.envelope
    BY <1>0, <1>6 DEF PersistStep, Goto, CallerInv, Working, Loaded
  <2>2. /\ steps' = Append(steps, step)
        /\ local' = [local EXCEPT ![c].log = Append(local[c].log, step)]
    BY <1>0, <1>6 DEF PersistStep
  <2>. HIDE DEF step
  <2>3. /\ local'[c].entry = local[c].entry /\ local'[c].envelope = local[c].envelope
        /\ local'[c].log = Append(local[c].log, step)
    BY <1>0, <2>2 DEF Locals
  <2>. QED  BY <2>1, <2>2, <2>3 DEF CallerInv, Decided
<1>7. CASE CountStep(c)
  <2>1. pc'[c] \in {"loop", "queue", "settle"}
    BY <1>0, <1>7 DEF CountStep, Goto, AfterCount
  <2>2. /\ Mine(c) /\ steps' = steps /\ pc[c] \in Working /\ pc[c] \in Loaded
        /\ local'[c].entry = local[c].entry /\ local'[c].envelope = local[c].envelope
        /\ local'[c].log = local[c].log /\ row'.envelope = local[c].envelope
    BY <1>0, <1>7 DEF CountStep, Locals, Known, Working, Loaded
  <2>. QED  BY <2>1, <2>2 DEF CallerInv, Decided
<1>8. CASE EnqueueBlocker(c)
  <2>1. /\ pc'[c] = "settle" /\ row' = row /\ steps' = steps /\ local' = local
        /\ pc[c] \in Working /\ pc[c] \in Loaded
    BY <1>0, <1>8 DEF EnqueueBlocker, Goto, Working, Loaded
  <2>. QED  BY <2>1 DEF CallerInv, Mine, Decided
<1>9. CASE ContinueLoop(c)
  <2>1. /\ pc'[c] = "loop" /\ row' = row /\ steps' = steps
        /\ local'[c].entry = local[c].entry /\ local'[c].envelope = local[c].envelope
        /\ local'[c].log = local[c].log
        /\ pc[c] \in Working /\ pc[c] \in Loaded
    BY <1>0, <1>9 DEF ContinueLoop, Goto, Locals, Working, Loaded
  <2>. QED  BY <2>1 DEF CallerInv, Mine, Decided
<1>. QED  BY <1>1, <1>2, <1>3, <1>4, <1>5, <1>6, <1>7, <1>8, <1>9 DEF Loop

LEMMA FailCaller ==
  ASSUME TypeInv, NEW c \in Callers, CallerInv(c), Fail(c)
  PROVE  CallerInv(c)'
<1>1. CASE FailWrite(c)
  <2>1. pc'[c] = "release" /\ local' = local
    BY <1>1 DEF FailWrite, Goto, TypeInv
  <2>. QED  BY <2>1 DEF CallerInv, Working, Loaded, Decided
<1>2. CASE ~ FailWrite(c)
  BY <1>2, FreshCaller DEF Fail, FencedOut, ReleaseLease, KeepLease, MarkFailed
<1>. QED  BY <1>1, <1>2

-----------------------------------------------------------------------------
(* The steps on record                                                      *)

LEMMA AppendPrefix ==
  ASSUME NEW s \in Seq(Step), NEW step \in Step
  PROVE  /\ Len(Append(s, step)) = Len(s) + 1 /\ Len(s) \in Nat
         /\ Append(s, step)[Len(s) + 1] = step
         /\ SubSeq(Append(s, step), 1, (Len(s) + 1) - 1) = s
         /\ \A j \in 1..Len(s) :
               /\ Append(s, step)[j] = s[j]
               /\ SubSeq(Append(s, step), 1, j - 1) = SubSeq(s, 1, j - 1)
<1>1. /\ Append(s, step) \in Seq(Step)
      /\ Len(Append(s, step)) = Len(s) + 1 /\ Len(s) \in Nat
      /\ Append(s, step)[Len(s) + 1] = step
      /\ \A j \in 1..Len(s) : Append(s, step)[j] = s[j]
  OBVIOUS
<1>2. SubSeq(Append(s, step), 1, (Len(s) + 1) - 1) = s
  BY <1>1
<1>3. ASSUME NEW j \in 1..Len(s)
      PROVE  SubSeq(Append(s, step), 1, j - 1) = SubSeq(s, 1, j - 1)
  BY <1>1
<1>. QED  BY <1>1, <1>2, <1>3

(* A step that suits the steps so far keeps the order of the lane.          *)
LEMMA AppendHistory ==
  ASSUME HistoryInv, TypeInv, NEW step \in Step, steps' = Append(steps, step),
         row'.envelope = row.envelope, IsNext(steps, step.index),
         step.accepted <=> step.index \in DecisionSlots /\ Parked(steps, step.index),
         Len(steps) + 1 <= row.envelope.steps,
         ~ step.accepted => Calls(steps) < row.envelope.calls
  PROVE  HistoryInv'
<1>. DEFINE n == Len(steps) + 1
<1>1. /\ steps \in Seq(Step) /\ Len(steps') = n /\ Len(steps) \in Nat
      /\ steps'[n] = step /\ SubSeq(steps', 1, n - 1) = steps
      /\ \A j \in 1..Len(steps) : /\ steps'[j] = steps[j]
                                  /\ SubSeq(steps', 1, j - 1) = SubSeq(steps, 1, j - 1)
  BY AppendPrefix DEF TypeInv
<1>2. \A j \in 1..n : j = n \/ j \in 1..Len(steps)
  BY <1>1
<1>. HIDE DEF n
<1>3. \A j \in 1..Len(steps') : IsNext(SubSeq(steps', 1, j - 1), steps'[j].index)
  BY <1>1, <1>2 DEF HistoryInv, LaneOrder, Before
<1>4. \A j \in 1..Len(steps') :
         steps'[j].accepted <=>
            steps'[j].index \in DecisionSlots
            /\ Parked(SubSeq(steps', 1, j - 1), steps'[j].index)
  BY <1>1, <1>2 DEF HistoryInv, ParkedDecisionStands, Before
<1>5. Len(steps') <= row'.envelope.steps
  BY <1>1 DEF n
<1>6. \A j \in 1..Len(steps') :
         ~ steps'[j].accepted => Calls(SubSeq(steps', 1, j - 1)) < row'.envelope.calls
  BY <1>1, <1>2 DEF HistoryInv, BudgetIsKept, Before
<1>. QED  BY <1>3, <1>4, <1>5, <1>6
          DEF HistoryInv, LaneOrder, ParkedDecisionStands, BudgetIsKept, Before

-----------------------------------------------------------------------------
(* What is written into the row                                             *)

(* A write never shrinks the envelope; it completes a complete run only,    *)
(* and with the counters of its steps.                                      *)
SoundWrite ==
    /\ Covers(row'.envelope, row.envelope)
    /\ row'.status = "completed" =>
          \/ row.status = "completed"
          \/ Complete(steps) /\ row'.consumed = Consumed(steps)

LEMMA SameEnvelope ==
  ASSUME TypeInv, row'.envelope = row.envelope, row'.status \in {row.status, "advancing"}
  PROVE  SoundWrite
<1>1. Covers(row'.envelope, row.envelope)
  BY CoordinatorAssumption DEF TypeInv, RowType, Envelopes, Budget, Covers
<1>2. row'.status = "completed" => row.status = "completed"
  OBVIOUS
<1>. QED  BY <1>1, <1>2 DEF SoundWrite

(* The row a working holder knows has the envelope of the row.              *)
LEMMA KnownIsFresh ==
  ASSUME TypeInv, NEW c \in Callers, CallerInv(c), Mine(c), pc[c] \in Working,
         NEW live
  PROVE  Known(c, live).envelope = row.envelope /\ Known(c, live).status = "advancing"
BY DEF CallerInv, Known

LEMMA FinishIsSound ==
  ASSUME TypeInv, NEW c \in Callers, CallerInv(c), pc[c] \in Working, NEW status,
         Finish(c, status),
         status = "completed" => Complete(steps) /\ local[c].consumed = Consumed(steps)
  PROVE  SoundWrite
<1>1. /\ row'.envelope = row.envelope /\ row'.status = status
      /\ row'.consumed = local[c].consumed
  BY DEF Finish, Known, CallerInv
<1>2. Covers(row.envelope, row.envelope)
  BY CoordinatorAssumption DEF TypeInv, RowType, Envelopes, Budget, Covers
<1>. QED  BY <1>1, <1>2 DEF SoundWrite

LEMMA EnterIsSound ==
  ASSUME TypeInv, NEW c \in Callers, CallerInv(c), Enter(c)
  PROVE  SoundWrite
<1>1. CASE Request(c) \/ RefuseAdvance(c) \/ ListSteps(c)
  BY <1>1, SameEnvelope DEF Request, RefuseAdvance, ListSteps
<1>2. CASE Acquire(c) \/ AbandonAcquired(c)
  <2>1. row'.envelope = row.envelope /\ row'.status = "advancing"
    BY <1>2 DEF Acquire, AbandonAcquired, TypeInv, RowType
  <2>. QED  BY <2>1, SameEnvelope
<1>3. CASE RaiseEnvelope(c)
  <2>. DEFINE raised == Raised(local[c].envelope, local[c].raise)
  <2>1. /\ local[c].raise \in Envelopes /\ local[c].envelope \in Envelopes
        /\ local[c].envelope = row.envelope
    BY <1>3 DEF RaiseEnvelope, CallerInv, Working, PCs, TypeInv, Locals
  <2>2. Covers(raised, row.envelope)
    BY <2>1, RaisedType
  <2>3. row' = [Known(c, row.live) EXCEPT !.envelope = raised]
    BY <1>3 DEF RaiseEnvelope
  <2>. HIDE DEF raised
  <2>4. row'.envelope = raised /\ row'.status = "advancing"
    BY <2>3 DEF Known
  <2>. QED  BY <2>2, <2>4 DEF SoundWrite
<1>4. CASE AcceptReview(c)
  <2>1. Mine(c) /\ pc[c] \in Working /\ row' = Known(c, TRUE)
    BY <1>4 DEF AcceptReview, Heartbeat, Working, PCs
  <2>. QED  BY <2>1, KnownIsFresh, SameEnvelope
<1>5. CASE RejectAcceptance(c)
  <2>1. pc[c] \in Working /\ local[c].entry # "completed"
    BY <1>5 DEF RejectAcceptance, Working, PCs, CallerInv
  <2>. QED  BY <1>5, <2>1, FinishIsSound DEF RejectAcceptance, Reject
<1>. QED  BY <1>1, <1>2, <1>3, <1>4, <1>5 DEF Enter

LEMMA LoopIsSound ==
  ASSUME TypeInv, NEW c \in Callers, CallerInv(c), Loop(c)
  PROVE  SoundWrite
<1>0. \A label \in {"loop", "slot", "report", "step", "count", "queue", "settle"} :
         label \in Working
  BY DEF Working, PCs
<1>1. CASE RebuildConsumed(c)
  <2>1. /\ Mine(c) /\ pc[c] \in Working
        /\ row' = [Known(c, row.live) EXCEPT !.consumed = Consumed(local[c].log)]
    BY <1>0, <1>1 DEF RebuildConsumed
  <2>2. row'.envelope = Known(c, row.live).envelope /\ row'.status = Known(c, row.live).status
    BY <2>1 DEF Known
  <2>. QED  BY <2>1, <2>2, KnownIsFresh, SameEnvelope
<1>2. CASE FinishCompleted(c)
  <2>1. /\ pc[c] \in Working /\ Finish(c, "completed") /\ Complete(steps)
        /\ local[c].consumed = Consumed(steps)
    BY <1>0, <1>2 DEF FinishCompleted, AtLoop, Finish, CallerInv, Loaded
  <2>. QED  BY <2>1, FinishIsSound
<1>3. CASE FinishExhausted(c) \/ FinishParked(c)
  <2>1. /\ pc[c] \in Working
        /\ \E status \in {"budget_exhausted", "waiting_review", "blocked"} : Finish(c, status)
    BY <1>0, <1>3 DEF FinishExhausted, FinishParked, AtLoop
  <2>. QED  BY <2>1, FinishIsSound
<1>4. CASE RejectAtDecision(c)
  <2>1. pc[c] \in Working /\ local[c].entry # "completed"
    BY <1>0, <1>4 DEF RejectAtDecision, AtLoop, CallerInv
  <2>. QED  BY <1>4, <2>1, FinishIsSound DEF RejectAtDecision, Reject
<1>5. CASE StartSlot(c) \/ ReportSlot(c)
  <2>1. Mine(c) /\ pc[c] \in Working /\ row' = Known(c, TRUE)
    BY <1>0, <1>5 DEF StartSlot, ReportSlot, AtLoop, Heartbeat
  <2>. QED  BY <2>1, KnownIsFresh, SameEnvelope
<1>6. CASE RunSlot(c) \/ PersistStep(c) \/ EnqueueBlocker(c) \/ ContinueLoop(c)
  BY <1>6, SameEnvelope DEF RunSlot, PersistStep, EnqueueBlocker, ContinueLoop
<1>7. CASE CountStep(c)
  <2>1. /\ Mine(c) /\ pc[c] \in Working
        /\ row' = [Known(c, TRUE) EXCEPT !.consumed = Consumed(local[c].log)]
    BY <1>0, <1>7 DEF CountStep
  <2>2. row'.envelope = Known(c, TRUE).envelope /\ row'.status = Known(c, TRUE).status
    BY <2>1 DEF Known
  <2>. QED  BY <2>1, <2>2, KnownIsFresh, SameEnvelope
<1>. QED  BY <1>1, <1>2, <1>3, <1>4, <1>5, <1>6, <1>7 DEF Loop

LEMMA FailIsSound ==
  ASSUME TypeInv, NEW c \in Callers, CallerInv(c), Fail(c)
  PROVE  SoundWrite
<1>1. CASE FencedOut(c) \/ FailWrite(c) \/ KeepLease(c)
  BY <1>1, SameEnvelope DEF FencedOut, FailWrite, KeepLease
<1>2. CASE ReleaseLease(c)
  <2>1. row'.envelope = row.envelope /\ row'.status = row.status
    BY <1>2 DEF ReleaseLease, TypeInv, RowType
  <2>. QED  BY <2>1, SameEnvelope
<1>3. ASSUME MarkFailed(c), Mine(c)
      PROVE  SoundWrite
  <2>1. pc[c] \in Working
    BY <1>3 DEF MarkFailed, AtLoop, Working, PCs
  <2>2. row'.envelope = row.envelope /\ row'.status = "failed"
    BY <1>3, <2>1 DEF MarkFailed, Known, CallerInv
  <2>3. Covers(row.envelope, row.envelope)
    BY CoordinatorAssumption DEF TypeInv, RowType, Envelopes, Budget, Covers
  <2>. QED  BY <2>2, <2>3 DEF SoundWrite
<1>4. ASSUME MarkFailed(c), ~ Mine(c)
      PROVE  SoundWrite
  BY <1>4, SameEnvelope DEF MarkFailed
<1>. QED  BY <1>1, <1>2, <1>3, <1>4 DEF Fail

LEMMA NextIsSound ==
  ASSUME IInv, [Next]_vars
  PROVE  SoundWrite
<1>. USE DEF IInv
<1>1. CASE Crash \/ UNCHANGED vars
  BY <1>1, SameEnvelope DEF Crash, vars
<1>2. CASE LeaseExpires
  <2>1. row'.envelope = row.envelope /\ row'.status = row.status
    BY <1>2 DEF LeaseExpires, TypeInv, RowType
  <2>. QED  BY <2>1, SameEnvelope
<1>. QED  BY <1>1, <1>2, EnterIsSound, LoopIsSound, FailIsSound DEF Next

-----------------------------------------------------------------------------
(* The invariant is inductive                                               *)

LEMMA InitInv == Init => IInv
<1>. SUFFICES ASSUME Init PROVE IInv
  OBVIOUS
<1>1. \A c \in Callers : CallerInv(c)
  BY DEF Init, Fresh, CallerInv, Working, Loaded, Decided
<1>2. ~ Terminal
  BY DEF Init, Terminal
<1>3. HistoryInv
  <2>1. Len(steps) = 0 /\ row.envelope = InitialEnvelope
    BY DEF Init
  <2>. QED  BY <2>1, CoordinatorAssumption
            DEF HistoryInv, LaneOrder, ParkedDecisionStands, BudgetIsKept, Budget
<1>. QED  BY <1>1, <1>2, <1>3, InitType DEF IInv

LEMMA CallerStep ==
  ASSUME IInv, NEW c \in Callers, Enter(c) \/ Loop(c) \/ Fail(c)
  PROVE  Moves(c) /\ \A d \in Callers : CallerInv(d)'
<1>1. TypeInv /\ CallerInv(c)
  BY DEF IInv
<1>2. Moves(c)
  BY <1>1, EnterMoves, LoopMoves, FailMoves
<1>3. CallerInv(c)'
  BY <1>1, EnterCaller, LoopCaller, FailCaller
<1>4. \A d \in Callers \ {c} : CallerInv(d)'
  BY <1>2, OthersKeep
<1>. QED  BY <1>2, <1>3, <1>4

(* Only PersistStep adds to the steps.                                      *)
LEMMA StepsStep ==
  ASSUME IInv, [Next]_vars
  PROVE  steps' = steps \/ \E c \in Callers : PersistStep(c)
<1>1. ASSUME NEW c \in Callers, Enter(c)
      PROVE  steps' = steps
  BY <1>1 DEF Enter, Request, Acquire, AbandonAcquired, RefuseAdvance, RaiseEnvelope,
     ListSteps, AcceptReview, RejectAcceptance, Reject, Finish
<1>2. ASSUME NEW c \in Callers, Loop(c), ~ PersistStep(c)
      PROVE  steps' = steps
  BY <1>2 DEF Loop, RebuildConsumed, FinishCompleted, RejectAtDecision, FinishExhausted,
     StartSlot, RunSlot, ReportSlot, CountStep, EnqueueBlocker, FinishParked, ContinueLoop,
     Reject, Finish
<1>3. ASSUME NEW c \in Callers, Fail(c)
      PROVE  steps' = steps
  BY <1>3 DEF Fail, FencedOut, FailWrite, ReleaseLease, KeepLease, MarkFailed
<1>. QED  BY <1>1, <1>2, <1>3 DEF Next, Crash, LeaseExpires, vars

LEMMA DisturbancesStep ==
  ASSUME [Next]_vars
  PROVE  disturbances' = disturbances \/ Disturb
<1>1. ASSUME NEW c \in Callers, Enter(c)
      PROVE  disturbances' = disturbances \/ Disturb
  BY <1>1 DEF Enter, Request, Acquire, AbandonAcquired, RefuseAdvance, RaiseEnvelope,
     ListSteps, AcceptReview, RejectAcceptance, Reject, Finish
<1>2. ASSUME NEW c \in Callers, Loop(c)
      PROVE  disturbances' = disturbances
  BY <1>2 DEF Loop, RebuildConsumed, FinishCompleted, RejectAtDecision, FinishExhausted,
     StartSlot, RunSlot, ReportSlot, PersistStep, CountStep, EnqueueBlocker, FinishParked,
     ContinueLoop, Reject, Finish
<1>3. ASSUME NEW c \in Callers, Fail(c)
      PROVE  disturbances' = disturbances \/ Disturb
  BY <1>3 DEF Fail, FencedOut, FailWrite, ReleaseLease, KeepLease, MarkFailed
<1>. QED  BY <1>1, <1>2, <1>3 DEF Next, Crash, LeaseExpires, vars

LEMMA BeforeType ==
  ASSUME TypeInv, NEW j \in 1..Len(steps)
  PROVE  Before(j) \in Seq(Step)
BY DEF TypeInv, Before

LEMMA NextHistory ==
  ASSUME IInv, [Next]_vars
  PROVE  HistoryInv'
<1>1. CASE steps' = steps
  <2>1. /\ Len(steps) \in Nat /\ row.envelope \in [steps : Int, calls : Int]
        /\ row'.envelope \in [steps : Int, calls : Int]
        /\ row'.envelope.steps >= row.envelope.steps
        /\ row'.envelope.calls >= row.envelope.calls
    <3>1. TypeInv'
      BY NextType DEF IInv
    <3>. QED  BY <3>1, NextIsSound, CoordinatorAssumption
              DEF IInv, TypeInv, RowType, Envelopes, Budget, SoundWrite, Covers
  <2>2. ASSUME NEW j \in 1..Len(steps), ~ steps[j].accepted
        PROVE  Calls(Before(j)) < row'.envelope.calls
    <3>1. Calls(Before(j)) \in Nat
      BY BeforeType, CallsType DEF IInv
    <3>2. Calls(Before(j)) < row.envelope.calls
      BY <2>2 DEF IInv, HistoryInv, BudgetIsKept
    <3>. QED  BY <2>1, <3>1, <3>2
  <2>3. BudgetIsKept'
    BY <1>1, <2>1, <2>2 DEF IInv, HistoryInv, BudgetIsKept, Before
  <2>. QED  BY <1>1, <2>3 DEF IInv, HistoryInv, LaneOrder, ParkedDecisionStands, Before
<1>2. ASSUME NEW c \in Callers, PersistStep(c)
      PROVE  HistoryInv'
  <2>. DEFINE step == StepOf(local[c].result)
  <2>1. /\ Justified(c) /\ local[c].result \in Result /\ local[c].log = steps
        /\ local[c].envelope = row.envelope
    BY <1>2 DEF PersistStep, IInv, CallerInv, Justified, Decided, Working, Loaded, PCs
  <2>2. /\ step \in Step /\ step.index = local[c].result.index
        /\ step.accepted = local[c].result.accepted
    BY <2>1 DEF StepOf, Step, Result
  <2>3. steps' = Append(steps, step) /\ row' = row
    BY <1>2 DEF PersistStep
  <2>. HIDE DEF step
  <2>. QED  BY <2>1, <2>2, <2>3, AppendHistory DEF IInv, Justified, AwaitsDecision
<1>. QED  BY <1>1, <1>2, StepsStep

LEMMA NextInv == IInv /\ [Next]_vars => IInv'
<1>. SUFFICES ASSUME IInv, [Next]_vars PROVE IInv'
  OBVIOUS
<1>1. TypeInv' /\ HistoryInv'
  BY NextType, NextHistory DEF IInv
<1>2. ASSUME NEW c \in Callers, Enter(c) \/ Loop(c) \/ Fail(c)
      PROVE  (Terminal => row.holder = None)' /\ \A d \in Callers : CallerInv(d)'
  <2>1. Moves(c) /\ \A d \in Callers : CallerInv(d)'
    BY <1>2, CallerStep
  <2>. QED  BY <2>1 DEF IInv, Moves, Terminal
<1>3. CASE Crash
  <2>1. \A d \in Callers : CallerInv(d)'
    BY <1>3 DEF Crash, Fresh, CallerInv, Working, Loaded, Decided
  <2>. QED  BY <1>1, <1>3, <2>1 DEF Crash, IInv, Terminal
<1>4. CASE LeaseExpires
  <2>1. /\ row'.holder = row.holder /\ row'.envelope = row.envelope
        /\ row'.status = row.status /\ UNCHANGED <<steps, pc, local>>
        /\ pc[row.holder] # "step"
    BY <1>4 DEF LeaseExpires, IInv, TypeInv, RowType
  <2>2. \A d \in Callers : CallerInv(d)'
    BY <2>1 DEF IInv, CallerInv, Mine, Justified, AwaitsDecision
  <2>. QED  BY <1>1, <2>1, <2>2 DEF IInv, Terminal
<1>5. CASE UNCHANGED vars
  BY <1>1, <1>5 DEF vars, IInv, CallerInv, Mine, Justified, AwaitsDecision, Terminal
<1>. QED  BY <1>1, <1>2, <1>3, <1>4, <1>5 DEF Next, IInv

LEMMA CoordinatorInvariant == Spec => []IInv
BY InitInv, NextInv, PTL DEF Spec

LEMMA TerminalStays ==
  ASSUME IInv, [Next]_vars, Terminal
  PROVE  UNCHANGED <<row, steps>>
<1>1. row.holder = None
  BY DEF IInv
<1>2. ASSUME NEW c \in Callers, Enter(c) \/ Loop(c) \/ Fail(c)
      PROVE  UNCHANGED <<row, steps>>
  <2>1. Moves(c)
    BY <1>2, CallerStep
  <2>. QED  BY <1>1, <2>1, CoordinatorAssumption DEF Moves, Mine, Acquirable
<1>. QED  BY <1>1, <1>2 DEF Next, Crash, LeaseExpires, vars

-----------------------------------------------------------------------------
(* The counters are a cache of the steps                                    *)

Counted(e) == Covers(Consumed(steps), e)

CountersInv ==
    /\ Counted(row.consumed)
    /\ \A c \in Callers : Counted(local[c].consumed) /\ Counted(local[c].taken)
    /\ row.status = "completed" => row.consumed = Consumed(steps)

(* No counters are written but those of the steps and those known before.   *)
Cached(c) == {row.consumed, local[c].consumed, local[c].taken, Consumed(steps), Nothing}

Counts(c) ==
    row'.consumed \in Cached(c)
    /\ local'[c].consumed \in Cached(c) /\ local'[c].taken \in Cached(c)

LEMMA ReturnCounts ==
  ASSUME TypeInv, NEW c \in Callers, Return(c)
  PROVE  local'[c].consumed \in Cached(c) /\ local'[c].taken \in Cached(c)
BY DEF TypeInv, Return, Fresh, Cached

LEMMA KnownCounts ==
  ASSUME NEW c \in Callers, NEW live
  PROVE  Known(c, live).consumed = local[c].consumed
BY DEF Known

LEMMA FinishCounts ==
  ASSUME TypeInv, NEW c \in Callers, NEW status, Finish(c, status)
  PROVE  Counts(c)
<1>1. row'.consumed = local[c].consumed
  BY DEF Finish, Known
<1>. QED  BY <1>1, ReturnCounts DEF Finish, Counts, Cached

LEMMA EnterCounts ==
  ASSUME TypeInv, NEW c \in Callers, CallerInv(c), Enter(c)
  PROVE  Counts(c)
<1>0. local[c] \in Locals /\ DOMAIN local = Callers
  BY DEF TypeInv
<1>1. CASE Request(c)
  <2>1. local'[c].consumed = Nothing /\ local'[c].taken = Nothing /\ row' = row
    BY <1>0, <1>1 DEF Request, Fresh
  <2>. QED  BY <2>1 DEF Counts, Cached
<1>2. CASE Acquire(c)
  <2>1. /\ local'[c].consumed = row.consumed /\ local'[c].taken = row.consumed
        /\ row'.consumed = row.consumed
    BY <1>0, <1>2 DEF Acquire, TypeInv, RowType, Locals
  <2>. QED  BY <2>1 DEF Counts, Cached
<1>3. CASE AbandonAcquired(c)
  <2>1. row'.consumed = row.consumed
    BY <1>3 DEF AbandonAcquired, TypeInv, RowType
  <2>. QED  BY <1>3, <2>1, ReturnCounts DEF AbandonAcquired, Counts, Cached
<1>4. CASE RefuseAdvance(c)
  BY <1>4, ReturnCounts DEF RefuseAdvance, Counts, Cached
<1>5. CASE RaiseEnvelope(c)
  <2>. DEFINE raised == Raised(local[c].envelope, local[c].raise)
  <2>1. row' = [Known(c, row.live) EXCEPT !.envelope = raised]
        /\ local' = [local EXCEPT ![c].envelope = raised, ![c].raise = None]
    BY <1>5 DEF RaiseEnvelope
  <2>. HIDE DEF raised
  <2>2. /\ row'.consumed = local[c].consumed /\ local'[c].consumed = local[c].consumed
        /\ local'[c].taken = local[c].taken
    BY <1>0, <2>1 DEF Known, Locals
  <2>. QED  BY <2>2 DEF Counts, Cached
<1>6. CASE ListSteps(c)
  <2>1. /\ row' = row /\ local'[c].consumed = local[c].consumed
        /\ local'[c].taken = local[c].taken
    BY <1>0, <1>6 DEF ListSteps, Locals
  <2>. QED  BY <2>1 DEF Counts, Cached
<1>7. CASE AcceptReview(c)
  <2>1. PICK result : local' = [local EXCEPT ![c].result = result]
    BY <1>7 DEF AcceptReview
  <2>2. /\ row'.consumed = local[c].consumed /\ local'[c].consumed = local[c].consumed
        /\ local'[c].taken = local[c].taken
    BY <1>0, <1>7, <2>1, KnownCounts DEF AcceptReview, Heartbeat, Locals
  <2>. QED  BY <2>2 DEF Counts, Cached
<1>8. CASE RejectAcceptance(c)
  BY <1>8, FinishCounts DEF RejectAcceptance, Reject
<1>. QED  BY <1>1, <1>2, <1>3, <1>4, <1>5, <1>6, <1>7, <1>8 DEF Enter

LEMMA LoopCounts ==
  ASSUME TypeInv, NEW c \in Callers, CallerInv(c), Loop(c)
  PROVE  Counts(c)
<1>0. local[c] \in Locals /\ DOMAIN local = Callers
  BY DEF TypeInv
<1>1. CASE RebuildConsumed(c) \/ CountStep(c)
  <2>1. local[c].log = steps
    BY <1>1 DEF RebuildConsumed, CountStep, CallerInv, Loaded
  <2>2. /\ row'.consumed = Consumed(steps) /\ local'[c].consumed = Consumed(steps)
        /\ local'[c].taken = local[c].taken
    BY <1>0, <1>1, <2>1 DEF RebuildConsumed, CountStep, Known, Locals
  <2>. QED  BY <2>2 DEF Counts, Cached
<1>2. CASE FinishCompleted(c) \/ FinishExhausted(c) \/ FinishParked(c) \/ RejectAtDecision(c)
  BY <1>2, FinishCounts DEF FinishCompleted, FinishExhausted, FinishParked,
     RejectAtDecision, Reject
<1>3. CASE StartSlot(c)
  <2>1. PICK result : local' = [local EXCEPT ![c].result = result]
    BY <1>3 DEF StartSlot
  <2>2. /\ row'.consumed = local[c].consumed /\ local'[c].consumed = local[c].consumed
        /\ local'[c].taken = local[c].taken
    BY <1>0, <1>3, <2>1, KnownCounts DEF StartSlot, Heartbeat, Locals
  <2>. QED  BY <2>2 DEF Counts, Cached
<1>4. CASE RunSlot(c) \/ ContinueLoop(c)
  <2>1. PICK result : local' = [local EXCEPT ![c].result = result]
    BY <1>4 DEF RunSlot, ContinueLoop
  <2>2. /\ row' = row /\ local'[c].consumed = local[c].consumed
        /\ local'[c].taken = local[c].taken
    BY <1>0, <1>4, <2>1 DEF RunSlot, ContinueLoop, Locals
  <2>. QED  BY <2>2 DEF Counts, Cached
<1>5. CASE ReportSlot(c)
  BY <1>5, KnownCounts DEF ReportSlot, Heartbeat, Counts, Cached
<1>6. CASE PersistStep(c)
  <2>1. PICK log : local' = [local EXCEPT ![c].log = log]
    BY <1>6 DEF PersistStep
  <2>2. /\ row' = row /\ local'[c].consumed = local[c].consumed
        /\ local'[c].taken = local[c].taken
    BY <1>0, <1>6, <2>1 DEF PersistStep, Locals
  <2>. QED  BY <2>2 DEF Counts, Cached
<1>7. CASE EnqueueBlocker(c)
  BY <1>7 DEF EnqueueBlocker, Counts, Cached
<1>. QED  BY <1>1, <1>2, <1>3, <1>4, <1>5, <1>6, <1>7 DEF Loop

LEMMA FailCounts ==
  ASSUME TypeInv, NEW c \in Callers, Fail(c)
  PROVE  Counts(c)
<1>1. CASE FencedOut(c) \/ KeepLease(c)
  BY <1>1, ReturnCounts DEF FencedOut, KeepLease, Counts, Cached
<1>2. CASE FailWrite(c)
  BY <1>2 DEF FailWrite, Counts, Cached
<1>3. CASE ReleaseLease(c)
  <2>1. row'.consumed = row.consumed
    BY <1>3 DEF ReleaseLease, TypeInv, RowType
  <2>. QED  BY <1>3, <2>1, ReturnCounts DEF ReleaseLease, Counts, Cached
<1>4. CASE MarkFailed(c)
  <2>1. row'.consumed = local[c].taken \/ row' = row
    BY <1>4 DEF MarkFailed, Known
  <2>. QED  BY <1>4, <2>1, ReturnCounts DEF MarkFailed, Counts, Cached
<1>. QED  BY <1>1, <1>2, <1>3, <1>4 DEF Fail

(* What was counted stays counted: the steps only grow.                     *)
LEMMA CountedStays ==
  ASSUME IInv, [Next]_vars, NEW e \in Budget, Counted(e)
  PROVE  Counted(e)'
<1>1. CASE steps' = steps
  BY <1>1 DEF Counted
<1>2. ASSUME NEW c \in Callers, PersistStep(c)
      PROVE  Counted(e)'
  <2>. DEFINE step == StepOf(local[c].result)
  <2>1. local[c].result \in Result
    BY <1>2 DEF PersistStep, IInv, CallerInv, Justified, Decided
  <2>2. step \in Step
    BY <2>1 DEF StepOf, Step, Result
  <2>3. steps' = Append(steps, step) /\ steps \in Seq(Step)
    BY <1>2 DEF PersistStep, IInv, TypeInv
  <2>. HIDE DEF step
  <2>. QED  BY <2>2, <2>3, ConsumedGrows DEF Counted
<1>. QED  BY <1>1, <1>2, StepsStep

LEMMA CachedIsCounted ==
  ASSUME IInv, CountersInv, NEW c \in Callers, NEW e \in Cached(c)
  PROVE  e \in Budget /\ Counted(e)
<1>1. Consumed(steps) \in Budget /\ Nothing \in Budget /\ local[c] \in Locals
      /\ row.consumed \in Budget
  BY ConsumedType DEF IInv, TypeInv, RowType, Nothing, Budget
<1>2. local[c].consumed \in Budget /\ local[c].taken \in Budget
  BY <1>1 DEF Locals
<1>3. Covers(Consumed(steps), Consumed(steps)) /\ Covers(Consumed(steps), Nothing)
  BY <1>1 DEF Covers, Budget, Nothing
<1>. QED  BY <1>1, <1>2, <1>3 DEF Cached, CountersInv, Counted

LEMMA CountersStep == IInv /\ CountersInv /\ [Next]_vars => CountersInv'
<1>. SUFFICES ASSUME IInv, CountersInv, [Next]_vars PROVE CountersInv'
  OBVIOUS
<1>1. ASSUME NEW d \in Callers
      PROVE  /\ row.consumed \in Cached(d) /\ local[d].consumed \in Cached(d)
             /\ local[d].taken \in Cached(d) /\ Nothing \in Cached(d)
  BY DEF Cached
<1>2. ASSUME NEW c \in Callers, Enter(c) \/ Loop(c) \/ Fail(c)
      PROVE  /\ Counted(row.consumed)'
             /\ \A d \in Callers : (Counted(local[d].consumed) /\ Counted(local[d].taken))'
  <2>1. Counts(c)
    BY <1>2, EnterCounts, LoopCounts, FailCounts DEF IInv
  <2>2. Moves(c)
    BY <1>2, CallerStep
  <2>3. ASSUME NEW e, NEW d \in Callers, e \in Cached(d)
        PROVE  Covers(Consumed(steps'), e)
    BY <2>3, CachedIsCounted, CountedStays DEF Counted
  <2>4. Covers(Consumed(steps'), row'.consumed)
    BY <2>1, <2>3 DEF Counts
  <2>5. ASSUME NEW d \in Callers
        PROVE  /\ Covers(Consumed(steps'), local'[d].consumed)
               /\ Covers(Consumed(steps'), local'[d].taken)
    <3>1. CASE d = c
      BY <2>1, <2>3, <3>1 DEF Counts
    <3>2. CASE d # c
      <4>1. local'[d] = local[d]
        BY <2>2, <3>2 DEF Moves
      <4>. QED  BY <1>1, <2>3, <4>1
    <3>. QED  BY <3>1, <3>2
  <2>. QED  BY <2>4, <2>5 DEF Counted
<1>3. CASE Crash
  <2>1. /\ steps' = steps /\ row' = row
        /\ \A d \in Callers : local'[d].consumed = Nothing /\ local'[d].taken = Nothing
    BY <1>3 DEF Crash, Fresh
  <2>2. \A d \in Callers : Counted(Nothing)
    BY <1>1, CachedIsCounted
  <2>. QED  BY <2>1, <2>2 DEF CountersInv, Counted
<1>4. CASE LeaseExpires
  <2>1. row'.consumed = row.consumed /\ row'.status = row.status /\ UNCHANGED <<steps, local>>
    BY <1>4 DEF LeaseExpires, IInv, TypeInv, RowType
  <2>. QED  BY <2>1 DEF CountersInv, Counted
<1>5. CASE UNCHANGED vars
  BY <1>5 DEF vars, CountersInv, Counted
<1>6. (row.status = "completed" => row.consumed = Consumed(steps))'
  <2>1. CASE Terminal
    <3>1. UNCHANGED <<row, steps>>
      BY <2>1, TerminalStays
    <3>. QED  BY <3>1 DEF CountersInv
  <2>2. CASE ~ Terminal
    <3>1. row'.status = "completed" => row'.consumed = Consumed(steps)
      BY <2>2, NextIsSound DEF SoundWrite, Terminal
    <3>2. row'.status = "completed" => steps' = steps
      BY <2>2, StepsStep DEF PersistStep, Terminal
    <3>. QED  BY <3>1, <3>2
  <2>. QED  BY <2>1, <2>2
<1>. QED  BY <1>2, <1>3, <1>4, <1>5, <1>6 DEF Next, CountersInv

-----------------------------------------------------------------------------
(* Theorems                                                                 *)

(* The persisted steps walk the lane in order, however many advances,       *)
(* takeovers of the lease, failing writes and crashes there are: a slot is  *)
(* attempted after the slots before it passed and never once it passed.     *)
THEOREM StepsWalkTheLane == Spec => []LaneOrder
BY CoordinatorInvariant, PTL DEF IInv, HistoryInv

(* A slot that waits for a human decision is never executed again, and an   *)
(* acceptance follows a park.                                               *)
THEOREM DecisionsStand == Spec => []ParkedDecisionStands
BY CoordinatorInvariant, PTL DEF IInv, HistoryInv

(* The persisted steps never outnumber the envelope, and no slot runs once  *)
(* the calls of the steps before it have used the envelope up, although     *)
(* every advance decides on a copy of both.                                 *)
THEOREM BudgetsAreKept == Spec => []BudgetIsKept
BY CoordinatorInvariant, PTL DEF IInv, HistoryInv

(* The row, the steps and what the callers know keep their types: the       *)
(* counters stay sums of what the steps spent.                              *)
THEOREM TypesAreKept == Spec => []TypeOK
<1>1. Init => disturbances \in 0..MaxDisturbances
  BY CoordinatorAssumption DEF Init
<1>2. disturbances \in 0..MaxDisturbances /\ [Next]_vars
        => (disturbances \in 0..MaxDisturbances)'
  <2>1. MaxDisturbances \in Nat
    BY CoordinatorAssumption
  <2>. QED  BY <2>1, DisturbancesStep DEF Disturb
<1>3. Spec => [](disturbances \in 0..MaxDisturbances)
  BY <1>1, <1>2, PTL DEF Spec
<1>4. IInv /\ disturbances \in 0..MaxDisturbances => TypeOK
  BY DEF IInv, TypeInv, RowType, TypeOK
<1>. QED  BY <1>3, <1>4, CoordinatorInvariant, PTL

(* The counters of the row, a cache every advance carries with it and       *)
(* writes back, never lead the persisted steps, and those of a completed    *)
(* run are exact.                                                           *)
THEOREM CountersFollowTheSteps ==
  Spec => [](/\ Covers(Consumed(steps), row.consumed)
             /\ row.status = "completed" => row.consumed = Consumed(steps))
<1>1. Init => CountersInv
  <2>. SUFFICES ASSUME Init PROVE CountersInv
    OBVIOUS
  <2>1. row.consumed = Nothing /\ row.status = "created" /\ steps = <<>>
        /\ \A c \in Callers : local[c].consumed = Nothing /\ local[c].taken = Nothing
    BY DEF Init, Fresh
  <2>2. Covers(Consumed(<<>>), Nothing)
    BY CallsOfNone DEF Covers, Consumed, Nothing
  <2>. QED  BY <2>1, <2>2 DEF CountersInv, Counted
<1>2. Spec => []CountersInv
  BY <1>1, CountersStep, CoordinatorInvariant, PTL DEF Spec
<1>. QED  BY <1>2, PTL DEF CountersInv, Counted

(* No write of an advance takes back what a raise granted.                  *)
THEOREM RaisesStand == Spec => EnvelopeNeverShrinks
<1>1. IInv /\ [Next]_vars => [Covers(row'.envelope, row.envelope)]_row
  BY NextIsSound DEF SoundWrite
<1>. QED  BY <1>1, CoordinatorInvariant, PTL DEF Spec, EnvelopeNeverShrinks

(* A run completes with every slot passed only, and no advance, overtaken   *)
(* or late, changes a terminal run.                                         *)
THEOREM TerminalRunsAreFinal == Spec => TerminalIsFinal
<1>1. ASSUME IInv, [Next]_vars, Terminal
      PROVE  UNCHANGED <<row, steps>>
  BY <1>1, TerminalStays
<1>2. IInv /\ [Next]_vars =>
        [/\ row'.status = "completed" => Complete(steps)
         /\ Terminal => UNCHANGED <<row, steps>>]_<<row, steps>>
  <2>. SUFFICES ASSUME IInv, [Next]_vars, ~ UNCHANGED <<row, steps>>
                PROVE  row'.status = "completed" => Complete(steps)
    BY <1>1
  <2>1. row.status # "completed"
    BY <1>1 DEF Terminal
  <2>. QED  BY <2>1, NextIsSound DEF SoundWrite
<1>. QED  BY <1>2, CoordinatorInvariant, PTL DEF Spec, TerminalIsFinal
===============================================================================
