-------------------------- MODULE RunExecutionProofs --------------------------
(***************************************************************************)
(* Theorems about the starts of runs, for any number of branches, runs,    *)
(* cells, callers and tries: starts that race each other leave an exact    *)
(* lineage, a closed cycle's accounting stays true, and a run that passed  *)
(* stays passed.                                                           *)
(***************************************************************************)
EXTENDS RunExecution, TLAPS

-----------------------------------------------------------------------------
(* What the steps do to the lineage                                         *)

LEMMA AppendedAttempt ==
  ASSUME NEW s \in Seq(Attempt), NEW k \in Keys
  PROVE  /\ Append(s, NewAttempt(k)) # <<>> /\ Len(s) \in Nat
         /\ Len(Append(s, NewAttempt(k))) = Len(s) + 1
         /\ \A m \in 1..Len(s) : Append(s, NewAttempt(k))[m] = s[m]
         /\ Append(s, NewAttempt(k))[Len(s) + 1].key = k
<1>1. NewAttempt(k) \in Attempt /\ NewAttempt(k).key = k
  BY DEF NewAttempt, Attempt, AttemptStates
<1>2. /\ Len(s) \in Nat /\ Len(Append(s, NewAttempt(k))) = Len(s) + 1
      /\ \A m \in 1..Len(s) : Append(s, NewAttempt(k))[m] = s[m]
      /\ Append(s, NewAttempt(k))[Len(s) + 1] = NewAttempt(k)
  BY <1>1
<1>3. Append(s, NewAttempt(k)) # <<>>
  BY <1>2
<1>. QED  BY <1>1, <1>2, <1>3

(* A committed start appends one attempt with a new key to exactly the      *)
(* cells the run needs at that moment.                                      *)
LEMMA CommitEffect ==
  ASSUME TypeOK, NEW c \in Clients, CommitStart(c)
  PROVE  \E v \in Runs, k \in Keys :
            /\ ~ StartedWith(v, k) /\ Startable(v) /\ Selectable(v)
            /\ lineage' \in [Runs -> [Cells -> Seq(Attempt)]]
            /\ \A u \in Runs, d \in Cells :
                  lineage'[u][d] = IF u = v /\ d \in CellsToAttempt(v)
                                   THEN Append(lineage[u][d], NewAttempt(k))
                                   ELSE lineage[u][d]
<1>. DEFINE v == request[c].run
            k == request[c].key
<1>1. request[c] \in Request
  BY DEF TypeOK, CommitStart
<1>2. v \in Runs /\ k \in Keys
  BY <1>1 DEF Request
<1>3. ~ StartedWith(v, k) /\ Startable(v) /\ Selectable(v) /\ request[c].plan = Plan(v)
  BY DEF CommitStart, PlanStands
<1>4. \A d \in Cells : request[c].plan[d] # 0 <=> d \in CellsToAttempt(v)
  BY <1>2, <1>3 DEF Plan, CellsToAttempt, Tries, TypeOK
<1>5. NewAttempt(k) \in Attempt
  BY <1>2 DEF NewAttempt, Attempt, AttemptStates
<1>6. lineage' = [lineage EXCEPT ![v] = [d \in Cells |->
          IF request[c].plan[d] # 0 THEN Append(lineage[v][d], NewAttempt(k)) ELSE lineage[v][d]]]
  BY DEF CommitStart
<1>7. lineage \in [Runs -> [Cells -> Seq(Attempt)]]
  BY DEF TypeOK
<1>. HIDE DEF v, k
<1>8. lineage' \in [Runs -> [Cells -> Seq(Attempt)]]
  BY <1>2, <1>5, <1>6, <1>7
<1>9. \A u \in Runs, d \in Cells :
         lineage'[u][d] = IF u = v /\ d \in CellsToAttempt(v)
                          THEN Append(lineage[u][d], NewAttempt(k)) ELSE lineage[u][d]
  BY <1>2, <1>4, <1>6, <1>7
<1>. QED  BY <1>2, <1>3, <1>8, <1>9

(* An update replaces one attempt of one lineage.                           *)
LEMMA UpdateEffect ==
  ASSUME TypeOK, NEW v \in Runs, NEW cell \in Cells, NEW i \in 1..Tries(v, cell),
         NEW attempt \in Attempt, Update(v, cell, i, attempt)
  PROVE  /\ lineage' \in [Runs -> [Cells -> Seq(Attempt)]]
         /\ \A u \in Runs, d \in Cells : Len(lineage'[u][d]) = Tries(u, d)
         /\ \A u \in Runs, d \in Cells : \A j \in 1..Tries(u, d) :
               lineage'[u][d][j] = IF u = v /\ d = cell /\ j = i
                                   THEN attempt ELSE lineage[u][d][j]
         /\ \A u \in Runs, d \in Cells : u # v \/ d # cell => lineage'[u][d] = lineage[u][d]
<1>1. lineage \in [Runs -> [Cells -> Seq(Attempt)]]
  BY DEF TypeOK
<1>2. lineage[v][cell] \in Seq(Attempt) /\ i \in 1..Len(lineage[v][cell])
  BY <1>1 DEF Tries
<1>. DEFINE seq == [lineage[v][cell] EXCEPT ![i] = attempt]
<1>3. /\ seq \in Seq(Attempt) /\ Len(seq) = Len(lineage[v][cell])
      /\ \A j \in 1..Len(lineage[v][cell]) :
            seq[j] = IF j = i THEN attempt ELSE lineage[v][cell][j]
  BY <1>2
<1>4. lineage' = [lineage EXCEPT ![v] = [lineage[v] EXCEPT ![cell] = seq]]
  BY <1>1 DEF Update
<1>. HIDE DEF seq
<1>5. \A u \in Runs, d \in Cells :
         lineage'[u][d] = IF u = v /\ d = cell THEN seq ELSE lineage[u][d]
  BY <1>1, <1>4
<1>6. lineage' \in [Runs -> [Cells -> Seq(Attempt)]]
  BY <1>1, <1>3, <1>4
<1>. QED  BY <1>3, <1>5, <1>6 DEF Tries

(* The end of an attempt keeps its key and leaves "active".                 *)
LEMMA EndEffect ==
  ASSUME TypeOK, NEW v \in Runs, NEW cell \in Cells, NEW i \in 1..Tries(v, cell),
         EndAttempt(v, cell, i)
  PROVE  \E attempt \in Attempt :
            /\ lineage[v][cell][i].state = "active"
            /\ attempt.state # "active" /\ attempt.key = lineage[v][cell][i].key
            /\ Update(v, cell, i, attempt)
<1>1. lineage[v][cell][i] \in Attempt
  BY DEF TypeOK, Tries
<1>2. PICK state \in AttemptStates \ {"active"} :
         Update(v, cell, i, [lineage[v][cell][i] EXCEPT
              !.state = state,
              !.collection = IF state = "succeeded" THEN "prepared" ELSE "none"])
  BY DEF EndAttempt
<1>3. lineage[v][cell][i].state = "active"
  BY DEF EndAttempt
<1>. DEFINE attempt == [lineage[v][cell][i] EXCEPT
              !.state = state,
              !.collection = IF state = "succeeded" THEN "prepared" ELSE "none"]
<1>4. attempt \in Attempt /\ attempt.state = state /\ attempt.key = lineage[v][cell][i].key
  BY <1>1, <1>2 DEF Attempt
<1>. QED  BY <1>2, <1>3, <1>4

(* The end of a collection changes nothing else.                            *)
LEMMA CollectionEffect ==
  ASSUME TypeOK, NEW v \in Runs, NEW cell \in Cells, NEW i \in 1..Tries(v, cell),
         CompleteCollection(v, cell, i)
  PROVE  \E attempt \in Attempt :
            /\ lineage[v][cell][i].collection = "prepared"
            /\ attempt.state = lineage[v][cell][i].state
            /\ attempt.key = lineage[v][cell][i].key
            /\ Update(v, cell, i, attempt)
<1>1. lineage[v][cell][i] \in Attempt
  BY DEF TypeOK, Tries
<1>2. PICK outcome \in {"collected", "failed"} :
         Update(v, cell, i, [lineage[v][cell][i] EXCEPT !.collection = outcome])
  BY DEF CompleteCollection
<1>. DEFINE attempt == [lineage[v][cell][i] EXCEPT !.collection = outcome]
<1>3. /\ attempt \in Attempt /\ attempt.state = lineage[v][cell][i].state
      /\ attempt.key = lineage[v][cell][i].key
  BY <1>1, <1>2 DEF Attempt
<1>. QED  BY <1>2, <1>3 DEF CompleteCollection

-----------------------------------------------------------------------------
(* Type correctness                                                         *)

LEMMA InitType == Init => TypeOK
<1>. SUFFICES ASSUME Init PROVE TypeOK
  OBVIOUS
<1>1. stage \in [Runs -> {"unknown"}] /\ sealed = FALSE
  BY DEF Init, Pipeline!Init, Runs, Pipeline!AllRevisions
<1>2. /\ lineage \in [Runs -> [Cells -> Seq(Attempt)]]
      /\ \A v \in Runs, cell \in Cells : lineage[v][cell] = <<>>
  BY DEF Init
<1>3. \A v \in Runs, cell \in Cells : RetryCeiling[v][cell] \in Nat
  BY RunAssumption
<1>4. \A v \in Runs, cell \in Cells : Tries(v, cell) <= RetryCeiling[v][cell]
  BY <1>2, <1>3 DEF Tries
<1>. QED  BY <1>1, <1>2, <1>4 DEF Init, TypeOK

LEMMA PlanType ==
  ASSUME TypeOK, NEW v \in Runs
  PROVE  Plan(v) \in [Cells -> Nat]
<1>1. \A cell \in Cells : Tries(v, cell) \in Nat
  BY DEF TypeOK, Tries
<1>. QED  BY <1>1 DEF Plan

LEMMA UpdateType ==
  ASSUME TypeOK, NEW v \in Runs, NEW cell \in Cells, NEW i \in 1..Tries(v, cell),
         NEW attempt \in Attempt, Update(v, cell, i, attempt),
         UNCHANGED <<stage, sealed, request, accounting>>
  PROVE  TypeOK'
BY UpdateEffect DEF TypeOK, Tries

LEMMA RevisionStepType ==
  ASSUME TypeOK, RevisionStep
  PROVE  TypeOK'
<1>1. PICK b \in Branches, s \in 1..MaxRevisions :
         \E from \in {"unknown", "admitted", "frozen", "head"},
            to \in {"admitted", "frozen", "head", "ignored", "acknowledged"} :
               Pipeline!Move(b, s, from, to)
  BY DEF RevisionStep, Pipeline!Admit, Pipeline!Freeze, Pipeline!BecomeHead,
         Pipeline!Ignore, Pipeline!Acknowledge
<1>2. /\ stage' \in [Runs -> {"unknown", "admitted", "frozen", "ignored", "head", "acknowledged"}]
      /\ UNCHANGED sealed
  BY <1>1 DEF TypeOK, Pipeline!Move
<1>. QED  BY <1>2 DEF TypeOK, RevisionStep, Tries

LEMMA StatesType ==
  ASSUME TypeOK
  PROVE  Accounting \in [Runs -> [Cells -> Seq(AttemptStates)]]
<1>1. ASSUME NEW v \in Runs
      PROVE  States(v) \in [Cells -> Seq(AttemptStates)]
  <2>1. ASSUME NEW cell \in Cells
        PROVE  [i \in 1..Tries(v, cell) |-> lineage[v][cell][i].state] \in Seq(AttemptStates)
    <3>1. lineage[v][cell] \in Seq(Attempt)
      BY DEF TypeOK
    <3>2. Tries(v, cell) \in Nat
      BY <3>1 DEF Tries
    <3>3. \A i \in 1..Tries(v, cell) : lineage[v][cell][i] \in Attempt
      BY <3>1 DEF Tries
    <3>4. \A i \in 1..Tries(v, cell) : lineage[v][cell][i].state \in AttemptStates
      BY <3>3 DEF Attempt
    <3>. QED  BY <3>2, <3>4
  <2>. QED  BY <2>1 DEF States
<1>2. [cell \in Cells |-> <<>>] \in [Cells -> Seq(AttemptStates)]
  OBVIOUS
<1>. QED  BY <1>1, <1>2 DEF Accounting

LEMMA NextType == TypeOK /\ [Next]_vars => TypeOK'
<1>. SUFFICES ASSUME TypeOK, [Next]_vars PROVE TypeOK'
  OBVIOUS
<1>1. ASSUME NEW c \in Clients, NEW v \in Runs, NEW k \in Keys, ReadStart(c, v, k)
      PROVE  TypeOK'
  <2>1. [run |-> v, key |-> k, plan |-> Plan(v)] \in Request
    BY PlanType DEF Request
  <2>. QED  BY <1>1, <2>1 DEF ReadStart, TypeOK, Tries
<1>2. ASSUME NEW c \in Clients, CommitStart(c)
      PROVE  TypeOK'
  <2>1. PICK v \in Runs, k \in Keys :
          /\ Selectable(v)
          /\ lineage' \in [Runs -> [Cells -> Seq(Attempt)]]
          /\ \A u \in Runs, d \in Cells :
                lineage'[u][d] = IF u = v /\ d \in CellsToAttempt(v)
                                 THEN Append(lineage[u][d], NewAttempt(k)) ELSE lineage[u][d]
    BY <1>2, CommitEffect
  <2>2. ASSUME NEW u \in Runs, NEW d \in Cells
        PROVE  Len(lineage'[u][d]) <= RetryCeiling[u][d]
    <3>1. /\ lineage[u][d] \in Seq(Attempt) /\ Len(lineage[u][d]) <= RetryCeiling[u][d]
          /\ RetryCeiling[u][d] \in Nat
      BY RunAssumption DEF TypeOK, Tries
    <3>2. CASE u = v /\ d \in CellsToAttempt(v)
      <4>0. lineage'[u][d] = Append(lineage[u][d], NewAttempt(k))
        BY <2>1, <3>2
      <4>1. Len(lineage'[u][d]) = Len(lineage[u][d]) + 1 /\ Len(lineage[u][d]) \in Nat
        BY <3>1, <4>0, AppendedAttempt
      <4>2. Len(lineage[u][d]) < RetryCeiling[u][d]
        BY <2>1, <3>2 DEF Selectable, Tries
      <4>. QED  BY <3>1, <4>1, <4>2
    <3>. QED  BY <2>1, <3>1, <3>2
  <2>3. request' \in [Clients -> Request \cup {None}]
    BY <1>2 DEF CommitStart, TypeOK
  <2>. QED  BY <1>2, <2>1, <2>2, <2>3 DEF CommitStart, TypeOK, Tries
<1>3. ASSUME NEW c \in Clients, EndStart(c)
      PROVE  TypeOK'
  BY <1>3 DEF EndStart, TypeOK, Tries
<1>4. ASSUME NEW v \in Runs, NEW cell \in Cells, NEW i \in 1..Tries(v, cell),
             EndAttempt(v, cell, i)
      PROVE  TypeOK'
  BY <1>4, EndEffect, UpdateType DEF EndAttempt
<1>5. ASSUME NEW v \in Runs, NEW cell \in Cells, NEW i \in 1..Tries(v, cell),
             CompleteCollection(v, cell, i)
      PROVE  TypeOK'
  BY <1>5, CollectionEffect, UpdateType DEF CompleteCollection
<1>6. CASE CloseCycle
  BY <1>6, StatesType DEF CloseCycle, Pipeline!Seal, TypeOK, Tries
<1>7. CASE UNCHANGED vars
  BY <1>7 DEF vars, TypeOK, Tries
<1>. QED  BY <1>1, <1>2, <1>3, <1>4, <1>5, <1>6, <1>7, RevisionStepType
          DEF Next, StartStep, AttemptStep

(* Types, and no cell of a run is ever tried more often than the ceiling of *)
(* its task spec allows, however many starts compete for the last try.      *)
THEOREM TypeCorrect == Spec => []TypeOK
BY InitType, NextType, PTL DEF Spec

-----------------------------------------------------------------------------
(* The lineage of a run                                                     *)

IInvLineage == TypeOK /\ LineageIsExact

LEMMA InitLineage == Init => LineageIsExact
BY DEF Init, LineageIsExact, StartedTogether, Started, Attempted, TriedAgainAfterFailure,
       KeysStartOnce, Tries

LEMMA CommitLineage ==
  ASSUME IInvLineage, NEW c \in Clients, CommitStart(c)
  PROVE  LineageIsExact'
<1>1. PICK v \in Runs, k \in Keys :
        /\ ~ StartedWith(v, k) /\ Selectable(v)
        /\ lineage' \in [Runs -> [Cells -> Seq(Attempt)]]
        /\ \A u \in Runs, d \in Cells :
              lineage'[u][d] = IF u = v /\ d \in CellsToAttempt(v)
                               THEN Append(lineage[u][d], NewAttempt(k)) ELSE lineage[u][d]
  BY CommitEffect DEF IInvLineage
<1>2. \A u \in Runs, d \in Cells : lineage[u][d] \in Seq(Attempt)
  BY DEF IInvLineage, TypeOK
<1>10. ASSUME NEW u \in Runs, NEW d \in Cells, u = v /\ d \in CellsToAttempt(v)
      PROVE  /\ lineage'[u][d] # <<>> /\ Len(lineage[u][d]) \in Nat
             /\ Len(lineage'[u][d]) = Len(lineage[u][d]) + 1
             /\ \A m \in 1..Len(lineage[u][d]) : lineage'[u][d][m] = lineage[u][d][m]
             /\ lineage'[u][d][Len(lineage[u][d]) + 1].key = k
  <2>1. lineage'[u][d] = Append(lineage[u][d], NewAttempt(k)) /\ lineage[u][d] \in Seq(Attempt)
    BY <1>1, <1>2, <1>10
  <2>. QED  BY <2>1, AppendedAttempt
<1>3. ASSUME NEW u \in Runs
      PROVE  StartedTogether(u)'
  <2>1. CASE u = v /\ ~ Started(v)
    <3>1. CellsToAttempt(v) = Cells
      BY <2>1 DEF CellsToAttempt
    <3>2. \A d \in Cells : lineage'[u][d] # <<>>
      BY <1>10, <2>1, <3>1
    <3>. QED  BY <3>2 DEF StartedTogether, Attempted
  <2>2. CASE ~ (u = v /\ ~ Started(v))
    <3>1. \A d \in Cells : lineage[u][d] # <<>> => lineage'[u][d] # <<>>
      BY <1>1, <1>10
    <3>2. StartedTogether(u)
      BY DEF IInvLineage, LineageIsExact
    <3>3. Started(u)' => Started(u)
      BY <1>1, <2>2 DEF Started, Attempted
    <3>. QED  BY <3>1, <3>2, <3>3 DEF StartedTogether, Attempted
  <2>. QED  BY <2>1, <2>2
<1>4. ASSUME NEW u \in Runs
      PROVE  TriedAgainAfterFailure(u)'
  <2>. SUFFICES ASSUME NEW d \in Cells, NEW i \in 1..Len(lineage'[u][d]), i < Len(lineage'[u][d])
                PROVE  lineage'[u][d][i].state \in {"failed", "cancelled"}
    BY DEF TriedAgainAfterFailure, Tries
  <2>1. \A j \in 1..Len(lineage[u][d]) : j < Len(lineage[u][d]) =>
           lineage[u][d][j].state \in {"failed", "cancelled"}
    BY DEF IInvLineage, LineageIsExact, TriedAgainAfterFailure, Tries
  <2>2. CASE u = v /\ d \in CellsToAttempt(v)
    <3>0. /\ Len(lineage[u][d]) \in Nat /\ Len(lineage'[u][d]) = Len(lineage[u][d]) + 1
          /\ \A m \in 1..Len(lineage[u][d]) : lineage'[u][d][m] = lineage[u][d][m]
      BY <1>10, <2>2
    <3>10. i \in 1..Len(lineage[u][d])
      BY <3>0
    <3>1. /\ Len(lineage'[u][d]) = Len(lineage[u][d]) + 1
          /\ i \in 1..Len(lineage[u][d]) /\ lineage'[u][d][i] = lineage[u][d][i]
      BY <3>0, <3>10
    <3>2. Started(v)
      BY <1>2, <2>2, <3>1 DEF Started, Attempted
    <3>3. lineage[v][d][Len(lineage[v][d])].state \in {"failed", "cancelled"}
      BY <2>2, <3>2 DEF CellsToAttempt, Latest, Tries
    <3>. QED  BY <1>2, <2>1, <2>2, <3>1, <3>3
  <2>3. CASE ~ (u = v /\ d \in CellsToAttempt(v))
    BY <1>1, <2>1, <2>3
  <2>. QED  BY <2>2, <2>3
<1>5. ASSUME NEW u \in Runs
      PROVE  KeysStartOnce(u)'
  <2>. SUFFICES ASSUME NEW d \in Cells, NEW i \in 1..Len(lineage'[u][d]),
                       NEW j \in 1..Len(lineage'[u][d]),
                       lineage'[u][d][i].key = lineage'[u][d][j].key
                PROVE  i = j
    BY DEF KeysStartOnce, Tries
  <2>1. \A m, n \in 1..Len(lineage[u][d]) :
           lineage[u][d][m].key = lineage[u][d][n].key => m = n
    BY DEF IInvLineage, LineageIsExact, KeysStartOnce, Tries
  <2>2. CASE u = v /\ d \in CellsToAttempt(v)
    <3>1. \A m \in 1..Len(lineage[u][d]) : lineage[u][d][m].key # k
      BY <1>1, <2>2 DEF StartedWith, Tries
    <3>2. /\ Len(lineage[u][d]) \in Nat
          /\ Len(lineage'[u][d]) = Len(lineage[u][d]) + 1
          /\ \A m \in 1..Len(lineage[u][d]) : lineage'[u][d][m] = lineage[u][d][m]
          /\ lineage'[u][d][Len(lineage[u][d]) + 1].key = k
      BY <1>10, <2>2
    <3>. DEFINE n == Len(lineage[u][d])
    <3>3. /\ i \in 1..n \/ i = n + 1
          /\ j \in 1..n \/ j = n + 1
      BY <3>2
    <3>4. \A m \in 1..n : lineage'[u][d][m].key = lineage[u][d][m].key /\ lineage'[u][d][m].key # k
      BY <3>1, <3>2
    <3>5. lineage'[u][d][n + 1].key = k
      BY <3>2
    <3>. HIDE DEF n
    <3>6. CASE i \in 1..n /\ j \in 1..n
      <4>1. lineage[u][d][i].key = lineage[u][d][j].key
        BY <3>4, <3>6
      <4>. QED  BY <2>1, <3>6, <4>1 DEF n
    <3>7. CASE ~ (i \in 1..n /\ j \in 1..n)
      BY <3>3, <3>4, <3>5, <3>7
    <3>. QED  BY <3>6, <3>7
  <2>3. CASE ~ (u = v /\ d \in CellsToAttempt(v))
    BY <1>1, <2>1, <2>3
  <2>. QED  BY <2>2, <2>3
<1>. QED  BY <1>3, <1>4, <1>5 DEF LineageIsExact

(* An update that keeps the key, and the state of an attempt that ended.    *)
LEMMA UpdateLineage ==
  ASSUME IInvLineage, NEW v \in Runs, NEW cell \in Cells, NEW i \in 1..Tries(v, cell),
         NEW attempt \in Attempt, Update(v, cell, i, attempt),
         attempt.key = lineage[v][cell][i].key,
         lineage[v][cell][i].state # "active" => attempt.state = lineage[v][cell][i].state
  PROVE  LineageIsExact'
<1>1. /\ \A u \in Runs, d \in Cells : Len(lineage'[u][d]) = Len(lineage[u][d])
      /\ \A u \in Runs, d \in Cells : \A j \in 1..Len(lineage[u][d]) :
            lineage'[u][d][j] = IF u = v /\ d = cell /\ j = i
                                THEN attempt ELSE lineage[u][d][j]
      /\ lineage' \in [Runs -> [Cells -> Seq(Attempt)]]
      /\ lineage \in [Runs -> [Cells -> Seq(Attempt)]]
  BY UpdateEffect DEF IInvLineage, TypeOK, Tries
<1>2. \A u \in Runs, d \in Cells : lineage'[u][d] = <<>> <=> lineage[u][d] = <<>>
  BY <1>1
<1>3. ASSUME NEW u \in Runs
      PROVE  StartedTogether(u)'
  BY <1>2 DEF IInvLineage, LineageIsExact, StartedTogether, Started, Attempted
<1>4. ASSUME NEW u \in Runs
      PROVE  TriedAgainAfterFailure(u)'
  <2>. SUFFICES ASSUME NEW d \in Cells, NEW j \in 1..Len(lineage[u][d]), j < Len(lineage[u][d])
                PROVE  lineage'[u][d][j].state \in {"failed", "cancelled"}
    BY <1>1 DEF TriedAgainAfterFailure, Tries
  <2>1. lineage[u][d][j].state \in {"failed", "cancelled"}
    BY DEF IInvLineage, LineageIsExact, TriedAgainAfterFailure, Tries
  <2>. QED  BY <1>1, <2>1
<1>5. \A u \in Runs, d \in Cells : \A j \in 1..Len(lineage[u][d]) :
         lineage'[u][d][j].key = lineage[u][d][j].key
  BY <1>1
<1>6. ASSUME NEW u \in Runs
      PROVE  KeysStartOnce(u)'
  BY <1>1, <1>5 DEF IInvLineage, LineageIsExact, KeysStartOnce, Tries
<1>. QED  BY <1>3, <1>4, <1>6 DEF LineageIsExact

LEMMA NextLineage == IInvLineage /\ [Next]_vars => LineageIsExact'
<1>. SUFFICES ASSUME IInvLineage, [Next]_vars PROVE LineageIsExact'
  OBVIOUS
<1>0. TypeOK
  BY DEF IInvLineage
<1>1. CASE UNCHANGED lineage
  BY <1>1 DEF IInvLineage, LineageIsExact, StartedTogether, Started, Attempted,
              TriedAgainAfterFailure, KeysStartOnce, Tries
<1>2. ASSUME NEW c \in Clients, CommitStart(c)
      PROVE  LineageIsExact'
  BY <1>2, CommitLineage
<1>3. ASSUME NEW v \in Runs, NEW cell \in Cells, NEW i \in 1..Tries(v, cell),
             EndAttempt(v, cell, i)
      PROVE  LineageIsExact'
  BY <1>0, <1>3, EndEffect, UpdateLineage
<1>4. ASSUME NEW v \in Runs, NEW cell \in Cells, NEW i \in 1..Tries(v, cell),
             CompleteCollection(v, cell, i)
      PROVE  LineageIsExact'
  BY <1>0, <1>4, CollectionEffect, UpdateLineage
<1>5. UNCHANGED lineage
      \/ (\E c \in Clients : CommitStart(c))
      \/ \E v \in Runs, cell \in Cells : \E i \in 1..Tries(v, cell) :
            EndAttempt(v, cell, i) \/ CompleteCollection(v, cell, i)
  BY DEF Next, StartStep, ReadStart, EndStart, AttemptStep, RevisionStep, CloseCycle, vars
<1>. QED  BY <1>1, <1>2, <1>3, <1>4, <1>5

(* However starts race each other and the ends of attempts, the cells of a  *)
(* run start together, are tried again only after a failure or a cancel,    *)
(* and one key starts a cell once.                                          *)
THEOREM LineageStaysExact == Spec => []LineageIsExact
<1>1. Init => IInvLineage
  BY InitType, InitLineage DEF IInvLineage
<1>2. IInvLineage /\ [Next]_vars => IInvLineage'
  BY NextType, NextLineage DEF IInvLineage
<1>3. IInvLineage => LineageIsExact
  BY DEF IInvLineage
<1>. QED  BY <1>1, <1>2, <1>3, PTL DEF Spec

-----------------------------------------------------------------------------
(* The closure                                                              *)

(* A sealed cycle keeps its newest revisions.                               *)
LEMMA SealedRevisions ==
  ASSUME TypeOK, sealed, RevisionStep
  PROVE  /\ \A v \in Runs : IsHeadRun(v)' <=> IsHeadRun(v)
         /\ UNCHANGED <<sealed, lineage, accounting>>
<1>1. PICK b \in Branches, s \in 1..MaxRevisions :
         \E from \in {"frozen", "head"}, to \in {"ignored", "acknowledged"} :
            Pipeline!Move(b, s, from, to)
  BY DEF RevisionStep, Pipeline!Admit, Pipeline!Freeze, Pipeline!BecomeHead,
         Pipeline!Ignore, Pipeline!Acknowledge
<1>2. UNCHANGED <<sealed, lineage, accounting>>
  BY <1>1 DEF Pipeline!Move, RevisionStep
<1>3. \A c \in Branches, t \in 1..MaxRevisions : Pipeline!Known(c, t)' <=> Pipeline!Known(c, t)
  BY <1>1 DEF Pipeline!Move, Pipeline!Known, TypeOK, Runs
<1>4. ASSUME NEW v \in Runs
      PROVE  IsHeadRun(v)' <=> IsHeadRun(v)
  <2>1. v[1] \in Branches /\ v[2] \in 1..MaxRevisions
    BY DEF Runs
  <2>. QED  BY <1>3, <2>1 DEF IsHeadRun, Pipeline!Newest
<1>. QED  BY <1>2, <1>4

LEMMA SealedUpdate ==
  ASSUME TypeOK, sealed, ClosedAccountingStands, NEW v \in Runs, NEW cell \in Cells,
         NEW i \in 1..Tries(v, cell), NEW attempt \in Attempt, Update(v, cell, i, attempt),
         lineage[v][cell][i].state # "active" => attempt.state = lineage[v][cell][i].state,
         UNCHANGED <<stage, sealed, accounting>>
  PROVE  ClosedAccountingStands'
<1>1. /\ \A u \in Runs, d \in Cells : Len(lineage'[u][d]) = Len(lineage[u][d])
      /\ \A u \in Runs, d \in Cells : \A j \in 1..Len(lineage[u][d]) :
            lineage'[u][d][j] = IF u = v /\ d = cell /\ j = i
                                THEN attempt ELSE lineage[u][d][j]
  BY UpdateEffect DEF Tries
<1>2. Executable \subseteq Runs
  BY RunAssumption
<1>3. \A u \in Executable, d \in Cells : \A j \in 1..Len(lineage[u][d]) :
         /\ lineage[u][d][j].state # "active"
         /\ lineage'[u][d][j].state = lineage[u][d][j].state
  <2>1. \A u \in Executable, d \in Cells : \A j \in 1..Len(lineage[u][d]) :
           lineage[u][d][j].state # "active"
    BY DEF ClosedAccountingStands, ActiveRealAttempt, Tries
  <2>. QED  BY <1>1, <1>2, <2>1 DEF Tries
<1>4. ~ ActiveRealAttempt'
  BY <1>1, <1>2, <1>3 DEF ActiveRealAttempt, Tries
<1>5. ASSUME NEW u \in Executable
      PROVE  States(u)' = States(u)
  <2>1. \A d \in Cells : [j \in 1..Len(lineage'[u][d]) |-> lineage'[u][d][j].state]
                       = [j \in 1..Len(lineage[u][d]) |-> lineage[u][d][j].state]
    BY <1>1, <1>2, <1>3
  <2>. QED  BY <2>1 DEF States, Tries
<1>6. \A u \in Executable : IsHeadRun(u)' <=> IsHeadRun(u)
  BY DEF IsHeadRun, Pipeline!Newest, Pipeline!Known
<1>. QED  BY <1>4, <1>5, <1>6 DEF ClosedAccountingStands

LEMMA NextClosed == TypeOK /\ ClosedAccountingStands /\ [Next]_vars => ClosedAccountingStands'
<1>. SUFFICES ASSUME TypeOK, ClosedAccountingStands, [Next]_vars
              PROVE  ClosedAccountingStands'
  OBVIOUS
<1>1. CASE CloseCycle
  <2>1. /\ ~ ActiveRealAttempt /\ accounting' = Accounting /\ UNCHANGED lineage
        /\ UNCHANGED stage
    BY <1>1 DEF CloseCycle, Pipeline!Seal
  <2>2. ~ ActiveRealAttempt'
    BY <2>1 DEF ActiveRealAttempt, Tries
  <2>3. \A v \in Executable : IsHeadRun(v) => accounting'[v] = States(v)
    BY <2>1, RunAssumption DEF Accounting
  <2>4. \A v \in Executable : (IsHeadRun(v)' <=> IsHeadRun(v)) /\ States(v)' = States(v)
    BY <2>1 DEF IsHeadRun, Pipeline!Newest, Pipeline!Known, States, Tries
  <2>. QED  BY <2>2, <2>3, <2>4 DEF ClosedAccountingStands
<1>2. ASSUME sealed, RevisionStep
      PROVE  ClosedAccountingStands'
  <2>1. /\ \A v \in Runs : IsHeadRun(v)' <=> IsHeadRun(v)
        /\ UNCHANGED <<sealed, lineage, accounting>>
    BY <1>2, SealedRevisions
  <2>2. ActiveRealAttempt' <=> ActiveRealAttempt
    BY <2>1 DEF ActiveRealAttempt, Tries
  <2>3. \A v \in Executable : States(v)' = States(v)
    BY <2>1 DEF States, Tries
  <2>. QED  BY <1>2, <2>1, <2>2, <2>3, RunAssumption DEF ClosedAccountingStands
<1>3. ASSUME sealed, NEW v \in Runs, NEW cell \in Cells, NEW i \in 1..Tries(v, cell),
             EndAttempt(v, cell, i)
      PROVE  ClosedAccountingStands'
  BY <1>3, EndEffect, SealedUpdate DEF EndAttempt
<1>4. ASSUME sealed, NEW v \in Runs, NEW cell \in Cells, NEW i \in 1..Tries(v, cell),
             CompleteCollection(v, cell, i)
      PROVE  ClosedAccountingStands'
  BY <1>4, CollectionEffect, SealedUpdate DEF CompleteCollection
<1>5. ASSUME UNCHANGED <<stage, sealed, lineage, accounting>>
      PROVE  ClosedAccountingStands'
  BY <1>5 DEF ClosedAccountingStands, ActiveRealAttempt, IsHeadRun, Pipeline!Newest,
              Pipeline!Known, States, Tries
<1>6. ASSUME ~ sealed, ~ CloseCycle
      PROVE  ~ sealed'
  BY <1>6 DEF Next, StartStep, ReadStart, CommitStart, EndStart, AttemptStep, EndAttempt,
              CompleteCollection, RevisionStep, Pipeline!Admit, Pipeline!Freeze,
              Pipeline!BecomeHead, Pipeline!Ignore, Pipeline!Acknowledge, Pipeline!Move, vars
<1>7. ASSUME sealed, NEW c \in Clients, CommitStart(c)
      PROVE  FALSE
  BY <1>7 DEF CommitStart, Startable
<1>8. CASE ~ sealed /\ ~ CloseCycle
  BY <1>6, <1>8 DEF ClosedAccountingStands
<1>9. CASE sealed
  <2>1. UNCHANGED <<stage, sealed, lineage, accounting>>
        \/ (\E c \in Clients : CommitStart(c))
        \/ (\E v \in Runs, cell \in Cells : \E i \in 1..Tries(v, cell) :
              EndAttempt(v, cell, i) \/ CompleteCollection(v, cell, i))
        \/ RevisionStep \/ CloseCycle
    BY DEF Next, StartStep, ReadStart, EndStart, AttemptStep, vars
  <2>. QED  BY <1>1, <1>2, <1>3, <1>4, <1>5, <1>7, <1>9, <2>1
<1>. QED  BY <1>1, <1>8, <1>9

(* What a closure recorded of the real-provider attempts stays true, with   *)
(* any number of starts in flight when it commits.                          *)
THEOREM ClosureAccountingHolds == Spec => []ClosedAccountingStands
<1>1. Init => TypeOK /\ ClosedAccountingStands
  BY InitType DEF Init, Pipeline!Init, ClosedAccountingStands
<1>2. (TypeOK /\ ClosedAccountingStands) /\ [Next]_vars => (TypeOK /\ ClosedAccountingStands)'
  BY NextType, NextClosed
<1>. QED  BY <1>1, <1>2, PTL DEF Spec

-----------------------------------------------------------------------------
(* Superseded runs and verdicts                                             *)

(* A run that a newer acknowledged run has superseded gets no new attempt,  *)
(* whatever was planned before.                                             *)
THEOREM SupersededRunsGetNoAttempt == Spec => SupersededRunsStayPut
<1>. DEFINE Stays == \A v \in Runs, cell \in Cells :
               stage[v] = "acknowledged" /\ ~ LatestAcknowledged(v) =>
                   Tries(v, cell)' = Tries(v, cell)
<1>1. TypeOK /\ [Next]_vars => [Stays]_lineage
  <2>. SUFFICES ASSUME TypeOK, Next PROVE Stays \/ UNCHANGED lineage
    BY DEF vars
  <2>1. ASSUME NEW c \in Clients, CommitStart(c)
        PROVE  Stays
    <3>1. PICK v \in Runs, k \in Keys :
            /\ Startable(v)
            /\ \A u \in Runs, d \in Cells :
                  lineage'[u][d] = IF u = v /\ d \in CellsToAttempt(v)
                                   THEN Append(lineage[u][d], NewAttempt(k)) ELSE lineage[u][d]
      BY <2>1, CommitEffect
    <3>2. \A u \in Runs, d \in Cells : ~ LatestAcknowledged(u) => lineage'[u][d] = lineage[u][d]
      BY <3>1 DEF Startable
    <3>. QED  BY <3>2 DEF Tries
  <2>2. ASSUME NEW v \in Runs, NEW cell \in Cells, NEW i \in 1..Tries(v, cell),
               EndAttempt(v, cell, i) \/ CompleteCollection(v, cell, i)
        PROVE  Stays
    BY <2>2, EndEffect, CollectionEffect, UpdateEffect DEF Tries
  <2>. QED  BY <2>1, <2>2 DEF Next, StartStep, ReadStart, EndStart, AttemptStep,
                              RevisionStep, CloseCycle
<1>. QED  BY <1>1, TypeCorrect, PTL DEF Spec, SupersededRunsStayPut

(* A run has passed when the latest attempt of every cell has.              *)
LEMMA PassedMeans ==
  ASSUME NEW v
  PROVE  DeriveStatus(v) = "workflow_simulation_passed"
         <=> \A cell \in Cells : Attempted(v, cell) /\ HasPassed(Latest(v, cell))
<1>1. \A attempt : HasPassed(attempt) => ~ HasFailed(attempt) /\ ~ IsBlocked(attempt)
  BY DEF HasPassed, HasFailed, IsBlocked
<1>2. (\A cell \in Cells : Attempted(v, cell)) => Started(v)
  BY RunAssumption DEF Started
<1>. QED  BY <1>1, <1>2 DEF DeriveStatus, LatestOf

LEMMA PassedMeansNext ==
  ASSUME NEW v
  PROVE  DeriveStatus(v)' = "workflow_simulation_passed"
         <=> \A cell \in Cells : Attempted(v, cell)' /\ HasPassed(Latest(v, cell)')
<1>1. \A attempt : HasPassed(attempt) => ~ HasFailed(attempt) /\ ~ IsBlocked(attempt)
  BY DEF HasPassed, HasFailed, IsBlocked
<1>2. (\A cell \in Cells : Attempted(v, cell)') => Started(v)'
  BY RunAssumption DEF Started
<1>. QED  BY <1>1, <1>2 DEF DeriveStatus, LatestOf

(* A run that passed stays passed, whatever is started, ends or is          *)
(* collected afterwards.                                                    *)
THEOREM PassedStaysPassed == Spec => PassedIsFinal
<1>. DEFINE Passes(v) == \A cell \in Cells : Attempted(v, cell) /\ HasPassed(Latest(v, cell))
            Final == \A v \in Runs :
                DeriveStatus(v) = "workflow_simulation_passed" =>
                    DeriveStatus(v)' = "workflow_simulation_passed"
<1>1. IInvLineage /\ [Next]_vars => [Final]_lineage
  <2>. SUFFICES ASSUME IInvLineage, Next, NEW v \in Runs, Passes(v),
                       ~ UNCHANGED lineage
                PROVE  UNCHANGED lineage[v]
                       \/ \A cell \in Cells : /\ lineage'[v][cell] # <<>>
                             /\ HasPassed(lineage'[v][cell][Len(lineage'[v][cell])])
    BY PassedMeans, PassedMeansNext DEF vars, Attempted, Latest, Tries
  <2>0. TypeOK
    BY DEF IInvLineage
  <2>1. ASSUME NEW c \in Clients, CommitStart(c)
        PROVE  UNCHANGED lineage[v]
    <3>1. PICK u \in Runs, k \in Keys :
            /\ Selectable(u)
            /\ lineage' \in [Runs -> [Cells -> Seq(Attempt)]]
            /\ \A t \in Runs, d \in Cells :
                  lineage'[t][d] = IF t = u /\ d \in CellsToAttempt(u)
                                   THEN Append(lineage[t][d], NewAttempt(k)) ELSE lineage[t][d]
      BY <2>0, <2>1, CommitEffect
    <3>2. CellsToAttempt(v) = {}
      BY RunAssumption DEF CellsToAttempt, Started, HasPassed
    <3>3. u # v
      BY <3>1, <3>2 DEF Selectable
    <3>4. lineage[v] \in [Cells -> Seq(Attempt)] /\ lineage'[v] \in [Cells -> Seq(Attempt)]
      BY <2>0, <3>1 DEF TypeOK
    <3>. QED  BY <3>1, <3>3, <3>4
  <2>2. ASSUME NEW u \in Runs, NEW cell \in Cells, NEW i \in 1..Tries(u, cell),
               NEW attempt \in Attempt, Update(u, cell, i, attempt),
               u = v => i # Tries(v, cell)
        PROVE  \A d \in Cells : /\ lineage'[v][d] # <<>>
                  /\ HasPassed(lineage'[v][d][Len(lineage'[v][d])])
    <3>. SUFFICES ASSUME NEW d \in Cells
                  PROVE  /\ lineage'[v][d] # <<>>
                         /\ HasPassed(lineage'[v][d][Len(lineage'[v][d])])
      OBVIOUS
    <3>1. /\ lineage'[v][d] \in Seq(Attempt) /\ Len(lineage'[v][d]) = Len(lineage[v][d])
          /\ \A j \in 1..Len(lineage[v][d]) :
               lineage'[v][d][j] = IF v = u /\ d = cell /\ j = i
                                   THEN attempt ELSE lineage[v][d][j]
      BY <2>0, <2>2, UpdateEffect DEF Tries
    <3>2. /\ lineage[v][d] \in Seq(Attempt) /\ lineage[v][d] # <<>>
          /\ HasPassed(lineage[v][d][Len(lineage[v][d])])
      BY <2>0 DEF TypeOK, Attempted, Latest, Tries
    <3>3. lineage'[v][d][Len(lineage[v][d])] = lineage[v][d][Len(lineage[v][d])]
      BY <2>2, <3>1, <3>2 DEF Tries
    <3>. QED  BY <3>1, <3>2, <3>3
  <2>3. ASSUME NEW cell \in Cells, NEW i \in 1..Tries(v, cell),
               EndAttempt(v, cell, i) \/ CompleteCollection(v, cell, i)
        PROVE  i # Tries(v, cell)
    BY <2>3 DEF EndAttempt, CompleteCollection, Latest, HasPassed
  <2>4. ASSUME NEW u \in Runs, NEW cell \in Cells, NEW i \in 1..Tries(u, cell),
               EndAttempt(u, cell, i) \/ CompleteCollection(u, cell, i)
        PROVE  \A d \in Cells : /\ lineage'[v][d] # <<>>
                  /\ HasPassed(lineage'[v][d][Len(lineage'[v][d])])
    <3>1. \E attempt \in Attempt : Update(u, cell, i, attempt)
      BY <2>0, <2>4, EndEffect, CollectionEffect
    <3>. QED  BY <2>2, <2>3, <2>4, <3>1
  <2>. QED  BY <2>1, <2>4 DEF Next, StartStep, ReadStart, EndStart, AttemptStep,
                              RevisionStep, CloseCycle
<1>2. Spec => []IInvLineage
  BY TypeCorrect, LineageStaysExact, PTL DEF IInvLineage
<1>. QED  BY <1>1, <1>2, PTL DEF Spec, PassedIsFinal
===============================================================================
