---------------------------- MODULE RevisionPipeline ----------------------------
(***************************************************************************)
(* What the experiment spine promises of the revisions of a validation     *)
(* cycle, with no outboxes, relays, leases or races: every revision goes   *)
(* through the stages once and in order, only the newest revision of a     *)
(* branch can become its head, and a sealed cycle has its newest revisions *)
(* acknowledged and admits, freezes and advances nothing more.             *)
(***************************************************************************)
EXTENDS Integers

CONSTANTS Branches, MaxRevisions

VARIABLES
    stage,  \* stage[<<b, s>>]: how far revision s of branch b is
    sealed  \* the cycle is closed

vars == <<stage, sealed>>

AllRevisions == Branches \X (1..MaxRevisions)

Init ==
    /\ stage = [v \in AllRevisions |-> "unknown"]
    /\ sealed = FALSE

Known(b, s) == stage[<<b, s>>] # "unknown"

Newest(b, s) == Known(b, s) /\ \A t \in 1..MaxRevisions : t > s => ~ Known(b, t)

Move(b, s, from, to) ==
    /\ stage[<<b, s>>] = from
    /\ stage' = [stage EXCEPT ![<<b, s>>] = to]
    /\ UNCHANGED sealed

Admit(b, s) ==
    /\ ~ sealed
    /\ \A t \in 1..MaxRevisions : t < s <=> Known(b, t)
    /\ Move(b, s, "unknown", "admitted")

Freeze(b, s) == ~ sealed /\ Move(b, s, "admitted", "frozen")

BecomeHead(b, s) == ~ sealed /\ Newest(b, s) /\ Move(b, s, "frozen", "head")

Ignore(b, s) == ~ Newest(b, s) /\ Move(b, s, "frozen", "ignored")

Acknowledge(b, s) == Move(b, s, "head", "acknowledged")

Seal ==
    /\ ~ sealed
    /\ \E b \in Branches, s \in 1..MaxRevisions : Known(b, s)
    /\ \A b \in Branches, s \in 1..MaxRevisions :
          Newest(b, s) => stage[<<b, s>>] = "acknowledged"
    /\ sealed' = TRUE
    /\ UNCHANGED stage

Next ==
    \/ \E b \in Branches, s \in 1..MaxRevisions :
          Admit(b, s) \/ Freeze(b, s) \/ BecomeHead(b, s) \/ Ignore(b, s) \/ Acknowledge(b, s)
    \/ Seal

Spec == Init /\ [][Next]_vars
=============================================================================
