---------------------------- MODULE MCRunExecution ----------------------------
(* Model-checking instances of RunExecution.                                *)
EXTENDS RunExecution, TLC

CONSTANT b1

(* The first run of the branch is executable and may be retried, the second *)
(* is a simulation with one try.                                            *)
const_Executable == {<<b1, 1>>}
const_RetryCeiling == [v \in Runs |-> [cell \in Cells |-> IF v \in Executable THEN 2 ELSE 1]]

RunSymmetry == Permutations(Cells) \cup Permutations(Keys) \cup Permutations(Clients)
=============================================================================
