--------------------------- MODULE MCRunCoordinator ---------------------------
(* The motive lane: a plain slot, then one that parks for a human decision. *)
EXTENDS RunCoordinator, TLC

const_InitialEnvelope == [steps |-> 2, calls |-> 1]
const_MaxEnvelope == [steps |-> 3, calls |-> 1]

CallerSymmetry == Permutations(Callers)
===============================================================================
