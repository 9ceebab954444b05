------------------------- MODULE MCSimulationWorker -------------------------
(* Model-checking instances of SimulationWorker.                            *)
EXTENDS SimulationWorker, TLC

CONSTANTS c1, m1

(* One cancel key; a manual reconcile key distinct from the automatic one.  *)
const_CancelKeys == {c1}
const_ReconcileKeys == {m1}

(* The operator chose the business key "1" for a manual reconcile.          *)
const_CollidingReconcileKeys == {"reconcile"}

const_NoKeys == {}

WorkerSymmetry == Permutations(Workers)
=============================================================================
