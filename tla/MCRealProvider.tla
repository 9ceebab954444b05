---------------------------- MODULE MCRealProvider ----------------------------
(* Model-checking instances of RealProviderWorker.                          *)
EXTENDS RealProviderWorker, TLC

CONSTANTS c1, m1

const_CancelKeys == {c1}
const_ReconcileKeys == {m1}
const_NoKeys == {}

WorkerSymmetry == Permutations(Workers)
===============================================================================
