-------------------------- MODULE MCIntegrationRelay --------------------------
(* Model-checking instances of IntegrationRelay.                            *)
EXTENDS IntegrationRelay, TLC

SpineSymmetry == Permutations(Relays) \cup Permutations(Keys) \cup Permutations(Clients)
=============================================================================
