--------------------------- MODULE MCCompLocksTx ---------------------------
(* CompLocksTx on a small instance: two calls in progress and two          *)
(* components.  Reservations expire in the runs in which time passes.      *)
EXTENDS CompLocksTx, TLC

Symmetry == Permutations(Comps) \cup Permutations(Txs)
=============================================================================
