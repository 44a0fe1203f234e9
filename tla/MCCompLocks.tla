---------------------------- MODULE MCCompLocks ----------------------------
(* CompLocks on a small instance.  A key belongs to one component, so two  *)
(* components and a few keys show every way a call can match some rows and *)
(* miss others.                                                            *)
EXTENDS CompLocks, TLC

Symmetry == Permutations(Comps)
=============================================================================
