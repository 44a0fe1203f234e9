----------------------- MODULE MCServiceReservations -----------------------
(* ServiceReservations on small instances: two clients that compete for    *)
(* one component, or one client with two components.                       *)
EXTENDS ServiceReservations, TLC

Symmetry == Permutations(Clients) \cup Permutations(Comps)
=============================================================================
