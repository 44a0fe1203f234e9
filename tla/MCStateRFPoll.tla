--------------------------- MODULE MCStateRFPoll ---------------------------
(* StateRFPoll with two instances and one node; jobs of different nodes    *)
(* share no state but the instances' lock.                                 *)
EXTENDS StateRFPoll
=============================================================================
