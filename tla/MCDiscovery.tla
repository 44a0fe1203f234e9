---------------------------- MODULE MCDiscovery ----------------------------
(* Discovery of one endpoint.  In a behaviour there are either two          *)
(* discoveries, one at each of two instances, one call and a fault, or one  *)
(* discovery and two calls.                                                 *)
EXTENDS Discovery

VARIABLE cast

MCAt(d) == IF d = "d1" THEN "i1" ELSE "i2"

CastInit == DInit /\ cast \in {"discoveries", "calls"} /\ (cast = "discoveries" => ~enableDiscovery)
CastNext ==
    /\ DNext
    /\ cast = "discoveries" => dcalls'["k2"] = CallIdle
    /\ cast = "calls" => runs'["d2"] = Idle /\ faults' = 0
    /\ UNCHANGED cast

CastSpec == CastInit /\ [][CastNext]_<<cast, dVars>> /\ DFairness
=============================================================================
