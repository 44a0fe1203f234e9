------------------------- MODULE MCSCNSubscriptions -------------------------
(* SCNSubscriptions with two subscribers that share a URL, one of which    *)
(* has another URL besides.                                                *)
EXTENDS SCNSubscriptions

MCKeys == {[name |-> "hbtd", url |-> "u1"], [name |-> "fas", url |-> "u1"],
           [name |-> "fas", url |-> "u2"]}
=============================================================================
