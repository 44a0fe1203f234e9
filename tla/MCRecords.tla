----------------------------- MODULE MCRecords -----------------------------
(* Three kinds of records, each in behaviours of its own: groups (two       *)
(* groups, of one exclusive group or shared, or a partition and another or  *)
(* a shared group), Ethernet interfaces (one MAC address, three lists of IP *)
(* addresses) and hardware (three nodes, of which one has a processor).     *)
(* The modules share no variable, `part' says which one moves.              *)
EXTENDS Groups, CompEthInterfaces, HWInventory, TLC

VARIABLE part

G(kind, name, excl) == [kind |-> kind, name |-> name, excl |-> excl, tag |-> "t1"]
One         == {CHOOSE c \in Comps : TRUE}
About(gs, lists) == [groups |-> gs, wanted |-> lists, tags |-> {"t1"}]
MCMixes     == {About({G("group", "g", "e"), G("group", "h", "e")}, {One, Comps}),
                About({G("partition", "p1", ""), G("partition", "p2", "")}, {{}, One, Comps}),
                About({G("partition", "p1", ""), G("group", "s", "")}, {One, Comps}),
                About({G("group", "s", ""), G("group", "t", "")}, {One}),
                [groups |-> {G("partition", "p1", ""), G("group", "s", "")},
                 wanted |-> {{}}, tags |-> {"t1", "t2"}]}
OneMix      == CHOOSE m \in MCMixes : TRUE

A(x, n)     == [ip |-> x, net |-> n]
MCLists     == {{}, {A("a", "n1")}, {A("a", "n2"), A("b", "n1")}}
MCTypeOf(x) == "Node"

MCLocs       == {"n0", "n1", "n2", "p0"}
MCKind(l)    == IF l = "p0" THEN "inner" ELSE "node"
MCParent(l)  == IF l = "p0" THEN "n0" ELSE ""
MCAbove(l)   == {l} \cup (IF l = "p0" THEN {"n0"} ELSE {})
MCOrdinal(l) == CASE l = "n1" -> 1 [] l = "n2" -> 2 [] OTHER -> 0
MCMaxHist(l) == IF l = "p0" THEN 1 ELSE 2
MCBodies     == {"n0" :> Fru("g", 0) @@ "p0" :> Empty}
MCFinds      == {"n0" :> "f" @@ "p0" :> "h"}

PartInit ==
    /\ Init /\ EthInit /\ HwInit
    /\ part \in {"groups", "interfaces", "hardware"}
    /\ part # "groups" => mix = OneMix
PartNext ==
    \/ part = "groups" /\ Next /\ UNCHANGED <<part, ethVars, hwVars>>
    \/ part = "interfaces" /\ EthNext /\ UNCHANGED <<part, vars, hwVars>>
    \/ part = "hardware" /\ HwNext /\ UNCHANGED <<part, vars, ethVars>>

PartSpec == PartInit /\ [][PartNext]_<<part, vars, ethVars, hwVars>>

\* Every record has values of its columns and refers to rows that are there: the
\* type invariants of Groups, CompEthInterfaces and HWInventory.
RecordsTypeOK == GTypeOK /\ EthTypeOK /\ HwTypeOK

Symmetry == Permutations(Callers) \cup Permutations(Ids)
=============================================================================
