---------------------------- MODULE MCCompState ----------------------------
(* CompState with two components and two handlers.  A behaviour has one mix *)
(* of requests: states; states, POST and DELETE; the attributes told; those *)
(* not told.  Behaviours of their own are about the node maps and about the *)
(* power maps (NodeMaps), about Redfish events (RFEvents) and about what a  *)
(* discovery reads (RedfishTree): `part' says which of these moves.  The    *)
(* four modules share no variable, nor do the two kinds of maps.            *)
EXTENDS CompState, NodeMaps, RFEvents, MCRedfishTree, TLC

CONSTANTS c1, c2, k1, k2

\* Handlers are alike, and so are the workers, which have the same names.
Symmetry == Permutations({k1, k2})

VARIABLE part

Row(state, flag, enabled, sw, role, class) ==
    [Absent EXCEPT !.state = state, !.flag = flag, !.enabled = enabled, !.sw = sw,
                   !.role = role, !.sub = "", !.class = class]
Set(ids, state, flag, force) ==
    [op |-> "StateData", ids |-> ids, state |-> state, flag |-> flag, force |-> force]
Post(list, force) == [op |-> "Post", list |-> list, force |-> force]

New(state, sw, role, class) == Row(state, "OK", "true", sw, role, class)

\* Bulk updates of states race with each other and with single ones.
StateMix ==
    {Set({c1, c2}, "Ready", "OK", FALSE), Set({c1, c2}, "Off", "Alert", TRUE),
     Set({c1}, "Off", "OK", FALSE), Set({c1}, "On", "OK", FALSE)}
FlagMix ==
    {Set({c1, c2}, "Ready", "OK", FALSE), Set({c1, c2}, "Ready", "Warning", TRUE),
     [op |-> "FlagOnly", ids |-> {c1}, flag |-> "Locked"],
     [op |-> "FlagOnly", ids |-> {c1, c2}, flag |-> "OK"], Set({c2}, "Empty", "OK", TRUE),
     Set({c1}, "Unknown", "OK", FALSE)}

\* Components are added while others add, change or delete them.
PostMix ==
    {Post(<< [id |-> c1, row |-> New("Off", "sw1", "Service", "")],
             [id |-> c2, row |-> New("On", "", "", "River")] >>, FALSE),
     Set({c1}, "Ready", "OK", FALSE), [op |-> "Delete", id |-> c1], [op |-> "DeleteAll"]}
ForceMix ==
    {Post(<< [id |-> c1, row |-> New("Off", "", "", "Mountain")] >>, TRUE),
     Post(<< [id |-> c1, row |-> New("Off", "", "", "")],
             [id |-> c1, row |-> New("On", "", "", "")] >>, TRUE),
     Set({c1}, "On", "OK", FALSE), Set({c1, c2}, "Off", "OK", FALSE)}
PutMix ==
    {[op |-> "Put", list |-> << [id |-> c1, row |-> New("On", "sw1", "", "")] >>,
      force |-> FALSE, nilEnabled |-> TRUE],
     [op |-> "Enabled", ids |-> {c1}, enabled |-> "false"],
     [op |-> "SoftwareStatus", ids |-> {c1, c2}, sw |-> "sw2"], [op |-> "Delete", id |-> c1]}

\* Attributes, told and not told.
EnabledMix ==
    {[op |-> "Enabled", ids |-> {c1}, enabled |-> "false"],
     [op |-> "Enabled", ids |-> {c1, c2}, enabled |-> "true"],
     [op |-> "Enabled", ids |-> {c1, c2}, enabled |-> "false"]}
SwMix ==
    {[op |-> "SoftwareStatus", ids |-> {c1}, sw |-> "sw1"],
     [op |-> "SoftwareStatus", ids |-> {c1, c2}, sw |-> "sw2"]}
RoleMix ==
    {[op |-> "Role", ids |-> {c1}, role |-> "Service", sub |-> "Worker"],
     [op |-> "Role", ids |-> {c1, c2}, role |-> "Service", sub |-> ""],
     [op |-> "Role", ids |-> {c1, c2}, role |-> "Compute", sub |-> "Worker"]}
UntoldMix ==
    {[op |-> "NID", ids |-> {c1}, nid |-> -7], [op |-> "BulkNID", nids |-> (c1 :> 4 @@ c2 :> 9)],
     [op |-> "Class", ids |-> {c1, c2}, class |-> "Mountain"], [op |-> "Delete", id |-> c2]}

MCMixes == {StateMix, FlagMix, PostMix, ForceMix, PutMix, EnabledMix, SwMix, RoleMix, UntoldMix}

\* One node, its controller and another mapped node; a POST exchanges the NIDs.
N(slot)        == [cab |-> 1, chassis |-> 0, slot |-> slot, bmc |-> 0, node |-> 0]
Map(nid, r, s) == [nid |-> nid, role |-> r, sub |-> s]
MCNodes        == {N(0)}
MCMapped       == {N(0), N(1)}
MCBmcs         == {[cab |-> 1, chassis |-> 0, slot |-> 0, bmc |-> 0]}
MCNodeRows     == {Map(1, "Application", "UAN")}
MCNodePosts    == {<<[id |-> N(0), row |-> Map(2, "", "")], [id |-> N(1), row |-> Map(1, "", "")]>>}
MCSLSAnswers   == {[nid |-> 0, role |-> "", sub |-> "", class |-> ""],
                   [nid |-> 7, role |-> "Management", sub |-> "", class |-> "Mountain"]}
MCDefault      == [role |-> "Compute", sub |-> ""]

\* A chassis with a compute slot and a router slot, and a PDU; a behaviour has some of it.
MCEpOf    == "c0" :> "c0" @@ "s0" :> "c0" @@ "b0" :> "b0" @@ "n0" :> "b0"
             @@ "r0" :> "c0" @@ "b1" :> "b1" @@ "m0" :> "m0" @@ "p0" :> "m0"
MCHmsType == "c0" :> "ChassisBMC" @@ "s0" :> "ComputeModule" @@ "b0" :> "NodeBMC"
             @@ "n0" :> "Node" @@ "r0" :> "RouterModule" @@ "b1" :> "RouterBMC"
             @@ "m0" :> "CabinetPDUController" @@ "p0" :> "CabinetPDUPowerConnector"
MCSlotOf  == "b0" :> "s0" @@ "b1" :> "r0"
MCFits    == {{"c0", "s0", "b0", "n0"}, {"c0", "s0", "b0"}, {"c0", "r0", "b1"}, {"m0", "p0"}}

Still(v) == UNCHANGED <<part, v>>

PartInit ==
    /\ Init /\ NMInit /\ REInit /\ RTInit /\ part \in {"comps", "maps", "power", "events", "tree"}
    /\ part # "comps" => mix = StateMix /\ db = [c \in Comps |-> Absent]
    /\ part # "events" => power["m0"] = "On" /\ ceps = {}
    /\ part # "tree" => hw = NotEnabled
PartNext ==
    \/ part = "comps" /\ Next /\ Still(<<nmVars, reVars, rtVars>>)
    \/ part = "maps" /\ NMNext /\ Still(<<vars, powerMaps, reVars, rtVars>>)
    \/ part = "power" /\ NMNext /\ Still(<<vars, nodeMaps, chassisEP, chassis, found, stored,
                                            race, reVars, rtVars>>)
    \/ part = "events" /\ RENext /\ Still(<<vars, nmVars, rtVars>>)
    \/ part = "tree" /\ RTNext /\ Still(<<vars, nmVars, reVars>>)

PartSpec == PartInit /\ [][PartNext]_<<part, vars, nmVars, reVars, rtVars>>

\* Every variable has its type: the type invariants of CompState (a handler that is
\* to write has something to write), of NodeMaps (no NID is mapped twice), of
\* RFEvents and of RedfishTree.
PartsTypeOK == CSTypeOK /\ NMTypeOK /\ RETypeOK /\ RTTypeOK
=============================================================================
