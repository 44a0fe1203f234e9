--------------------------- MODULE MCRedfishTree ---------------------------
(* The hardware of RedfishTree's instance: a server of HPE (devices, three  *)
(* storage groups, several managers and boxes), a blade of Cray (two nodes, *)
(* a logical system, processors of all sorts), the controllers of a chassis *)
(* and of two power units, a router with a power supply, and two endpoints  *)
(* of which little or nothing is asked.  Each is as small as its case.      *)
EXTENDS RedfishTree

Chassis(box, maker, prefix) ==
    [kind |-> "Chassis", subtype |-> box, maker |-> maker, prefix |-> prefix]
Manager(subtype, entry, manages) ==
    [kind |-> "Manager", subtype |-> subtype, entry |-> entry, manages |-> manages]
System(subtype, chassis) == [kind |-> "System", subtype |-> subtype, chassis |-> <<"Chassis", chassis>>]
Part(kind)               == [kind |-> kind, subtype |-> "", named |-> FALSE]
Numbered(kind, n)        == [kind |-> kind, subtype |-> "", named |-> TRUE, number |-> n]
Sort(kind, subtype)      == [kind |-> kind, subtype |-> subtype, usable |-> TRUE]
Nic(on, up, ok, m)       == [kind |-> "Nic", subtype |-> "", on |-> on, up |-> up, ok |-> ok, mac |-> m]

Slot == <<<<"s", 0>>>>

\* A server of HPE: devices, a GPU listed twice, storage groups, one named by a number.
HPEServer ==
    [id |-> Append(Slot, <<"b", 0>>), type |-> "NodeBMC", enabled |-> TRUE, cmc |-> FALSE,
     list |->
       <<"Chassis">> :> <<"1", "2">> @@ <<"Managers">> :> <<"1", "2">> @@ <<"Systems">> :> <<"1">>
       @@ <<"Managers", "1", "EthernetInterfaces">> :> <<"1", "2", "3">>
       @@ <<"Systems", "1", "Power">> :> <<>>
       @@ <<"Systems", "1", "Devices">> :> <<"1", "2", "3", "4">>
       @@ <<"Systems", "1", "NetworkAdapters">> :> <<"1">>
       @@ <<"Systems", "1", "Processors">> :> <<"G1">>
       @@ <<"Systems", "1", "Storage">> :> <<"1", "DA1", "DA2">>
       @@ [c \in {<<"Systems", "1", "Storage", g>> : g \in {"1", "DA1", "DA2"}} |-> <<"3">>],
     is |->
       <<"Chassis", "1">> :> Chassis("RackMount", "HPE", "")
       @@ <<"Chassis", "2">> :> Chassis("Enclosure", "HPE", "")
       @@ <<"Managers", "1">> :> Manager("BMC", TRUE, TRUE)
       @@ <<"Managers", "2">> :> Manager("RackManager", FALSE, FALSE)
       @@ <<"Managers", "1", "EthernetInterfaces", "1">> :> Nic(TRUE, TRUE, TRUE, "m1")
       @@ <<"Managers", "1", "EthernetInterfaces", "2">> :> Nic(FALSE, TRUE, TRUE, "m2")
       @@ <<"Managers", "1", "EthernetInterfaces", "3">> :> Nic(TRUE, FALSE, FALSE, "m3")
       @@ <<"Systems", "1">> :> System("Physical", "1")
       @@ <<"Systems", "1", "Processors", "G1">> :> Sort("Processor", "GPU")
       @@ <<"Systems", "1", "Devices", "1">> :> Sort("Device", "GPU")
       @@ <<"Systems", "1", "Devices", "2">> :> [kind |-> "Device", subtype |-> "NIC", usable |-> FALSE]
       @@ <<"Systems", "1", "Devices", "3">> :> Sort("Device", "NIC")
       @@ <<"Systems", "1", "Devices", "4">> :> Sort("Device", "GPU")
       @@ <<"Systems", "1", "NetworkAdapters", "1">> :> Part("Adapter")
       @@ <<"Systems", "1", "Storage", "1">> :> Numbered("Storage", 1)
       @@ [u \in {<<"Systems", "1", "Storage", g>> : g \in {"DA1", "DA2"}} |-> Part("Storage")]
       @@ [u \in {<<"Systems", "1", "Storage", g, "3">> : g \in {"1", "DA1", "DA2"}} |-> Numbered("Drive", 3)]]

\* A blade of Cray: two nodes and a logical system, processors of all sorts.
CrayBlade ==
    [id |-> Append(Slot, <<"b", 1>>), type |-> "NodeBMC", enabled |-> TRUE, cmc |-> FALSE,
     list |->
       <<"Chassis">> :> <<"Enc", "Node0">> @@ <<"Managers">> :> <<"BMC">>
       @@ <<"Systems">> :> <<"Log", "Node0", "Node1">>
       @@ <<"Chassis", "Enc", "PowerSupplies">> :> <<"1", "2">>
       @@ <<"Managers", "BMC", "ActionInfo">> :> <<>>
       @@ <<"Systems", "Node0", "Controls">> :> <<>>
       @@ <<"Systems", "Node0", "Assembly">> :> <<"1", "2">>
       @@ <<"Systems", "Node0", "NetworkAdapters">> :> <<"1", "2">>
       @@ <<"Systems", "Node0", "Processors">> :> <<"CPU0", "CPU1", "GPU0", "X0">>
       @@ <<"Systems", "Node1", "Memory">> :> <<"1", "2">>,
     is |->
       <<"Chassis", "Enc">> :> Chassis("Enclosure", "", "enc")
       @@ <<"Chassis", "Node0">> :> Chassis("Card", "", "node")
       @@ <<"Chassis", "Enc", "PowerSupplies", "1">> :> Part("PowerSupply")
       @@ <<"Chassis", "Enc", "PowerSupplies", "2">> :> Part("PowerSupply")
       @@ <<"Managers", "BMC">> :> Manager("EnclosureManager", FALSE, FALSE)
       @@ <<"Systems", "Log">> :> System("", "none")
       @@ <<"Systems", "Node0">> :> System("Physical", "Node0")
       @@ <<"Systems", "Node1">> :> System("Physical", "none")
       @@ [u \in {<<"Systems", "Node0", "Assembly", n>> : n \in {"1", "2"}} |-> Part("Riser")]
       @@ [u \in {<<"Systems", "Node0", "NetworkAdapters", n>> : n \in {"1", "2"}} |-> Part("Adapter")]
       @@ [u \in {<<"Systems", "Node0", "Processors", n>> : n \in {"CPU0", "CPU1"}} |-> Sort("Processor", "CPU")]
       @@ <<"Systems", "Node0", "Processors", "GPU0">> :> Sort("Processor", "GPU")
       @@ <<"Systems", "Node0", "Processors", "X0">> :> Sort("Processor", "Accelerator")
       @@ [u \in {<<"Systems", "Node1", "Memory", n>> : n \in {"1", "2"}} |-> Part("Memory")]]

\* The controller of a chassis: its rectifiers and its blades of two sorts.
CMM ==
    [id |-> <<<<"c", 0>>, <<"b", 0>>>>, type |-> "ChassisBMC", enabled |-> TRUE, cmc |-> FALSE,
     list |->
       <<"Chassis">> :> <<"Blade0", "Blade1", "Enc", "Perif0", "Perif1">>
       @@ <<"Managers">> :> <<"BMC">> @@ <<"Systems">> :> <<>>
       @@ <<"Chassis", "Enc", "PowerSupplies">> :> <<"1", "2">>,
     is |->
       [u \in {<<"Chassis", n>> : n \in {"Blade0", "Blade1"}} |-> Chassis("Blade", "Cray", "blade")]
       @@ [u \in {<<"Chassis", n>> : n \in {"Perif0", "Perif1"}} |-> Chassis("Blade", "Cray", "perif")]
       @@ <<"Chassis", "Enc">> :> Chassis("Enclosure", "Cray", "enc")
       @@ [u \in {<<"Chassis", "Enc", "PowerSupplies", n>> : n \in {"1", "2"}} |-> Part("PowerSupply")]
       @@ <<"Managers", "BMC">> :> Manager("EnclosureManager", FALSE, FALSE)]

\* The controller of power units with outlets; the chassis is not looked for.
PDUs ==
    [id |-> <<<<"m", 0>>>>, type |-> "CabinetPDUController", enabled |-> TRUE, cmc |-> FALSE,
     list |->
       <<"Chassis">> :> <<>> @@ <<"Managers">> :> <<"1">> @@ <<"Systems">> :> <<>>
       @@ <<"PowerEquipment">> :> <<>> @@ <<"RackPDUs">> :> <<"A", "B">>
       @@ [c \in {<<"RackPDUs", p, "Outlets">> : p \in {"A", "B"}} |-> <<"1", "2">>],
     is |->
       <<"Managers", "1">> :> Manager("BMC", FALSE, FALSE)
       @@ [u \in {<<"RackPDUs", p>> : p \in {"A", "B"}} |-> Part("PDU")]
       @@ [u \in {<<"RackPDUs", p, "Outlets", o>> : p \in {"A", "B"}, o \in {"1", "2"}} |-> Part("Outlet")]]

\* A router blade with a power supply of its own.
Router ==
    [id |-> <<<<"r", 0>>, <<"b", 0>>>>, type |-> "RouterBMC", enabled |-> TRUE, cmc |-> FALSE,
     list |->
       <<"Chassis">> :> <<"Enc">> @@ <<"Managers">> :> <<"BMC">> @@ <<"Systems">> :> <<>>
       @@ <<"Chassis", "Enc", "PowerSupplies">> :> <<"1">>,
     is |->
       <<"Chassis", "Enc">> :> Chassis("Enclosure", "", "enc")
       @@ <<"Chassis", "Enc", "PowerSupplies", "1">> :> Part("PowerSupply")
       @@ <<"Managers", "BMC">> :> Manager("BMC", FALSE, FALSE)]

\* An endpoint that is not enabled is not asked; what it has does not matter.
NotEnabled ==
    [id |-> Append(Slot, <<"b", 2>>), type |-> "NodeBMC", enabled |-> FALSE, cmc |-> FALSE,
     list |-> <<>>, is |-> <<>>]

\* The controller of an enclosure does not ask its systems.
CMC == [CrayBlade EXCEPT !.id = Append(Slot, <<"b", 999>>), !.cmc = TRUE]

MCShapes == {HPEServer, CrayBlade, CMM, PDUs, Router, NotEnabled, CMC}
=============================================================================
