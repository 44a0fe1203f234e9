---------------------------- MODULE RedfishTree ----------------------------
(* What one discovery makes of the tree of resources below a Redfish         *)
(* endpoint: GetRootInfo and the discoverRemotePhase1, discoverLocalPhase2   *)
(* and get...Ordinal, get...HMSType, get...HMSID methods of pkg/redfish, and *)
(* the entries cmd/smd/discover.go stores.                                   *)
(*                                                                           *)
(* A resource is named by the path of its URL, <<"Systems", "S0", "Memory",  *)
(* "D1">>: its collection is the path without the last element, its parent   *)
(* the first two elements.  Links a system finds in its node's chassis       *)
(* (Controls, Power, Assembly, Devices, NetworkAdapters) are written as the  *)
(* system's own.  An xname is a sequence of steps, <<<<"s", 0>>, <<"b", 0>>, *)
(* <<"n", 1>>>> for s0b0n1, and <<>> if there is none.                       *)
(*                                                                           *)
(* The service answers each request, fails, says 404 ("dead") or answers     *)
(* with JSON of another shape ("garbled", of which Go decodes what it can:   *)
(* a collection has no members then, a resource is taken as it is).  It      *)
(* lists members in any order; the code sorts them, keeps them in Go maps    *)
(* and ranges over those in any order.  Left out: states, flags and FRU ids, *)
(* services, the Foxconn and Intel special cases.                            *)
EXTENDS Naturals, FiniteSets, FiniteSetsExt, Sequences, SequencesExt

CONSTANTS
    Shapes,      \* the hardware there may be: [id, type, enabled, cmc, list, is]
    MaxFaults,   \* bound: requests that go wrong; at most two of one discovery, in the same way
    MaxRuns      \* bound: discoveries

VARIABLES
    hw,          \* the hardware behind the endpoint
    run,         \* the circumstances of the discovery in progress, or NoRun
    endpoint,    \* the endpoint's LastStatus
    located,     \* hardware inventory: xname -> resource
    mac,         \* the MAC address of the endpoint's manager
    runs,        \* how many discoveries there were
    faults,      \* how many requests went wrong
    deads        \* collections some link of which was dead in an earlier discovery

rtVars == <<hw, run, endpoint, located, mac, runs, faults, deads>>

\* No discovery is in progress.
NoRun == [fault |-> <<>>, turned |-> FALSE]

----------------------------------------------------------------------------
(* What the requests answer.  D is [fault, turned]: faults by URL, and      *)
(* whether lists are sent and maps ranged over in reverse order.             *)

\* What is fetched with a request of its own.
Requests == {<<>>} \cup DOMAIN hw.list \cup
            {u \in DOMAIN hw.is : hw.is[u].kind \notin {"PowerSupply", "Riser"}}

Circumstances ==
    [fault : {[u \in Requests |-> IF u \in bad THEN how ELSE "ok"] :
                  bad \in {{}} \cup {{u, v} : u, v \in Requests},
                  how \in {"failed", "dead", "garbled"}},
     turned : BOOLEAN]

Bad(D) == {u \in Requests : D.fault[u] # "ok"}

Turned(turn, s) == IF turn THEN Reverse(s) ELSE s

\* GETRelative
GETRelative(D, u) == D.fault[u] \in {"ok", "garbled"}

\* The members of a collection that was fetched and decoded.
MembersOf(D, c) ==
    IF c \in DOMAIN hw.list /\ D.fault[c] = "ok"
    THEN {Append(c, m) : m \in Range(hw.list[c])}
    ELSE {}

\* Variant: members are numbered as they were sent.
RawOrdinalAsSent(D, u) ==
    SelectInSeq(Turned(D.turned, hw.list[Front(u)]), LAMBDA m : m = Last(u)) - 1

\* `sort.Sort(ResourceIDSlice(...))': hw.list gives the sorted order.
RawOrdinal(D, u) == SelectInSeq(hw.list[Front(u)], LAMBDA m : m = Last(u)) - 1

ParentOf(u) == SubSeq(u, 1, 2)
Is(u)       == hw.is[u]
LinksOf(u)  == {c \in DOMAIN hw.list : Len(c) = 3 /\ ParentOf(c) = u}

\* Is the chassis that has the system's node known, with what it says?
NodeChassisRead(D, s) ==
    /\ Is(s).chassis \in MembersOf(D, <<"Chassis">>)
    /\ GETRelative(D, Is(s).chassis)

Followed(D, u) ==
    {c \in LinksOf(u) :
        /\ u[1] = "Systems" /\ Last(c) \in {"Controls", "Power", "Assembly", "Devices",
                                           "NetworkAdapters"} => NodeChassisRead(D, u)
        /\ Last(c) = "NetworkAdapters" => Append(u, "Devices") \notin LinksOf(u)}

\* The members of u's collections and the drives of its storage groups.
Below(D, u) ==
    LET members == UNION {MembersOf(D, c) : c \in Followed(D, u)}
    IN members \cup UNION {MembersOf(D, g) : g \in {m \in members : Is(m).kind = "Storage"}}

----------------------------------------------------------------------------
(* discoverRemotePhase1: what is fetched.                                    *)

Got(D, u) == IF GETRelative(D, u) THEN "VerifyingData" ELSE "HTTPsGetFailed"

\* A dead link is skipped.
GotUnlessDead(D, u) == IF D.fault[u] = "dead" THEN "RedfishSubtypeNoSupport" ELSE Got(D, u)

\* Variant: a collection that could not be fetched is one without members.
GotAllLenient(D, u, collections) == Got(D, u)

\* The resource and these collections of it.
GotAll(D, u, collections) ==
    IF \A c \in {u} \cup collections : GETRelative(D, c) THEN "VerifyingData" ELSE "HTTPsGetFailed"

\* EpPower and EpAssembly: nobody asks whether these were fetched.
Silent == {"PowerSupplies", "Assembly"}

ChassisPhase1(D, u) == GotUnlessDead(D, u)
ManagerPhase1(D, u) == GotAll(D, u, LinksOf(u))
SystemPhase1(D, u)  == GotAll(D, u, {c \in Followed(D, u) : Last(c) \notin Silent})
PDUPhase1(D, u)     == GotAll(D, u, LinksOf(u))

OutletPhase1(D, u)         == Got(D, u)
EthInterfacePhase1(D, u)   == Got(D, u)
NetworkAdapterPhase1(D, u) == Got(D, u)
ProcessorPhase1(D, u)      == GotUnlessDead(D, u)
MemoryPhase1(D, u)         == GotUnlessDead(D, u)
StoragePhase1(D, u)        == GotUnlessDead(D, u)
DrivePhase1(D, u)          == GotUnlessDead(D, u)
HpeDevicePhase1(D, u)      == GotUnlessDead(D, u)

\* These come with the object that lists them.
PowerSupplyPhase1(D, u)    == "VerifyingData"
NodeAccelRiserPhase1(D, u) == "VerifyingData"

Phase1(D, u) ==
    LET k == Is(u).kind IN
    CASE k = "Chassis" -> ChassisPhase1(D, u)      [] k = "Manager" -> ManagerPhase1(D, u)
      [] k = "System" -> SystemPhase1(D, u)        [] k = "PDU" -> PDUPhase1(D, u)
      [] k = "Outlet" -> OutletPhase1(D, u)        [] k = "Nic" -> EthInterfacePhase1(D, u)
      [] k = "Processor" -> ProcessorPhase1(D, u)  [] k = "Memory" -> MemoryPhase1(D, u)
      [] k = "Storage" -> StoragePhase1(D, u)      [] k = "Drive" -> DrivePhase1(D, u)
      [] k = "Device" -> HpeDevicePhase1(D, u)     [] k = "Adapter" -> NetworkAdapterPhase1(D, u)
      [] k = "Riser" -> NodeAccelRiserPhase1(D, u) [] k = "PowerSupply" -> PowerSupplyPhase1(D, u)

Verifying(D, S) == {u \in S : Phase1(D, u) = "VerifyingData"}

----------------------------------------------------------------------------
(* discoverLocalPhase2: types, numbers and names.                            *)

NumSystems(D) == IF hw.cmc THEN 0 ELSE Cardinality(MembersOf(D, <<"Systems">>))

\* IsManufacturer(...) # 0: it is this one, or it does not say.
IsManufacturer(u, maker) == Is(u).maker \in {maker, ""}

getChassisHMSType(D, c) ==
    LET box == Is(c).subtype IN
    CASE box = "Enclosure" /\ hw.type = "ChassisBMC" /\ IsManufacturer(c, "Cray") -> "Chassis"
      [] box = "Enclosure" /\ hw.type = "RouterBMC" -> "HSNBoard"
      [] box = "RackMount" /\ NumSystems(D) > 0 -> "NodeEnclosure"
      [] box = "Enclosure" /\ NumSystems(D) > 0 /\ hw.type # "RouterBMC"
            /\ ~(hw.type = "ChassisBMC" /\ IsManufacturer(c, "Cray")) -> "NodeEnclosure"
      [] box = "StandAlone" /\ IsManufacturer(c, "Gigabyte") /\ NumSystems(D) > 0 -> "NodeEnclosure"
      [] box = "Blade" /\ hw.type = "ChassisBMC" /\ IsManufacturer(c, "Cray")
            /\ Is(c).prefix = "blade" -> "ComputeModule"
      [] box = "Blade" /\ hw.type = "ChassisBMC" /\ IsManufacturer(c, "Cray")
            /\ Is(c).prefix = "perif" -> "RouterModule"
      [] box = "Drawer" /\ hw.type = "MgmtSwitch" -> hw.type
      [] OTHER -> "Invalid"

\* Those before it, with its type and the letters its name begins with.
getChassisOrdinal(D, c) ==
    Cardinality({b \in MembersOf(D, <<"Chassis">>) :
                    /\ RawOrdinal(D, b) < RawOrdinal(D, c)
                    /\ Phase1(D, b) = "VerifyingData"
                    /\ Is(b).prefix = Is(c).prefix /\ Is(b).subtype = Is(c).subtype})

getChassisHMSID(D, c) ==
    LET type == getChassisHMSType(D, c)
        slot == Front(hw.id)
        b    == Last(hw.id)[2]
    IN
    IF type = "MgmtSwitch" THEN hw.id
    ELSE IF Last(hw.id)[1] # "b" \/ type = "Invalid" THEN <<>>
    ELSE CASE type \in {"HSNBoard", "NodeEnclosure"} -> Append(slot, <<"e", b>>)
      [] type = "Chassis" -> slot
      [] type = "ComputeModule" -> Append(slot, <<"s", getChassisOrdinal(D, c)>>)
      [] type = "RouterModule" -> Append(slot, <<"r", getChassisOrdinal(D, c)>>)

getManagerHMSType(D, m) ==
    IF hw.type = "MgmtSwitch" THEN "Invalid"
    ELSE IF \/ Cardinality(MembersOf(D, <<"Managers">>)) = 1
            \/ Is(m).entry /\ D.fault[<<>>] # "garbled" THEN hw.type
    ELSE IF Is(m).manages THEN "NodeBMC"
    ELSE IF Is(m).subtype # "EnclosureManager" THEN "Invalid"
    ELSE IF NumSystems(D) > 0 THEN "NodeBMC" ELSE "ChassisBMC"

getManagerOrdinal(D, m) ==
    Cardinality({n \in MembersOf(D, <<"Managers">>) :
                    /\ RawOrdinal(D, n) < RawOrdinal(D, m)
                    /\ GETRelative(D, n) /\ Is(n).subtype = Is(m).subtype})

getManagerHMSID(D, m) ==
    IF getManagerHMSType(D, m) = hw.type /\ getManagerOrdinal(D, m) = 0 THEN hw.id ELSE <<>>

\* Systems are nodes if they are physical, or say nothing and no other is physical.
IsNode(D, s) ==
    \/ Is(s).subtype = "Physical"
    \/ /\ Is(s).subtype = ""
       /\ \A t \in Verifying(D, MembersOf(D, <<"Systems">>)) : Is(t).subtype # "Physical"

getSystemHMSID(D, s) ==
    IF IsNode(D, s)
    THEN Append(hw.id, <<"n", Cardinality({t \in Verifying(D, MembersOf(D, <<"Systems">>)) :
                                              /\ Is(t).subtype \in {"Physical", ""}
                                              /\ RawOrdinal(D, t) < RawOrdinal(D, s)})>>)
    ELSE <<>>

getPDUHMSID(D, p) ==
    IF hw.type = "CabinetPDUController" THEN Append(hw.id, <<"p", RawOrdinal(D, p)>>) ELSE <<>>

TopID(D, u) ==
    CASE u[1] = "Chassis" -> getChassisHMSID(D, u)
      [] u[1] = "Managers" -> getManagerHMSID(D, u)
      [] u[1] = "Systems" -> getSystemHMSID(D, u)
      [] u[1] = "RackPDUs" -> getPDUHMSID(D, u)

IsAccel(p) == Is(p).subtype \in {"GPU", "Accelerator"}

\* Counted as the map of processors is ranged over, GPUs and others apart.
getProcessorOrdinal(D, p) ==
    LET list   == Turned(D.turned, hw.list[Front(p)])
        before == SubSeq(list, 1, SelectInSeq(list, LAMBDA m : m = Last(p)) - 1)
    IN Cardinality({q \in Verifying(D, {Append(Front(p), m) : m \in Range(before)}) :
                       IsAccel(q) = IsAccel(p)})

\* Devices of its type that are listed before it; network cards of other makers do not count.
getHpeDeviceOrdinal(D, d) ==
    Cardinality({e \in Verifying(D, MembersOf(D, Front(d))) :
                    /\ RawOrdinal(D, e) < RawOrdinal(D, d)
                    /\ Is(e).subtype = Is(d).subtype
                    /\ Is(e).subtype = "NIC" => Is(e).usable})

\* Numbered by the sorted names of those that are found.
getPowerSupplyOrdinal(D, p)    == RawOrdinal(D, p)
getNodeAccelRiserOrdinal(D, r) == RawOrdinal(D, r)
getMemoryOrdinal(D, m)         == RawOrdinal(D, m)
getNetworkAdapterOrdinal(D, a) == RawOrdinal(D, a)

\* Drives and their groups are numbered by their names if these are numbers.
getDriveOrdinal(D, d) == IF Is(d).named THEN Is(d).number ELSE RawOrdinal(D, d)

\* Variant: a group whose name is no number is number 0.
getStorageCollectionOrdinalOrZero(D, g) == IF Is(g).named THEN Is(g).number ELSE 0

getStorageCollectionOrdinal(D, g) == IF Is(g).named THEN Is(g).number ELSE RawOrdinal(D, g)

\* CMMRectifier or NodeEnclosurePowerSupply
getPowerSupplyHMSType(D, p) == getChassisHMSType(D, ParentOf(p)) \in {"Chassis", "NodeEnclosure"}

getOutletHMSID(D, o) == Append(TopID(D, ParentOf(o)), <<"v", RawOrdinal(D, o) + 1>>)

ProcessorID(D, p) ==
    Append(TopID(D, ParentOf(p)), <<IF Is(p).subtype = "GPU" THEN "a" ELSE "p", getProcessorOrdinal(D, p)>>)

HpeDeviceID(D, d) ==
    IF Is(d).usable
    THEN Append(TopID(D, ParentOf(d)), <<IF Is(d).subtype = "GPU" THEN "a" ELSE "h", getHpeDeviceOrdinal(D, d)>>)
    ELSE <<>>

DriveID(D, d) ==
    TopID(D, ParentOf(d)) \o <<<<"g", getStorageCollectionOrdinal(D, Front(d))>>, <<"k", getDriveOrdinal(D, d)>>>>

PowerSupplyID(D, p) ==
    IF getPowerSupplyHMSType(D, p)
    THEN Append(TopID(D, ParentOf(p)), <<"t", getPowerSupplyOrdinal(D, p)>>)
    ELSE <<>>

MemoryID(D, m)         == Append(TopID(D, ParentOf(m)), <<"d", getMemoryOrdinal(D, m)>>)
NodeAccelRiserID(D, r) == Append(TopID(D, ParentOf(r)), <<"r", getNodeAccelRiserOrdinal(D, r)>>)
NetworkAdapterID(D, a) == Append(TopID(D, ParentOf(a)), <<"h", getNetworkAdapterOrdinal(D, a)>>)

LeafID(D, u) ==
    LET k == Is(u).kind IN
    CASE k = "Processor" -> ProcessorID(D, u)       [] k = "Memory" -> MemoryID(D, u)
      [] k = "Drive" -> DriveID(D, u)               [] k = "Device" -> HpeDeviceID(D, u)
      [] k = "Riser" -> NodeAccelRiserID(D, u)      [] k = "Adapter" -> NetworkAdapterID(D, u)
      [] k = "PowerSupply" -> PowerSupplyID(D, u)   [] k = "Outlet" -> getOutletHMSID(D, u)

LeafPhase2(D, u) ==
    IF Phase1(D, u) # "VerifyingData" THEN Phase1(D, u)
    ELSE IF LeafID(D, u) # <<>> THEN "DiscoverOK"
    ELSE IF Is(u).kind = "PowerSupply" THEN "VerificationFailed"
    ELSE "RedfishSubtypeNoSupport"

Fine == {"DiscoverOK", "RedfishSubtypeNoSupport"}

Leaves(D, u) == {l \in Below(D, u) : Is(l).kind \notin {"Nic", "Storage"}}

\* Named, if its leaves are.
Settled(D, u, ID) ==
    IF Phase1(D, u) # "VerifyingData" THEN Phase1(D, u)
    ELSE IF ID = <<>> THEN "RedfishSubtypeNoSupport"
    ELSE IF \E l \in Leaves(D, u) : LeafPhase2(D, l) \notin Fine THEN "ChildVerificationFailed"
    ELSE "DiscoverOK"

ChassisPhase2(D, c) == Settled(D, c, getChassisHMSID(D, c))
ManagerPhase2(D, m) == Settled(D, m, getManagerHMSID(D, m))
SystemPhase2(D, s)  == Settled(D, s, getSystemHMSID(D, s))
PDUPhase2(D, p)     == Settled(D, p, getPDUHMSID(D, p))

TopPhase2(D, u) ==
    CASE u[1] = "Chassis" -> ChassisPhase2(D, u) [] u[1] = "Managers" -> ManagerPhase2(D, u)
      [] u[1] = "Systems" -> SystemPhase2(D, u)  [] u[1] = "RackPDUs" -> PDUPhase2(D, u)

----------------------------------------------------------------------------
(* GetRootInfo: the endpoint as a whole.                                     *)

\* The collections of the root, in the order in which they are fetched.
Asked(D) ==
    SelectSeq(<<<<"Chassis">>, <<"Managers">>, <<"Systems">>, <<"PowerEquipment">>, <<"RackPDUs">>>>,
              LAMBDA c : /\ c \in DOMAIN hw.list
                         /\ c = <<"Systems">> => ~hw.cmc
                         /\ c \in {<<"PowerEquipment">>, <<"RackPDUs">>}
                                => D.fault[<<>>] # "garbled")

\* ControllerHasChassisStr, ControllerHasSystemsStr
Expected(c) ==
    CASE c = <<"Chassis">> -> hw.type \in {"ChassisBMC", "NodeBMC", "RouterBMC"}
      [] c = <<"Systems">> -> hw.type = "NodeBMC"
      [] OTHER -> TRUE

\* The first of them that ends the discovery.
Ends(D) ==
    SelectSeq(Asked(D), LAMBDA c : \/ D.fault[c] = "garbled"
                                   \/ ~GETRelative(D, c) /\ Expected(c))

Tops(D) == UNION {MembersOf(D, c) : c \in Range(Asked(D))}

RootStatus(D) ==
    IF ~hw.enabled THEN "EndpointNotEnabled"
    ELSE IF ~GETRelative(D, <<>>) THEN "HTTPsGetFailed"
    ELSE IF Ends(D) # <<>>
         THEN IF D.fault[Ends(D)[1]] = "garbled" THEN "EPResponseFailedDecode"
                                                 ELSE "HTTPsGetFailed"
    ELSE IF \E u \in Tops(D) : TopPhase2(D, u) \notin Fine THEN "ChildVerificationFailed"
    ELSE "DiscoverOK"

----------------------------------------------------------------------------
(* What is stored.                                                           *)

DiscoveredTops(D) == {u \in Tops(D) : TopPhase2(D, u) = "DiscoverOK"}
DiscoveredLeaves(D) ==
    UNION {{l \in Leaves(D, u) : LeafPhase2(D, l) = "DiscoverOK"} : u \in DiscoveredTops(D)}

\* The inventory has no other managers than those of nodes and routers.
Inventoried(D, u) == u[1] = "Managers" => getManagerHMSType(D, u) \in {"NodeBMC", "RouterBMC"}

DiscoverHWInvByLocArray(D) ==
    [u \in {v \in DiscoveredTops(D) : Inventoried(D, v)} \cup DiscoveredLeaves(D) |->
        IF Len(u) = 2 THEN TopID(D, u) ELSE LeafID(D, u)]

\* Of several resources with one xname the first is stored: a device before a
\* processor, and otherwise in the order in which the maps are ranged over.
Stored(D, ids) ==
    LET At(x)      == {u \in DOMAIN ids : ids[u] = x}
        Foremost(S) == LET devices == {u \in S : Is(u).kind = "Device"}
                       IN IF devices = {} THEN S ELSE devices
        One(S)     == CHOOSE u \in S : TRUE
        First(S)   == IF D.turned /\ Cardinality(S) > 1 THEN One(S \ {One(S)}) ELSE One(S)
    IN [x \in DOMAIN located \cup Range(ids) |->
           IF At(x) = {} THEN located[x] ELSE First(Foremost(At(x)))]

\* Variant: the last interface that is switched on, whatever its state.
MACStepLast(D, seen, i) ==
    LET nic == Is(i)
        on  == IF GETRelative(D, i) /\ nic.on THEN nic.mac ELSE seen.on
    IN [seen EXCEPT !.on = on, !.mac = on]

\* EpManager.discoverComponentEPEthInterfaces: one pass over the map of interfaces.
MACStep(D, seen, i) ==
    LET nic == Is(i)
        \* an interface that could not be fetched says nothing
        on  == IF GETRelative(D, i) /\ nic.on THEN nic.mac ELSE seen.on
        up  == IF GETRelative(D, i) /\ nic.up THEN nic.mac ELSE seen.up
        ok  == IF GETRelative(D, i) /\ nic.up /\ nic.ok THEN nic.mac ELSE seen.ok
    IN [on |-> on, up |-> up, ok |-> ok,
        mac |-> CASE on = ok -> on
                  [] on # ok /\ seen.mac = "" /\ on = up -> on
                  [] OTHER -> seen.mac]

ManagerMAC(D, m) ==
    LET c    == Append(m, "EthernetInterfaces")
        nics == IF MembersOf(D, c) = {} THEN <<>> ELSE Turned(D.turned, hw.list[c])
        none == [on |-> "", up |-> "", ok |-> "", mac |-> ""]
        seen == FoldLeft(LAMBDA s, n : MACStep(D, s, Append(c, n)), none, nics)
        one  == Append(c, nics[1])
    IN IF seen.mac # "" THEN seen.mac
       ELSE IF Len(nics) = 1 THEN IF GETRelative(D, one) THEN Is(one).mac ELSE ""
       ELSE IF seen.on # "" THEN seen.on
       ELSE IF seen.ok # "" THEN seen.ok ELSE seen.up

----------------------------------------------------------------------------
RTInit ==
    /\ hw \in Shapes
    /\ run = NoRun /\ endpoint = "NotYetQueried"
    /\ located = <<>> /\ mac = "" /\ runs = 0 /\ faults = 0 /\ deads = {}

\* The service is in some state while it is asked.
StartRun ==
    /\ run = NoRun /\ runs < MaxRuns
    /\ \E D \in Circumstances : faults + Cardinality(Bad(D)) <= MaxFaults /\ run' = D
    /\ runs' = runs + 1 /\ faults' = faults + Cardinality(Bad(run'))
    /\ UNCHANGED <<hw, endpoint, located, mac, deads>>

\* doDiscovery: nothing but the status is stored unless all is well.
doDiscovery ==
    /\ run # NoRun
    /\ run' = NoRun /\ endpoint' = RootStatus(run)
    /\ IF endpoint' = "DiscoverOK"
       THEN LET ids == DiscoverHWInvByLocArray(run)
                own == MembersOf(run, <<"Managers">>) \cap DiscoveredTops(run)
            IN /\ located' = Stored(run, ids)
               /\ mac' = IF own = {} THEN mac ELSE ManagerMAC(run, CHOOSE m \in own : TRUE)
               /\ deads' = deads \cup {Front(u) : u \in {d \in DOMAIN hw.is \cap Requests : run.fault[d] = "dead"}}
       ELSE UNCHANGED <<located, mac, deads>>
    /\ UNCHANGED <<hw, runs, faults>>

RTNext == StartRun \/ doDiscovery
RTSpec == RTInit /\ [][RTNext]_rtVars

----------------------------------------------------------------------------
(* Properties.                                                               *)

\* Type invariant: what is stored is at an xname below the endpoint's slot
\* (the naming methods), and nothing is before the first good discovery.
RTTypeOK ==
    /\ run = NoRun \/ run \in Circumstances
    /\ \A x \in DOMAIN located :
          /\ located[x] \in DOMAIN hw.is
          /\ x = hw.id \/ IsPrefix(Front(hw.id), x)
    /\ endpoint \in {"NotYetQueried", "EndpointNotEnabled"} => located = <<>>

\* Drives or their groups of which one is numbered by its name, the other by its place.
NumberedUnalike(u, v) ==
    /\ {Is(u).kind, Is(v).kind} = {"Drive"}
    /\ Is(u).named # Is(v).named \/ Is(Front(u)).named # Is(Front(v)).named

\* What two discoveries find at one xname is the same resource (every
\* get...Ordinal says it keeps the order of the list): whatever order lists
\* are sent in and maps are ranged over, and whatever failed.  Not so for
\* processors, for enclosures and managers of which there are several, for
\* drives of which only one is numbered by name, and behind a link that was
\* dead: the rest of that list moves up.
PlacesKept ==
    [][\A x \in DOMAIN located :
          LET u == located[x]  v == located'[x] IN
          \/ u = v
          \/ "Processor" \in {Is(u).kind, Is(v).kind}
          \/ Last(x)[1] \in {"e", "b"}
          \/ NumberedUnalike(u, v)
          \/ Front(u) \in deads']_rtVars

\* One discovery finds two resources at one xname (`every hmsType and ordinal
\* pair must get a unique xname ID') only if they are both enclosures or
\* managers of the endpoint, or drives of which one is numbered by its name and
\* the other by its place (a group "1" and a second group "DA1"), or one is an accelerator, which is counted with
\* the GPUs and named with the processors, or a GPU listed among the devices too.
EachHasItsPlace ==
    [][run # NoRun /\ run' = NoRun /\ endpoint' = "DiscoverOK" =>
          LET ids == DiscoverHWInvByLocArray(run) IN
          \A u, v \in DOMAIN ids :
              \/ u = v \/ ids[u] # ids[v]
              \/ Last(ids[u])[1] \in {"e", "b"}
              \/ NumberedUnalike(u, v)
              \/ {"Accelerator", "GPU"} \cap {Is(w).subtype : w \in {z \in {u, v} : Is(z).kind = "Processor"}} # {}]_rtVars

\* Nothing but these hides a resource from a discovery that ends with
\* DiscoverOK: a dead link, a collection that could not be decoded, power and
\* assembly objects, storage groups, the chassis of the node for the links found
\* there, and collections this kind of controller need not have.
Hides(b, u) ==
    \/ /\ IsPrefix(b, u)
       /\ \/ run.fault[b] \in {"dead", "garbled"}
          \/ b # <<>> /\ Last(b) \in Silent
          \/ b \in DOMAIN hw.is /\ Is(b).kind = "Storage"
          \/ ~Expected(b)
    \/ u[1] = "Systems" /\ b = Is(ParentOf(u)).chassis
    \/ u[1] = "Chassis" /\ b = <<"Systems">>

\* A discovery that ends with DiscoverOK has found everything that is there,
\* but for what a fault hides: a request that fails elsewhere fails it all.
OKMeansAllRead ==
    [][run # NoRun /\ run' = NoRun /\ endpoint' = "DiscoverOK" =>
          LET well == [fault |-> [u \in Requests |-> "ok"], turned |-> FALSE] IN
          \A u \in DOMAIN DiscoverHWInvByLocArray(well) \ DOMAIN DiscoverHWInvByLocArray(run) :
              \E b \in Bad(run) : Hides(b, u)]_rtVars

\* The manager's MAC address is that of an interface that is switched on,
\* enabled and well, if one that answered is and all such have an address, in
\* whatever order the interfaces are looked at.
BestMAC ==
    [][mac' # mac =>
          LET nics == {i \in DOMAIN hw.is : Is(i).kind = "Nic"}
              good == {i \in nics : GETRelative(run, i) /\ Is(i).on /\ Is(i).up /\ Is(i).ok}
          IN (\A b \in Bad(run) \ {<<>>} : Last(b) # "EthernetInterfaces")
                 => good = {} \/ mac' \in {Is(i).mac : i \in good}]_rtVars
=============================================================================
