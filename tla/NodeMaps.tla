------------------------------ MODULE NodeMaps ------------------------------
(***************************************************************************)
(* Node maps and power maps, and what discovery makes of them: the NID,    *)
(* role and class that a node is stored with when its controller is        *)
(* discovered.                                                             *)
(*                                                                         *)
(* The class of a node or controller that no source gives one is Mountain  *)
(* if the Redfish endpoint of its chassis' controller is there, and River  *)
(* if it is not.  That is read some time before the component is stored;   *)
(* the discovery of the chassis turns into Mountain the components that it *)
(* finds stored by then.                                                   *)
(***************************************************************************)
EXTENDS Naturals, Sequences

CONSTANTS
    Nodes,       \* nodes that are discovered: records of the numbers in their xname, v only for a virtual node
    Mapped,      \* nodes with a node map: Nodes and others
    Bmcs,        \* controllers in the chassis
    NodeRows,    \* rows [nid, role, sub] that calls give for a node map
    NodePosts,   \* bodies of POST: sequences of [id, row]
    Powered,     \* components with a power map
    PowerRows,   \* power supplies that calls give, "none" for no row
    SLSAnswers,  \* what SLS may say of a node: [nid, role, sub, class]
    Default      \* [role, sub] of the system as Redfish describes it

\* Where the role of a node may come from, with its sub-role.
Sources == SLSAnswers \cup NodeRows \cup {Default}
               \cup UNION {{body[i].row : i \in DOMAIN body} : body \in NodePosts}

ASSUME MapsAssumption ==
    /\ Nodes \subseteq Mapped /\ Nodes \cap Bmcs = {}
    /\ Default.role # ""
    /\ \A body \in NodePosts : body = [i \in 1..Len(body) |-> body[i]] /\ Len(body) \in Nat

\* SLS does not say River of a node in a chassis that has a controller of its own.
ASSUME SLSAssumption == \A sls \in SLSAnswers : sls.class # "River"

VARIABLES
    nodeMaps,    \* node_nid_mapping: node -> row or NoMap
    powerMaps,   \* power_mapping: component -> power supplies or "none"
    chassisEP,   \* is there a Redfish endpoint of the chassis' controller?
    chassis,     \* discovery of the chassis: [listed, ids]
    found,       \* node or controller -> its discovery: [at, row]
    stored,      \* components: node or controller -> row or NotStored
    race         \* history, since the endpoint of the chassis' controller is there:
                 \* [swept, overlap, raced]

nmVars == <<nodeMaps, powerMaps, chassisEP, chassis, found, stored, race>>

NoMap == [nid |-> 0, role |-> "", sub |-> ""]
NotStored == [nid |-> 0, role |-> "", sub |-> "", class |-> "none"]
NotListed == [listed |-> FALSE, ids |-> {}]
NotFound == [at |-> "idle", row |-> NotStored]

\* swept: has a discovery of the chassis listed ("listed") and updated ("yes") the
\* components?  overlap: components found to be River before and not stored yet;
\* raced: those that were stored last of them.
NoRace == [swept |-> "no", overlap |-> {}, raced |-> {}]

-----------------------------------------------------------------------------
(* The maps                                                                *)

NidsDistinct(table) ==
    \A m, n \in {x \in Mapped : table[x] # NoMap} : m # n => table[m].nid # table[n].nid

\* The table when the first k entries have been inserted or have replaced a row.
After(entries, k) ==
    [n \in Mapped |->
       LET of == {j \in 1..k : entries[j].id = n}
       IN IF of = {} THEN nodeMaps[n]
          ELSE entries[CHOOSE j \in of : \A i \in of : i <= j].row]

\* The NIDs are compared at every row: an entry may not have the NID of a row
\* that a later entry is about to change.
InsertNodeMapTx(entries, k) == NidsDistinct(After(entries, k))

InsertNodeMaps(entries) ==
    /\ \A k \in 1..Len(entries) : InsertNodeMapTx(entries, k)
    /\ nodeMaps' = After(entries, Len(entries))

InsertNodeMap(n, row) == InsertNodeMaps(<<[id |-> n, row |-> row]>>)

UnchangedButMaps == UNCHANGED <<powerMaps, chassisEP, chassis, found, stored, race>>

doNodeMapsPost == UnchangedButMaps /\ \E body \in NodePosts : InsertNodeMaps(body)
doNodeMapPut   == UnchangedButMaps /\ \E n \in Mapped, row \in NodeRows : InsertNodeMap(n, row)

DeleteNodeMapByID(n) == nodeMaps[n] # NoMap /\ nodeMaps' = [nodeMaps EXCEPT ![n] = NoMap]
DeleteNodeMapsAll    == (\E n \in Mapped : nodeMaps[n] # NoMap) /\ nodeMaps' = [n \in Mapped |-> NoMap]

doNodeMapDelete     == UnchangedButMaps /\ \E n \in Mapped : DeleteNodeMapByID(n)
doNodeMapsDeleteAll == UnchangedButMaps /\ DeleteNodeMapsAll

UnchangedButPower == UNCHANGED <<nodeMaps, chassisEP, chassis, found, stored, race>>

InsertPowerMaps(rows) ==
    powerMaps' = [n \in Powered |-> IF n \in DOMAIN rows THEN rows[n] ELSE powerMaps[n]]
InsertPowerMap(n, row) == powerMaps' = [powerMaps EXCEPT ![n] = row]

doPowerMapsPost == UnchangedButPower /\ \E rows \in [Powered -> PowerRows] : InsertPowerMaps(rows)
doPowerMapPut   == UnchangedButPower /\ \E n \in Powered, row \in PowerRows : InsertPowerMap(n, row)

DeletePowerMapByID(n) == powerMaps[n] # "none" /\ powerMaps' = [powerMaps EXCEPT ![n] = "none"]
DeletePowerMapsAll    == (\E n \in Powered : powerMaps[n] # "none") /\ powerMaps' = [n \in Powered |-> "none"]

doPowerMapDelete     == UnchangedButPower /\ \E n \in Powered : DeletePowerMapByID(n)
doPowerMapsDeleteAll == UnchangedButPower /\ DeletePowerMapsAll

-----------------------------------------------------------------------------
(* What a discovered node is given                                         *)

\* A number made of those in the xname; the node of a virtual node is ignored.
GetBogusNID(x) ==
    (x.cab + 1) * 16384 + x.chassis * 2048 + x.slot * 32 + x.bmc * 4
        + (IF "v" \in DOMAIN x THEN x.v ELSE x.node)

\* Variant: the sub-role is looked for on its own.
GetCompDefaultsFieldByField(n, sls) ==
    LET map == nodeMaps[n]
        first(a, b, c) == IF a # "" THEN a ELSE IF b # "" THEN b ELSE c
    IN [nid   |-> IF sls.nid # 0 THEN sls.nid ELSE IF map.nid # 0 THEN map.nid ELSE GetBogusNID(n),
        role  |-> first(sls.role, map.role, Default.role),
        sub   |-> first(sls.sub, map.sub, Default.sub),
        class |-> sls.class]

\* The sub-role comes from where the role does.  An SLS that cannot be asked is one
\* that says nothing.
GetCompDefaults(n, sls) ==
    LET map == nodeMaps[n]
        of  == IF sls.role # "" THEN sls ELSE IF map.role # "" THEN map ELSE Default
    IN [nid   |-> IF sls.nid # 0 THEN sls.nid ELSE IF map.nid # 0 THEN map.nid ELSE GetBogusNID(n),
        role  |-> of.role, sub |-> of.sub, class |-> sls.class]

Found(n, at, row) == found' = [found EXCEPT ![n] = [at |-> at, row |-> row]]

DiscoverComponentSystem(n) ==
    /\ n \in Nodes /\ found[n] = NotFound
    /\ \E sls \in SLSAnswers :
          LET row == GetCompDefaults(n, sls)
          IN Found(n, IF row.class = "" THEN "class" ELSE "store", row)
    /\ UNCHANGED <<nodeMaps, powerMaps, chassisEP, chassis, stored, race>>

DiscoverComponentManager(b) ==
    /\ b \in Bmcs /\ found[b] = NotFound
    /\ Found(b, "class", [NotStored EXCEPT !.class = ""])
    /\ UNCHANGED <<nodeMaps, powerMaps, chassisEP, chassis, stored, race>>

\* Variant: River stays River.
LookUpClassOnce(c) ==
    /\ found[c].at = "class"
    /\ Found(c, "store", [found[c].row EXCEPT
                            !.class = IF chassisEP /\ stored[c].class # "River" THEN "Mountain" ELSE "River"])
    /\ UNCHANGED <<nodeMaps, powerMaps, chassisEP, chassis, stored, race>>

\* Is the endpoint of the chassis' controller there?
LookUpClass(c) ==
    /\ found[c].at = "class"
    /\ Found(c, "store", [found[c].row EXCEPT !.class = IF chassisEP THEN "Mountain" ELSE "River"])
    /\ UNCHANGED <<nodeMaps, powerMaps, chassisEP, chassis, stored, race>>

\* A component that is there keeps its NID and role.
StoreDiscovered(c) ==
    /\ found[c].at = "store"
    /\ stored' = [stored EXCEPT ![c] = IF @ = NotStored THEN found[c].row
                                     ELSE [@ EXCEPT !.class = found[c].row.class]]
    /\ found' = [found EXCEPT ![c] = NotFound]
    /\ race' = [race EXCEPT !.overlap = @ \ {c},
                            !.raced = IF c \in race.overlap THEN @ \cup {c} ELSE @ \ {c}]
    /\ UNCHANGED <<nodeMaps, powerMaps, chassisEP, chassis>>

\* The components in the chassis are listed, and the listed ones set to Mountain.
DiscoverComponentChassis ==
    /\ chassisEP /\ ~chassis.listed
    /\ chassis' = [listed |-> TRUE, ids |-> {c \in Nodes \cup Bmcs : stored[c] # NotStored}]
    /\ race' = [race EXCEPT !.swept = IF @ = "no" THEN "listed" ELSE @]
    /\ UNCHANGED <<nodeMaps, powerMaps, chassisEP, found, stored>>

UpdateClassOfChassis ==
    /\ chassis.listed
    /\ stored' = [c \in Nodes \cup Bmcs |->
                   IF c \in chassis.ids /\ stored[c] # NotStored THEN [stored[c] EXCEPT !.class = "Mountain"]
                   ELSE stored[c]]
    /\ chassis' = NotListed
    /\ race' = [race EXCEPT !.swept = IF @ = "listed" THEN "yes" ELSE @]
    /\ UNCHANGED <<nodeMaps, powerMaps, chassisEP, found>>

\* Endpoints and components come and go (Discovery, CompState).
InsertChassisEndpoint ==
    /\ ~chassisEP /\ chassisEP' = TRUE
    /\ race' = [NoRace EXCEPT !.overlap = {c \in Nodes \cup Bmcs : found[c].row.class = "River"}]
    /\ UNCHANGED <<nodeMaps, powerMaps, chassis, found, stored>>
DeleteChassisEndpoint ==
    /\ chassisEP /\ chassisEP' = FALSE /\ race' = NoRace
    /\ UNCHANGED <<nodeMaps, powerMaps, chassis, found, stored>>
DeleteDiscovered ==
    /\ \E c \in Nodes \cup Bmcs : stored[c] # NotStored /\ stored' = [stored EXCEPT ![c] = NotStored]
    /\ UNCHANGED <<nodeMaps, powerMaps, chassisEP, chassis, found, race>>

-----------------------------------------------------------------------------
NMInit ==
    /\ nodeMaps = [n \in Mapped |-> NoMap] /\ powerMaps = [n \in Powered |-> "none"]
    /\ chassisEP = FALSE /\ chassis = NotListed
    /\ found = [c \in Nodes \cup Bmcs |-> NotFound]
    /\ stored = [c \in Nodes \cup Bmcs |-> NotStored]
    /\ race = NoRace

NMNext ==
    \/ doNodeMapsPost \/ doNodeMapPut \/ doNodeMapDelete \/ doNodeMapsDeleteAll
    \/ doPowerMapsPost \/ doPowerMapPut \/ doPowerMapDelete \/ doPowerMapsDeleteAll
    \/ \E c \in Nodes \cup Bmcs :
        \/ DiscoverComponentSystem(c) \/ DiscoverComponentManager(c)
        \/ LookUpClass(c) \/ StoreDiscovered(c)
    \/ DiscoverComponentChassis \/ UpdateClassOfChassis
    \/ InsertChassisEndpoint \/ DeleteChassisEndpoint \/ DeleteDiscovered

NMSpec == NMInit /\ [][NMNext]_nmVars

-----------------------------------------------------------------------------
(* Properties                                                              *)

\* Fields have their types, and no two nodes are mapped to one NID: a row that a PUT or
\* an entry of a POST would give a NID that is taken fails the call.
NMTypeOK ==
    /\ NidsDistinct(nodeMaps)
    /\ \A n \in Powered : powerMaps[n] \in PowerRows \cup {"none"}
    /\ \A c \in Nodes \cup Bmcs : found[c].at \in {"idle", "class", "store"}

\* A component's role and sub-role were given together, by SLS, by a node map or by
\* default, whatever has changed between its discoveries (components.go:344-366).
RolesTogether ==
    \A n \in Nodes : stored[n] # NotStored =>
        \E of \in Sources :
            stored[n].role = of.role /\ stored[n].sub = of.sub /\ of.role # ""

\* Once a discovery of the chassis that began after the endpoint of its controller was
\* there has updated the components, one is stored as River only if its own discovery
\* overlapped the insertion of the endpoint: it asked before and stored after.  The
\* listing of the chassis, in the middle of that, misses no other one, and the next
\* discovery of such a component ends the matter (components.go:96-99, 197-220).
RiverByRaceOnly ==
    chassisEP /\ race.swept = "yes" =>
        \A c \in Nodes \cup Bmcs : stored[c].class = "River" => c \in race.raced
=============================================================================
