-------------------------- MODULE MapsEventsProofs --------------------------
(***************************************************************************)
(* Theorems about NodeMaps, for every set of nodes, maps and answers of    *)
(* SLS: a NID is mapped once, a role keeps its sub-role, a component is    *)
(* River by a race only; and the NIDs made from names are distinct.  And   *)
(* about RFEvents, for every hardware, every number of workers and all     *)
(* bounds: a lookup finds what it has seen in the table, an update sets a  *)
(* power that is one, and once all events are handled, HSM shows the power *)
(* of what it can know.  The two modules share no variable.                *)
(***************************************************************************)
EXTENDS NodeMaps, RFEvents, WellFoundedInduction, TLAPS

-----------------------------------------------------------------------------
(* Node maps                                                               *)

Discovered == Nodes \cup Bmcs

IsRow(r) == r = [nid |-> r.nid, role |-> r.role, sub |-> r.sub, class |-> r.class]

\* The variables are records with these fields.
Shape ==
    /\ nodeMaps = [n \in Mapped |-> nodeMaps[n]]
    /\ found = [c \in Discovered |-> found[c]]
    /\ \A c \in Discovered : /\ found[c] = [at |-> found[c].at, row |-> found[c].row]
                         /\ found[c].at \in {"idle", "class", "store"} /\ IsRow(found[c].row)
    /\ stored = [c \in Discovered |-> stored[c]]
    /\ \A c \in Discovered : IsRow(stored[c])
    /\ race = [swept |-> race.swept, overlap |-> race.overlap, raced |-> race.raced]
    /\ chassis = [listed |-> chassis.listed, ids |-> chassis.ids]

\* The role and sub-role of a row are together in a source.
From(row) == \E of \in Sources : row.role = of.role /\ row.sub = of.sub /\ of.role # ""

RolesInv ==
    /\ \A n \in Mapped : nodeMaps[n].role # "" => From(nodeMaps[n])
    /\ \A n \in Nodes : found[n].at # "idle" => From(found[n].row)
    /\ \A n \in Nodes : stored[n] # NotStored => From(stored[n])

\* Before the chassis has been listed nothing is known; then what is stored as River
\* is listed, or raced; then all River ones have raced.
RiverInv ==
    /\ ~chassisEP => race.swept = "no"
    /\ race.swept \in {"no", "listed", "yes"}
    /\ chassisEP => \A c \in Discovered : found[c].row.class = "River" => c \in race.overlap
    /\ race.swept = "listed" => chassis.listed
    /\ race.swept = "listed" => \A c \in Discovered :
           stored[c].class = "River" => c \in race.raced \cup chassis.ids
    /\ race.swept = "yes" => \A c \in Discovered : stored[c].class = "River" => c \in race.raced

PowerOK == powerMaps = [n \in Powered |-> powerMaps[n]] /\ \A n \in Powered : powerMaps[n] \in PowerRows \cup {"none"}

MapsInv == Shape /\ PowerOK /\ NidsDistinct(nodeMaps) /\ RolesInv /\ RiverInv

-----------------------------------------------------------------------------
(* Lemmas                                                                  *)

\* Of several entries of a POST for one node there is a last.
LEMMA LastExists ==
    ASSUME NEW k \in Nat, NEW T, T \subseteq 1..k, T # {}
    PROVE  \E j \in T : \A i \in T : i <= j
<1> DEFINE D == {n \in Nat : \E j \in T : j = k - n}
<1>1. D \subseteq Nat /\ D # {}
    <2>1. PICK j \in T : TRUE
        OBVIOUS
    <2>2. k - j \in Nat /\ j = k - (k - j)
        BY <2>1
    <2> QED BY <2>1, <2>2
<1>2. PICK n \in D : \A m \in D : ~(<<m, n>> \in OpToRel(<, Nat))
    BY <1>1, NatLessThanWellFounded, WFMin
<1>3. \A m \in D : ~(m < n)
    BY <1>2 DEF OpToRel
<1>4. PICK j \in T : j = k - n
    BY <1>2
<1>5. \A i \in T : (k - i) \in Nat /\ i = k - (k - i)
    OBVIOUS
<1>6. \A i \in T : (k - i) \in D
    BY <1>5
<1> QED BY <1>3, <1>4, <1>6

\* What a POST or PUT leaves in the table was there, or is a row of its entries.
LEMMA AfterFrom ==
    ASSUME NEW entries, Len(entries) \in Nat, NEW n \in Mapped,
           entries = [i \in 1..Len(entries) |-> entries[i]]
    PROVE  \/ After(entries, Len(entries))[n] = nodeMaps[n]
           \/ \E j \in 1..Len(entries) : After(entries, Len(entries))[n] = entries[j].row
<1> DEFINE of == {j \in 1..Len(entries) : entries[j].id = n}
<1>1. CASE of = {}
    BY <1>1 DEF After
<1>2. CASE of # {}
    <2>1. \E j \in of : \A i \in of : i <= j
        BY <1>2, LastExists
    <2> DEFINE last == CHOOSE j \in of : \A i \in of : i <= j
    <2>2. last \in of
        BY <2>1
    <2>3. After(entries, Len(entries))[n] = entries[last].row
        BY <1>2 DEF After
    <2> HIDE DEF last
    <2> QED BY <2>2, <2>3
<1> QED BY <1>1, <1>2

\* The parts of an ordinary node's name: 8 chassis in a cabinet, 64 slots in a chassis,
\* 8 controllers in a slot, 4 nodes on a controller.
Ordinary(x) ==
    /\ "v" \notin DOMAIN x
    /\ x.cab \in Nat /\ x.chassis \in 0..7 /\ x.slot \in 0..63 /\ x.bmc \in 0..7 /\ x.node \in 0..3
SameNode(x, y) ==
    x.cab = y.cab /\ x.chassis = y.chassis /\ x.slot = y.slot /\ x.bmc = y.bmc /\ x.node = y.node

\* Ordinary nodes that no source gives a NID do not share the one that GetBogusNID
\* makes from their names (components.go:389-399).
THEOREM BogusNIDsDistinct ==
    ASSUME NEW x, NEW y, Ordinary(x), Ordinary(y), GetBogusNID(x) = GetBogusNID(y)
    PROVE  SameNode(x, y)
<1>1. PICK a \in Nat, b \in 0..7, c \in 0..63, d \in 0..7, e \in 0..3 :
          x.cab = a /\ x.chassis = b /\ x.slot = c /\ x.bmc = d /\ x.node = e
    BY DEF Ordinary
<1>2. PICK p \in Nat, q \in 0..7, r \in 0..63, s \in 0..7, t \in 0..3 :
          y.cab = p /\ y.chassis = q /\ y.slot = r /\ y.bmc = s /\ y.node = t
    BY DEF Ordinary
<1> DEFINE m == (a + 1) * 16384 + b * 2048 + c * 32 + d * 4 + e
           n == (p + 1) * 16384 + q * 2048 + r * 32 + s * 4 + t
<1>3. GetBogusNID(x) = m
    BY <1>1 DEF Ordinary, GetBogusNID
<1>4. GetBogusNID(y) = n
    BY <1>2 DEF Ordinary, GetBogusNID
<1>5. m = n
    <2> HIDE DEF m, n
    <2> QED BY <1>3, <1>4
<1>6. a = p
    BY <1>5
<1>7. b = q
    BY <1>5, <1>6
<1>8. c = r
    BY <1>5, <1>6, <1>7
<1>9. d = s /\ e = t
    BY <1>5, <1>6, <1>7, <1>8
<1> QED BY <1>1, <1>2, <1>6, <1>7, <1>8, <1>9 DEF SameNode

-----------------------------------------------------------------------------
(* Each operation keeps the invariant                                      *)

\* A call that stores rows that come from a source keeps NIDs and roles apart.
LEMMA InsertNodeMapsInv ==
    ASSUME MapsInv, UnchangedButMaps, NEW entries, InsertNodeMaps(entries),
           entries = [i \in 1..Len(entries) |-> entries[i]], Len(entries) \in Nat,
           \A i \in 1..Len(entries) : entries[i].row \in Sources
    PROVE  MapsInv'
<1>1. nodeMaps' = After(entries, Len(entries))
    BY DEF InsertNodeMaps
<1>2. nodeMaps' = [n \in Mapped |-> nodeMaps'[n]]
    BY <1>1 DEF After
<1>3. NidsDistinct(nodeMaps')
    <2>1. CASE Len(entries) = 0
        <3>1. \A n \in Mapped : nodeMaps'[n] = nodeMaps[n]
            BY <1>1, <2>1 DEF After
        <3> QED BY <3>1 DEF MapsInv, NidsDistinct
    <2>2. CASE Len(entries) # 0
        <3>1. Len(entries) \in 1..Len(entries)
            BY <2>2
        <3>2. InsertNodeMapTx(entries, Len(entries))
            BY <3>1 DEF InsertNodeMaps
        <3> QED BY <1>1, <3>2 DEF InsertNodeMapTx
    <2> QED BY <2>1, <2>2
<1>4. \A n \in Mapped : nodeMaps'[n].role # "" => From(nodeMaps'[n])
    <2> TAKE n \in Mapped
    <2>1. CASE nodeMaps'[n] = nodeMaps[n]
        BY <2>1 DEF MapsInv, RolesInv
    <2>2. CASE \E j \in 1..Len(entries) : nodeMaps'[n] = entries[j].row
        BY <2>2 DEF From
    <2> QED BY <1>1, <2>1, <2>2, AfterFrom
<1>5. UNCHANGED <<powerMaps, chassisEP, chassis, found, stored, race>>
    BY DEF UnchangedButMaps
<1> QED BY <1>2, <1>3, <1>4, <1>5
        DEF MapsInv, Shape, PowerOK, NidsDistinct, RolesInv, RiverInv, From, IsRow

LEMMA NodeMapsInv ==
    ASSUME MapsInv, doNodeMapsPost \/ doNodeMapPut \/ doNodeMapDelete \/ doNodeMapsDeleteAll
    PROVE  MapsInv'
<1>1. CASE doNodeMapsPost
    <2>1. PICK body \in NodePosts : InsertNodeMaps(body) /\ UnchangedButMaps
        BY <1>1 DEF doNodeMapsPost
    <2>2. body = [i \in 1..Len(body) |-> body[i]] /\ Len(body) \in Nat
        BY MapsAssumption
    <2>3. \A i \in 1..Len(body) : body[i].row \in Sources
        BY <2>2 DEF Sources
    <2> QED BY <2>1, <2>2, <2>3, InsertNodeMapsInv
<1>2. CASE doNodeMapPut
    <2>1. PICK n \in Mapped, row \in NodeRows : InsertNodeMap(n, row) /\ UnchangedButMaps
        BY <1>2 DEF doNodeMapPut
    <2> DEFINE body == <<[id |-> n, row |-> row]>>
    <2>2. /\ Len(body) \in Nat /\ body = [i \in 1..Len(body) |-> body[i]]
          /\ \A i \in 1..Len(body) : body[i].row \in Sources
        BY DEF Sources
    <2>3. InsertNodeMaps(body)
        BY <2>1 DEF InsertNodeMap
    <2> HIDE DEF body
    <2> QED BY <2>1, <2>2, <2>3, InsertNodeMapsInv
<1>3. CASE doNodeMapDelete \/ doNodeMapsDeleteAll
    <2>1. UNCHANGED <<powerMaps, chassisEP, chassis, found, stored, race>>
        BY <1>3 DEF doNodeMapDelete, doNodeMapsDeleteAll, UnchangedButMaps
    <2>2. /\ nodeMaps' = [n \in Mapped |-> nodeMaps'[n]]
          /\ \A n \in Mapped : nodeMaps'[n] = nodeMaps[n] \/ nodeMaps'[n] = NoMap
        BY <1>3 DEF doNodeMapDelete, doNodeMapsDeleteAll, DeleteNodeMapByID, DeleteNodeMapsAll,
                    MapsInv, Shape
    <2>3. NidsDistinct(nodeMaps')
        <3>1. NidsDistinct(nodeMaps)
            BY DEF MapsInv
        <3> QED BY <2>2, <3>1 DEF NidsDistinct
    <2>4. ASSUME NEW n \in Mapped, nodeMaps'[n].role # ""
          PROVE  From(nodeMaps'[n])
        <3>1. nodeMaps'[n] # NoMap
            <4>1. NoMap.role = ""
                BY DEF NoMap
            <4> QED BY <2>4, <4>1
        <3>2. nodeMaps'[n] = nodeMaps[n]
            BY <2>2, <3>1
        <3> QED BY <2>4, <3>2 DEF MapsInv, RolesInv
    <2> QED BY <2>1, <2>2, <2>3, <2>4
            DEF MapsInv, Shape, PowerOK, NidsDistinct, RolesInv, RiverInv, From, IsRow
<1> QED BY <1>1, <1>2, <1>3

LEMMA PowerMapsInv ==
    ASSUME MapsInv,
           doPowerMapsPost \/ doPowerMapPut \/ doPowerMapDelete \/ doPowerMapsDeleteAll
    PROVE  MapsInv'
<1>1. UNCHANGED <<nodeMaps, chassisEP, chassis, found, stored, race>>
    BY DEF doPowerMapsPost, doPowerMapPut, doPowerMapDelete, doPowerMapsDeleteAll, UnchangedButPower
<1>2. /\ powerMaps' = [n \in Powered |-> powerMaps'[n]]
      /\ \A n \in Powered : powerMaps'[n] \in PowerRows \cup {"none"}
    <2>1. CASE doPowerMapsPost
        BY <2>1 DEF doPowerMapsPost, InsertPowerMaps
    <2>2. CASE doPowerMapPut
        BY <2>2 DEF doPowerMapPut, InsertPowerMap, MapsInv, PowerOK
    <2>3. CASE doPowerMapDelete \/ doPowerMapsDeleteAll
        BY <2>3 DEF doPowerMapDelete, doPowerMapsDeleteAll, DeletePowerMapByID, DeletePowerMapsAll,
                    MapsInv, PowerOK
    <2> QED BY <2>1, <2>2, <2>3
<1> QED BY <1>1, <1>2 DEF MapsInv, Shape, PowerOK, NidsDistinct, RolesInv, RiverInv, From, IsRow

\* A component found by discovery moves to a row that has its role from a source,
\* and is River before the endpoint of the chassis is there, or by SLS never.
LEMMA FoundInv ==
    ASSUME MapsInv, NEW c \in Discovered, NEW at \in {"class", "store"}, NEW row,
           Found(c, at, row), UNCHANGED <<nodeMaps, powerMaps, chassisEP, chassis, stored, race>>,
           IsRow(row), c \in Nodes => From(row), chassisEP => row.class # "River"
    PROVE  MapsInv'
<1>1. found' = [d \in Discovered |-> IF d = c THEN [at |-> at, row |-> row] ELSE found[d]]
    BY DEF Found, MapsInv, Shape
<1>2. Shape'
    BY <1>1 DEF MapsInv, Shape, IsRow
<1>3. RolesInv'
    BY <1>1 DEF MapsInv, RolesInv, From, Discovered
<1>4. RiverInv'
    BY <1>1 DEF MapsInv, RiverInv
<1> QED BY <1>2, <1>3, <1>4 DEF MapsInv, PowerOK, NidsDistinct

\* The role and sub-role that a node is given by default are together in a source.
LEMMA DefaultsFrom ==
    ASSUME MapsInv, NEW n \in Nodes, NEW sls \in SLSAnswers
    PROVE  /\ From(GetCompDefaults(n, sls)) /\ IsRow(GetCompDefaults(n, sls))
           /\ GetCompDefaults(n, sls).class = sls.class
<1> DEFINE of == IF sls.role # "" THEN sls ELSE IF nodeMaps[n].role # "" THEN nodeMaps[n] ELSE Default
<1>1. \E src \in Sources : of.role = src.role /\ of.sub = src.sub /\ src.role # ""
    <2>1. CASE sls.role # ""
        BY <2>1 DEF Sources
    <2>2. CASE sls.role = "" /\ nodeMaps[n].role # ""
        BY <2>2, MapsAssumption DEF MapsInv, RolesInv, From
    <2>3. CASE sls.role = "" /\ nodeMaps[n].role = ""
        BY <2>3, MapsAssumption DEF Sources
    <2> QED BY <2>1, <2>2, <2>3
<1>2. /\ GetCompDefaults(n, sls).role = of.role /\ GetCompDefaults(n, sls).sub = of.sub
      /\ GetCompDefaults(n, sls).class = sls.class
    BY DEF GetCompDefaults
<1>3. IsRow(GetCompDefaults(n, sls))
    BY DEF GetCompDefaults, IsRow
<1> QED BY <1>1, <1>2, <1>3 DEF From

\* A row with another class.
LEMMA WithClass ==
    ASSUME NEW r, NEW class, IsRow(r)
    PROVE  /\ IsRow([r EXCEPT !.class = class]) /\ [r EXCEPT !.class = class].class = class
           /\ [r EXCEPT !.class = class].role = r.role /\ [r EXCEPT !.class = class].sub = r.sub
<1>1. [r EXCEPT !.class = class] = [nid |-> r.nid, role |-> r.role, sub |-> r.sub, class |-> class]
    BY DEF IsRow
<1> QED BY <1>1 DEF IsRow

LEMMA DiscoverInv ==
    ASSUME MapsInv, NEW c \in Discovered,
           DiscoverComponentSystem(c) \/ DiscoverComponentManager(c) \/ LookUpClass(c)
    PROVE  MapsInv'
<1>1. CASE DiscoverComponentSystem(c)
    <2>1. PICK sls \in SLSAnswers :
              LET row == GetCompDefaults(c, sls)
              IN Found(c, IF row.class = "" THEN "class" ELSE "store", row)
        BY <1>1 DEF DiscoverComponentSystem
    <2> DEFINE row == GetCompDefaults(c, sls)
    <2>2. c \in Nodes /\ UNCHANGED <<nodeMaps, powerMaps, chassisEP, chassis, stored, race>>
        BY <1>1 DEF DiscoverComponentSystem
    <2>3. From(row) /\ IsRow(row) /\ row.class # "River"
        BY <2>2, DefaultsFrom, SLSAssumption
    <2>4. PICK at \in {"class", "store"} : Found(c, at, row)
        BY <2>1
    <2> HIDE DEF row
    <2> QED BY <2>2, <2>3, <2>4, FoundInv
<1>2. CASE DiscoverComponentManager(c)
    <2> DEFINE row == [NotStored EXCEPT !.class = ""]
    <2>1. c \notin Nodes /\ Found(c, "class", row)
        BY <1>2, MapsAssumption DEF DiscoverComponentManager
    <2>2. UNCHANGED <<nodeMaps, powerMaps, chassisEP, chassis, stored, race>>
        BY <1>2 DEF DiscoverComponentManager
    <2>3. IsRow(row) /\ row.class # "River"
        <3>1. IsRow(NotStored)
            BY DEF NotStored, IsRow
        <3>2. PICK none : none = NotStored /\ IsRow(none)
            BY <3>1
        <3>3. row = [none EXCEPT !.class = ""]
            BY <3>2
        <3>4. [none EXCEPT !.class = ""].class = "" /\ IsRow([none EXCEPT !.class = ""])
            BY <3>2, WithClass
        <3> HIDE DEF row
        <3> QED BY <3>3, <3>4
    <2> HIDE DEF row
    <2> QED BY <2>1, <2>2, <2>3, FoundInv
<1>3. CASE LookUpClass(c)
    <2> DEFINE class == IF chassisEP THEN "Mountain" ELSE "River"
               row   == [found[c].row EXCEPT !.class = class]
    <2>1. Found(c, "store", row) /\ found[c].at = "class"
        BY <1>3 DEF LookUpClass
    <2>2. UNCHANGED <<nodeMaps, powerMaps, chassisEP, chassis, stored, race>>
        BY <1>3 DEF LookUpClass
    <2>3. IsRow(found[c].row)
        BY DEF MapsInv, Shape
    <2>4. chassisEP => class # "River"
        OBVIOUS
    <2> HIDE DEF class
    <2>5. row = [nid |-> found[c].row.nid, role |-> found[c].row.role, sub |-> found[c].row.sub,
                 class |-> class]
        BY <2>3 DEF IsRow
    <2>6. IsRow(row) /\ (chassisEP => row.class # "River")
        BY <2>4, <2>5 DEF IsRow
    <2>7. c \in Nodes => From(row)
        BY <2>1, <2>5 DEF MapsInv, RolesInv, From
    <2> HIDE DEF row
    <2> QED BY <2>1, <2>2, <2>6, <2>7, FoundInv
<1> QED BY <1>1, <1>2, <1>3

LEMMA StoreInv ==
    ASSUME MapsInv, NEW c \in Discovered, StoreDiscovered(c)
    PROVE  MapsInv'
<1> DEFINE new  == found[c].row
           row  == IF stored[c] = NotStored THEN new ELSE [stored[c] EXCEPT !.class = new.class]
<1>1. /\ found[c].at = "store" /\ UNCHANGED <<nodeMaps, powerMaps, chassisEP, chassis>>
      /\ stored' = [d \in Discovered |-> IF d = c THEN row ELSE stored[d]]
      /\ found' = [d \in Discovered |-> IF d = c THEN NotFound ELSE found[d]]
    BY DEF StoreDiscovered, MapsInv, Shape
<1>2. IsRow(new) /\ IsRow(stored[c])
    BY DEF MapsInv, Shape
<1>3. IsRow(row) /\ row.class = new.class
    <2>1. CASE stored[c] = NotStored
        BY <1>2, <2>1
    <2>2. CASE stored[c] # NotStored
        <3>1. row = [nid |-> stored[c].nid, role |-> stored[c].role, sub |-> stored[c].sub,
                     class |-> new.class]
            BY <1>2, <2>2 DEF IsRow
        <3> QED BY <3>1 DEF IsRow
    <2> QED BY <2>1, <2>2
<1>4. c \in Nodes => From(row)
    <2>1. CASE stored[c] = NotStored
        BY <1>1, <2>1 DEF MapsInv, RolesInv
    <2>2. CASE stored[c] # NotStored
        <3>1. row.role = stored[c].role /\ row.sub = stored[c].sub
            BY <1>2, <2>2 DEF IsRow
        <3> QED BY <2>2, <3>1 DEF MapsInv, RolesInv, From
    <2> QED BY <2>1, <2>2
<1> HIDE DEF row
<1>5. /\ race'.swept = race.swept /\ race'.overlap = race.overlap \ {c}
      /\ race'.raced = IF c \in race.overlap THEN race.raced \cup {c} ELSE race.raced \ {c}
      /\ race' = [swept |-> race'.swept, overlap |-> race'.overlap, raced |-> race'.raced]
    BY DEF StoreDiscovered, MapsInv, Shape
<1>6. /\ NotFound = [at |-> NotFound.at, row |-> NotFound.row]
      /\ NotFound.at = "idle" /\ IsRow(NotFound.row) /\ NotFound.row.class # "River"
    BY DEF NotFound, NotStored, IsRow
<1>7. Shape'
    BY <1>1, <1>3, <1>5, <1>6 DEF MapsInv, Shape, IsRow
<1>8. RolesInv'
    BY <1>1, <1>4, <1>6 DEF MapsInv, RolesInv, From, Discovered
<1>9. RiverInv'
    <2>1. chassisEP => \A d \in Discovered : found'[d].row.class = "River" => d \in race'.overlap
        BY <1>1, <1>5, <1>6 DEF MapsInv, RiverInv
    <2>2. ASSUME NEW d \in Discovered, chassisEP, stored'[d].class = "River"
          PROVE  d \in race'.raced \/ (d # c /\ d \notin race.raced /\ stored[d].class = "River")
        <3>1. CASE d = c
            <4>1. found[c].row.class = "River"
                BY <1>1, <1>3, <2>2, <3>1
            <4> QED BY <1>5, <2>2, <3>1, <4>1 DEF MapsInv, RiverInv
        <3>2. CASE d # c
            BY <1>1, <1>5, <2>2, <3>2
        <3> QED BY <3>1, <3>2
    <2> QED BY <1>1, <1>5, <2>1, <2>2 DEF MapsInv, RiverInv
<1> QED BY <1>1, <1>7, <1>8, <1>9 DEF MapsInv, PowerOK, NidsDistinct

LEMMA ChassisInv ==
    ASSUME MapsInv, DiscoverComponentChassis \/ UpdateClassOfChassis
    PROVE  MapsInv'
<1>1. UNCHANGED <<nodeMaps, powerMaps, chassisEP, found>>
    BY DEF DiscoverComponentChassis, UpdateClassOfChassis
<1>2. PICK swept :
          /\ race' = [swept |-> swept, overlap |-> race.overlap, raced |-> race.raced]
          /\ DiscoverComponentChassis => swept = IF race.swept = "no" THEN "listed" ELSE race.swept
          /\ UpdateClassOfChassis => swept = IF race.swept = "listed" THEN "yes" ELSE race.swept
    <2>1. race = [swept |-> race.swept, overlap |-> race.overlap, raced |-> race.raced]
        BY DEF MapsInv, Shape
    <2>2. CASE DiscoverComponentChassis
        <3>1. race' = [race EXCEPT !.swept = IF race.swept = "no" THEN "listed" ELSE race.swept]
            BY <2>2 DEF DiscoverComponentChassis
        <3>2. ~UpdateClassOfChassis
            BY <2>2 DEF DiscoverComponentChassis, UpdateClassOfChassis
        <3> QED BY <2>1, <2>2, <3>1, <3>2
    <2>3. CASE UpdateClassOfChassis
        <3>1. race' = [race EXCEPT !.swept = IF race.swept = "listed" THEN "yes" ELSE race.swept]
            BY <2>3 DEF UpdateClassOfChassis
        <3>2. ~DiscoverComponentChassis
            BY <2>3 DEF DiscoverComponentChassis, UpdateClassOfChassis
        <3> QED BY <2>1, <2>3, <3>1, <3>2
    <2> QED BY <2>2, <2>3
<1>3. CASE DiscoverComponentChassis
    <2>1. /\ chassisEP /\ stored' = stored /\ chassis'.listed
          /\ chassis' = [listed |-> chassis'.listed, ids |-> chassis'.ids]
          /\ chassis'.ids = {c \in Discovered : stored[c] # NotStored}
        BY <1>3 DEF DiscoverComponentChassis, Discovered
    <2>2. race.swept # "listed"
        BY <1>3 DEF DiscoverComponentChassis, MapsInv, RiverInv
    <2>3. \A c \in Discovered : stored[c].class = "River" => c \in chassis'.ids
        <3>1. NotStored.class # "River"
            BY DEF NotStored
        <3> QED BY <2>1, <3>1
    <2>4. Shape' /\ RolesInv'
        BY <1>1, <1>2, <2>1 DEF MapsInv, Shape, RolesInv, From, IsRow
    <2>5. RiverInv'
        BY <1>1, <1>2, <1>3, <2>1, <2>2, <2>3 DEF MapsInv, RiverInv
    <2> QED BY <1>1, <2>4, <2>5 DEF MapsInv, PowerOK, NidsDistinct
<1>4. CASE UpdateClassOfChassis
    <2>1. /\ chassis' = NotListed
          /\ stored' = [c \in Discovered |->
                           IF c \in chassis.ids /\ stored[c] # NotStored
                           THEN [stored[c] EXCEPT !.class = "Mountain"] ELSE stored[c]]
        BY <1>4 DEF UpdateClassOfChassis, Discovered
    <2>2. ASSUME NEW c \in Discovered
          PROVE  /\ IsRow(stored'[c])
                 /\ stored'[c].role = stored[c].role /\ stored'[c].sub = stored[c].sub
                 /\ stored'[c] # NotStored => stored[c] # NotStored
                 /\ stored'[c].class = "River" => c \notin chassis.ids /\ stored[c].class = "River"
        <3>1. IsRow(stored[c])
            BY DEF MapsInv, Shape
        <3>2. CASE c \in chassis.ids /\ stored[c] # NotStored
            <4>1. stored'[c] = [nid |-> stored[c].nid, role |-> stored[c].role,
                                sub |-> stored[c].sub, class |-> "Mountain"]
                BY <2>1, <3>1, <3>2 DEF IsRow
            <4> QED BY <3>2, <4>1 DEF IsRow
        <3>3. CASE c \notin chassis.ids \/ stored[c] = NotStored
            <4>1. NotStored.class # "River"
                BY DEF NotStored
            <4> QED BY <2>1, <3>1, <3>3, <4>1
        <3> QED BY <3>2, <3>3
    <2>3. Shape'
        <3>1. NotListed = [listed |-> NotListed.listed, ids |-> NotListed.ids]
            BY DEF NotListed
        <3>2. stored' = [c \in Discovered |-> stored'[c]]
            BY <2>1
        <3> QED BY <1>1, <1>2, <2>1, <2>2, <3>1, <3>2 DEF MapsInv, Shape, IsRow
    <2>4. RolesInv'
        BY <1>1, <2>2 DEF MapsInv, RolesInv, From, Discovered
    <2>5. RiverInv'
        <3>1. race'.overlap = race.overlap /\ race'.raced = race.raced /\ race'.swept # "listed"
            BY <1>2, <1>4 DEF MapsInv, RiverInv
        <3>2. race'.swept = "yes" => race.swept \in {"listed", "yes"}
            BY <1>2, <1>4 DEF MapsInv, RiverInv
        <3>3. race'.swept \in {"no", "yes"} /\ (~chassisEP => race'.swept = "no")
            BY <1>2, <1>4 DEF MapsInv, RiverInv
        <3> QED BY <1>1, <2>2, <3>1, <3>2, <3>3 DEF MapsInv, RiverInv
    <2> QED BY <1>1, <2>3, <2>4, <2>5 DEF MapsInv, PowerOK, NidsDistinct
<1> QED BY <1>3, <1>4

LEMMA EndpointInv ==
    ASSUME MapsInv, InsertChassisEndpoint \/ DeleteChassisEndpoint
    PROVE  MapsInv'
<1>1. UNCHANGED <<nodeMaps, powerMaps, chassis, found, stored>>
    BY DEF InsertChassisEndpoint, DeleteChassisEndpoint
<1>2. PICK overlap : /\ race' = [swept |-> "no", overlap |-> overlap, raced |-> {}]
                     /\ chassisEP' => \A c \in Discovered :
                            found[c].row.class = "River" => c \in overlap
    <2>1. CASE InsertChassisEndpoint
        <3> DEFINE over == {c \in Discovered : found[c].row.class = "River"}
        <3>1. race' = [NoRace EXCEPT !.overlap = over]
            BY <2>1 DEF InsertChassisEndpoint, Discovered
        <3>2. \A c \in Discovered : found[c].row.class = "River" => c \in over
            OBVIOUS
        <3> HIDE DEF over
        <3> QED BY <3>1, <3>2 DEF NoRace
    <2>2. CASE DeleteChassisEndpoint
        BY <2>2 DEF DeleteChassisEndpoint, NoRace
    <2> QED BY <2>1, <2>2
<1>3. Shape' /\ RolesInv'
    BY <1>1, <1>2 DEF MapsInv, Shape, RolesInv, From, IsRow
<1>4. RiverInv'
    BY <1>1, <1>2 DEF MapsInv, RiverInv
<1> QED BY <1>1, <1>3, <1>4 DEF MapsInv, PowerOK, NidsDistinct

LEMMA DeleteDiscoveredInv ==
    ASSUME MapsInv, DeleteDiscovered
    PROVE  MapsInv'
<1>1. UNCHANGED <<nodeMaps, powerMaps, chassisEP, chassis, found, race>>
    BY DEF DeleteDiscovered
<1>2. /\ stored' = [c \in Discovered |-> stored'[c]]
      /\ \A c \in Discovered : stored'[c] = stored[c] \/ stored'[c] = NotStored
    BY DEF DeleteDiscovered, MapsInv, Shape
<1>3. IsRow(NotStored) /\ NotStored.class # "River"
    BY DEF NotStored, IsRow
<1>4. Shape'
    BY <1>1, <1>2, <1>3 DEF MapsInv, Shape, IsRow
<1>5. RolesInv'
    BY <1>1, <1>2 DEF MapsInv, RolesInv, From, Discovered
<1>6. RiverInv'
    BY <1>1, <1>2, <1>3 DEF MapsInv, RiverInv
<1> QED BY <1>1, <1>4, <1>5, <1>6 DEF MapsInv, PowerOK, NidsDistinct

-----------------------------------------------------------------------------
(* The invariant, and what it says                                         *)

LEMMA MapsInvHolds == NMSpec => []MapsInv
<1>1. NMInit => MapsInv
    <2> SUFFICES ASSUME NMInit PROVE MapsInv
        OBVIOUS
    <2>1. /\ IsRow(NotStored) /\ NotStored.class # "River"
          /\ NotFound = [at |-> NotFound.at, row |-> NotFound.row]
          /\ NotFound.at = "idle" /\ NotFound.row = NotStored /\ NoMap.role = ""
        BY DEF NotStored, NotFound, NoMap, IsRow
    <2>2. NotListed = [listed |-> NotListed.listed, ids |-> NotListed.ids]
        BY DEF NotListed
    <2>3. /\ NoRace = [swept |-> NoRace.swept, overlap |-> NoRace.overlap, raced |-> NoRace.raced]
          /\ NoRace.swept = "no"
        BY DEF NoRace
    <2>4. Shape /\ PowerOK
        BY <2>1, <2>2, <2>3 DEF NMInit, Shape, PowerOK, Discovered
    <2>5. NidsDistinct(nodeMaps)
        BY DEF NMInit, NidsDistinct
    <2>6. RolesInv
        BY <2>1 DEF NMInit, RolesInv
    <2>7. RiverInv
        BY <2>1, <2>3 DEF NMInit, RiverInv, Discovered
    <2> QED BY <2>4, <2>5, <2>6, <2>7 DEF MapsInv
<1>2. MapsInv /\ [NMNext]_nmVars => MapsInv'
    <2> SUFFICES ASSUME MapsInv, [NMNext]_nmVars
                 PROVE  MapsInv'
        OBVIOUS
    <2>1. CASE doNodeMapsPost \/ doNodeMapPut \/ doNodeMapDelete \/ doNodeMapsDeleteAll
        BY <2>1, NodeMapsInv
    <2>2. CASE doPowerMapsPost \/ doPowerMapPut \/ doPowerMapDelete \/ doPowerMapsDeleteAll
        BY <2>2, PowerMapsInv
    <2>3. ASSUME NEW c \in Discovered,
                 \/ DiscoverComponentSystem(c) \/ DiscoverComponentManager(c)
                 \/ LookUpClass(c) \/ StoreDiscovered(c)
          PROVE  MapsInv'
        BY <2>3, DiscoverInv, StoreInv
    <2>4. CASE DiscoverComponentChassis \/ UpdateClassOfChassis
        BY <2>4, ChassisInv
    <2>5. CASE InsertChassisEndpoint \/ DeleteChassisEndpoint \/ DeleteDiscovered
        BY <2>5, EndpointInv, DeleteDiscoveredInv
    <2>6. CASE UNCHANGED nmVars
        BY <2>6 DEF nmVars, MapsInv, Shape, PowerOK, NidsDistinct, RolesInv, RiverInv, From, IsRow
    <2> QED BY <2>1, <2>2, <2>3, <2>4, <2>5, <2>6 DEF NMNext, Discovered
<1> QED BY <1>1, <1>2, PTL DEF NMSpec

\* No two nodes are mapped to one NID, and rows of power maps are rows that were given
\* (query-shared.go: InsertNodeMapTx, InsertPowerMapTx).
THEOREM MapsTypeCorrect == NMSpec => []NMTypeOK
<1>1. MapsInv => NMTypeOK
    BY DEF MapsInv, Shape, PowerOK, NMTypeOK, Discovered
<1> QED BY <1>1, MapsInvHolds, PTL

\* A component's role and sub-role were given together, whatever maps and answers of
\* SLS have changed between its discoveries (components.go:344-366).
THEOREM RolesTogetherHolds == NMSpec => []RolesTogether
<1>1. MapsInv => RolesTogether
    BY DEF MapsInv, RolesInv, From, RolesTogether
<1> QED BY <1>1, MapsInvHolds, PTL

\* After a discovery of a chassis, only a component whose own discovery overlapped the
\* insertion of the chassis' endpoint is River (components.go:96-99, 197-220).
THEOREM RiverByRaceOnlyHolds == NMSpec => []RiverByRaceOnly
<1>1. MapsInv => RiverByRaceOnly
    BY DEF MapsInv, RiverInv, RiverByRaceOnly, Discovered
<1> QED BY <1>1, MapsInvHolds, PTL

-----------------------------------------------------------------------------
(* Redfish events                                                          *)

Kinds  == {"ResourcePowerStateChanged", "SystemPower", "Alert"}
Names  == Xnames \cup DOMAIN SlotOf
Keys   == [by : {"uri", "children", "value"}, ep : Names, id : Names]
Powers == {"On", "Off", "none"}

EventMsgs ==
    [ep : Endpoints, of : Xnames, kind : Kinds, op : {"On", "Off", "unknown"},
     about : SUBSET Xnames, seq : Nat]
\* A task has these fields.
IsTask(j) ==
    /\ {"pc", "e", "key", "num", "tries", "synced", "todo", "ids", "list", "seen"} \subseteq DOMAIN j
    /\ j.pc \in {"look", "check", "sync", "update"}
    /\ j.e \in EventMsgs /\ j.key \in Keys
    /\ j.tries \in 0..2
    /\ j.todo \subseteq DOMAIN SlotOf
    /\ j.ids \subseteq Xnames

Readings == {NotRead} \cup [power : [Xnames -> Powers], late : SUBSET Xnames]

EventsTables ==
    /\ power \in [Xnames -> Powers]
    /\ reps \subseteq Endpoints /\ asked \subseteq Endpoints
    /\ ceps \subseteq Xnames
    /\ \A x \in ceps : EpOf[x] \in reps
    /\ hsm \in [Xnames -> {"On", "Off", "Empty", "none"}]
    /\ read \in [Endpoints -> Readings]
    /\ bus \in {"closed", "connected", "lost", "nil"}
    /\ smapCompEP \in [ids : SUBSET Xnames, syncNum : Nat]

\* An event is about what is fitted, and only an alert may leave the new power out.
Sound(e) == power[e.of] # "none" /\ (e.op = "unknown" => e.kind = "Alert")

TopicSound == sent \in Nat /\ topic \in Seq(EventMsgs) /\ \A i \in DOMAIN topic : Sound(topic[i])

Seeks(j) == j.pc \in {"look", "check", "sync"}

\* A lookup that has no other attempt, or whose next sync would come too late.
MustFind(j) ==
    \/ j.pc = "look" /\ (j.tries = 2 \/ (j.tries = 1 /\ j.synced))
    \/ j.pc = "check" /\ j.tries = 1 /\ smapCompEP.syncNum # j.num
    \/ j.pc = "sync" /\ j.tries = 2 /\ smapCompEP.syncNum # j.num

\* What a lookup has seen in the table is still there, and it is in the cache by the
\* time that the lookup depends on it.
SeenKept(j) ==
    /\ Seeks(j) => j.seen \subseteq Matches(ceps, j.key)
    /\ j.pc = "check" => j.tries # 2
    /\ j.pc = "sync" => j.tries # 0
    /\ MustFind(j) => j.seen \subseteq smapCompEP.ids

\* A task that goes to the update or collects children has a power to set.
HasOp(j) == j.pc = "update" \/ j.key.by = "children" => j.e.op # "unknown"

TaskOK(j)  == IsTask(j) /\ Sound(j.e) /\ HasOp(j) /\ SeenKept(j)
WorkersOK  == /\ worker = [w \in Workers |-> worker[w]]
              /\ \A w \in Workers : worker[w] = Resting \/ TaskOK(worker[w])

EventsInv == EventsTables /\ TopicSound /\ WorkersOK /\ missed = {}

LEMMA RestingIsNoTask == ~IsTask(Resting)
BY DEF Resting, IsTask

LEMMA EndpointsAreXnames ==
    /\ Endpoints \subseteq Xnames
    /\ \A ep \in Endpoints :
          HmsType[ep] \in {"ChassisBMC", "NodeBMC", "RouterBMC", "CabinetPDUController"}
    /\ \A x \in Xnames : EpOf[x] \in Endpoints
BY EndpointsAssumption DEF Endpoints

LEMMA REInitInv == REInit => EventsInv
<1> SUFFICES ASSUME REInit PROVE EventsInv
    OBVIOUS
<1>1. power \in [Xnames -> Powers]
    BY DEF REInit, Powers
<1>2. ceps \subseteq Xnames /\ asked \subseteq Endpoints /\ \A x \in ceps : power[x] # "none"
    <2>1. PICK new \in {{}} \cup {{ep} : ep \in reps} :
              /\ ceps = {x \in Xnames : power[x] # "none" /\ HasRow(x) /\ EpOf[x] \notin new}
              /\ asked = new
        BY DEF REInit
    <2> QED
        BY <2>1 DEF REInit
<1>3. \A x \in ceps : EpOf[x] \in reps
    <2>1. PICK fit \in Fits :
              power = [x \in Xnames |-> IF x \notin fit THEN "none"
                                        ELSE IF HmsType[x] \in Switched THEN "Off" ELSE "On"]
        BY DEF REInit
    <2>2. ASSUME NEW x \in ceps PROVE power[EpOf[x]] # "none"
        BY <1>2, <2>1, FitsAssumption, EndpointsAreXnames
    <2> QED
        BY <1>2, <2>2, EndpointsAreXnames DEF REInit
<1>4. hsm \in [Xnames -> {"On", "Off", "Empty", "none"}]
    BY <1>1 DEF REInit, Powers
<1>5. EventsTables
    BY <1>1, <1>2, <1>3, <1>4 DEF REInit, EventsTables, Readings, EmptySMap
<1>6. TopicSound
    BY DEF REInit, TopicSound
<1>7. WorkersOK
    BY DEF REInit, WorkersOK
<1> QED
    BY <1>5, <1>6, <1>7 DEF REInit, EventsInv

-----------------------------------------------------------------------------
(* What a worker goes on with                                              *)

LEMMA SeekOK ==
    ASSUME NEW j, IsTask(j), Sound(j.e), NEW key \in Keys,
           key.by = "children" => j.e.op # "unknown"
    PROVE  TaskOK(Seek(j, key)) /\ Seek(j, key).e = j.e /\ Seek(j, key).todo = j.todo
<1> DEFINE s == Seek(j, key)
<1>1. /\ IsTask(s) /\ s.e = j.e /\ s.key = key /\ s.todo = j.todo
      /\ s.pc = "look" /\ s.tries = 0 /\ s.seen = {}
    BY DEF IsTask, Seek
<1> HIDE DEF s
<1> QED
    BY <1>1 DEF TaskOK, HasOp, SeenKept, MustFind, Seeks, s

LEMMA ReadyOK ==
    ASSUME NEW j, IsTask(j), Sound(j.e), j.e.op # "unknown"
    PROVE  TaskOK(Ready(j)) /\ Ready(j).e = j.e
<1> DEFINE s == Ready(j)
<1>1. IsTask(s) /\ s.e = j.e /\ s.pc = "update"
    BY DEF IsTask, Ready
<1> HIDE DEF s
<1> QED
    BY <1>1 DEF TaskOK, HasOp, SeenKept, MustFind, Seeks, s

LEMMA KeysOK ==
    /\ \A e \in EventMsgs : getIDForURI(e) \in Keys /\ getIDForURI(e).by = "uri"
    /\ \A b \in DOMAIN SlotOf : getChildIDsForRfEP(b) \in Keys
    /\ \A x \in Xnames : getCompEPInfo(x) \in Keys /\ getCompEPInfo(x).by = "value"
BY EndpointsAreXnames DEF EventMsgs, Keys, Names, Key, getIDForURI, getChildIDsForRfEP, getCompEPInfo

LEMMA NextChildOK ==
    ASSUME NEW j, IsTask(j), Sound(j.e), j.e.op # "unknown"
    PROVE  TaskOK(NextChild(j))
<1>1. CASE j.todo = {}
    BY <1>1, ReadyOK DEF NextChild
<1>2. CASE j.todo # {}
    <2> DEFINE b == CHOOSE x \in j.todo : TRUE
               s == Seek(j, getChildIDsForRfEP(b))
               n == [s EXCEPT !.todo = j.todo \ {b}]
    <2>1. b \in DOMAIN SlotOf
        BY <1>2 DEF IsTask
    <2>2. getChildIDsForRfEP(b) \in Keys
        BY <2>1, KeysOK
    <2>3. TaskOK(s) /\ s.e = j.e
        BY <2>2, SeekOK
    <2>4. NextChild(j) = n
        BY <1>2 DEF NextChild
    <2>5. j.todo \subseteq DOMAIN SlotOf
        BY DEF IsTask
    <2> HIDE DEF s, b
    <2>6. /\ IsTask(n) /\ n.e = s.e /\ n.key = s.key /\ n.pc = s.pc /\ n.tries = s.tries
          /\ n.synced = s.synced /\ n.num = s.num /\ n.seen = s.seen
        BY <2>3, <2>5 DEF TaskOK, IsTask
    <2> HIDE DEF n
    <2>7. TaskOK(n)
        BY <2>3, <2>6 DEF TaskOK, HasOp, SeenKept, MustFind, Seeks
    <2> QED
        BY <2>4, <2>7
<1> QED
    BY <1>1, <1>2

LEMMA ParserOK ==
    ASSUME NEW j, IsTask(j), Sound(j.e)
    PROVE  TaskOK(GetEventActionParser(j))
<1>1. j.e \in EventMsgs /\ j.e.of \in Xnames /\ j.e.ep \in Endpoints
      /\ j.e.kind \in Kinds /\ j.e.op \in {"On", "Off", "unknown"}
    BY DEF IsTask, EventMsgs
<1>2. TaskOK(Seek(j, getCompEPInfo(j.e.of)))
    BY <1>1, KeysOK, SeekOK
<1>3. ASSUME j.e.kind # "Alert" PROVE TaskOK(Ready(j)) /\ j.e.op # "unknown"
    BY <1>3, ReadyOK DEF Sound
<1>4. CASE j.e.kind = "ResourcePowerStateChanged"
    <2>1. TaskOK(powerStateNC(j)) /\ TaskOK(powerStateRC(j)) /\ TaskOK(powerStateCabPDUController(j))
        BY <1>2, <1>3, <1>4 DEF powerStateNC, powerStateRC, powerStateCabPDUController
    <2>2. TaskOK(powerStateCMM(j))
        <3> DEFINE c == [j EXCEPT !.todo = {b \in DOMAIN SlotOf : SlotOf[b] = j.e.of}]
        <3>1. IsTask(c) /\ c.e = j.e
            BY DEF IsTask
        <3> HIDE DEF c
        <3>2. TaskOK(NextChild(c))
            BY <1>3, <1>4, <3>1, NextChildOK
        <3> QED
            BY <3>2 DEF powerStateCMM, c
    <2>3. GetEventActionParser(j) = ResourcePowerStateChangedParser(j)
        BY <1>4 DEF GetEventActionParser
    <2>4. HmsType[j.e.ep] \in {"ChassisBMC", "NodeBMC", "RouterBMC", "CabinetPDUController"}
        BY <1>1, EndpointsAreXnames
    <2> QED
        BY <2>1, <2>2, <2>3, <2>4 DEF ResourcePowerStateChangedParser
<1>5. CASE j.e.kind = "SystemPower"
    <2>1. j.e.op \in {"On", "Off"}
        BY <1>1, <1>3, <1>5
    <2>2. TaskOK(AlertSystemPowerOnParser(j)) /\ TaskOK(AlertSystemPowerOffParser(j))
        BY <1>2, <1>3, <1>5 DEF AlertSystemPowerOnParser, AlertSystemPowerOffParser
    <2> QED
        BY <1>5, <2>1, <2>2 DEF GetEventActionParser
<1>6. CASE j.e.kind = "Alert"
    <2>1. TaskOK(AlertSystemPowerParser(j))
        <3>1. CASE j.e.op = "Off"
            BY <3>1, ReadyOK DEF AlertSystemPowerParser
        <3>2. CASE j.e.op # "Off"
            BY <1>2, <3>2 DEF AlertSystemPowerParser
        <3> QED
            BY <3>1, <3>2
    <2> QED
        BY <1>6, <2>1 DEF GetEventActionParser
<1> QED
    BY <1>1, <1>4, <1>5, <1>6 DEF Kinds

LEMMA LookedOK ==
    ASSUME EventsInv, NEW w \in Workers, worker[w] # Resting, NEW R \in SUBSET Xnames, Looked(w, R)
    PROVE  /\ \E t : (t = Resting \/ TaskOK(t)) /\ worker' = [worker EXCEPT ![w] = t]
           /\ others' = others
<1> DEFINE j == worker[w]
           Goes(k) == worker' = [worker EXCEPT ![w] = k]
           reply == IF j.e.op = "On" THEN j.e.op ELSE getCompEPState(j)
           asked1 == [j EXCEPT !.e.op = IF @ = "On" THEN @ ELSE getCompEPState(j)]
<1>1. TaskOK(j)
    BY DEF EventsInv, WorkersOK
<1>2. IsTask(j) /\ Sound(j.e) /\ HasOp(j) /\ j.e.of \in Xnames /\ j.e \in EventMsgs
    BY <1>1 DEF TaskOK, IsTask, EventMsgs
<1>3. CASE Drop(w)
    BY <1>3 DEF Drop, Looked
<1>4. CASE j.key.by = "uri" /\ Goes(GetEventActionParser([j EXCEPT !.ids = R, !.list = R]))
    <2> DEFINE c == [j EXCEPT !.ids = R, !.list = R]
    <2>1. IsTask(c) /\ c.e = j.e
        BY <1>2 DEF IsTask
    <2> HIDE DEF c
    <2>2. TaskOK(GetEventActionParser(c))
        BY <1>2, <2>1, ParserOK
    <2> QED
        BY <1>4, <2>2 DEF c, Looked
<1>5. ASSUME j.key.by = "children", NEW add \in SUBSET Xnames,
             Goes(NextChild([j EXCEPT !.ids = @ \cup add, !.list = @ \cup R]))
      PROVE  \E t : TaskOK(t) /\ Goes(t)
    <2> DEFINE c == [j EXCEPT !.ids = @ \cup add, !.list = @ \cup R]
    <2>1. IsTask(c) /\ c.e = j.e
        BY <1>2 DEF IsTask
    <2> HIDE DEF c
    <2>2. TaskOK(NextChild(c))
        BY <1>2, <1>5, <2>1, NextChildOK DEF HasOp
    <2> QED
        BY <1>5, <2>2 DEF c
<1>6. CASE j.e.kind # "Alert" /\ Goes(Ready(j))
    <2>1. TaskOK(Ready(j))
        BY <1>2, <1>6, ReadyOK DEF Sound
    <2> QED
        BY <1>6, <2>1 DEF Looked
<1>7. CASE Goes(Ready(asked1))
    <2>1. reply \in {"On", "Off"}
        BY <1>2 DEF EventsInv, EventsTables, Powers, Sound, getCompEPState
    <2>2. IsTask(asked1) /\ asked1.e = [j.e EXCEPT !.op = reply]
        <3> DEFINE e2 == [j.e EXCEPT !.op = reply]
                   c  == [j EXCEPT !.e = e2]
        <3>1. asked1 = c
            BY <1>2 DEF IsTask
        <3>2. e2 \in EventMsgs
            BY <1>2, <2>1 DEF EventMsgs
        <3> HIDE DEF e2
        <3>3. IsTask(c) /\ c.e = e2
            BY <1>2, <3>2 DEF IsTask
        <3> QED
            BY <3>1, <3>3 DEF e2
    <2>3. asked1.e.op = reply /\ asked1.e.of = j.e.of
        BY <1>2, <2>2 DEF EventMsgs
    <2> HIDE DEF asked1, reply
    <2>4. Sound(asked1.e) /\ asked1.e.op # "unknown"
        BY <1>2, <2>1, <2>3 DEF Sound
    <2>5. TaskOK(Ready(asked1))
        BY <2>2, <2>4, ReadyOK
    <2> QED
        BY <1>7, <2>5 DEF Looked
<1>8. generateRcChildIDs(j.e.op, R) \subseteq Xnames /\ generateNcChildIDs(j.e.op, R) \subseteq Xnames
    BY DEF generateRcChildIDs, generateNcChildIDs
<1>9. CASE j.key.by = "children"
    <2>1. PICK add \in SUBSET Xnames : Goes(NextChild([j EXCEPT !.ids = @ \cup add, !.list = @ \cup R]))
        BY <1>8, <1>9 DEF Looked
    <2> QED
        BY <1>5, <1>9, <2>1 DEF Looked
<1>10. j.key.by # "children" =>
         \/ Drop(w)
         \/ j.key.by = "uri" /\ Goes(GetEventActionParser([j EXCEPT !.ids = R, !.list = R]))
         \/ j.e.kind # "Alert" /\ Goes(Ready(j))
         \/ Goes(Ready(asked1))
    BY DEF Looked
<1> QED
    BY <1>3, <1>4, <1>6, <1>7, <1>9, <1>10

\* A task is in order as long as the hardware stays fitted, the table keeps what it
\* has, and the cache is not touched.
LEMMA TaskKept ==
    ASSUME NEW j, TaskOK(j), \A x \in Xnames : power[x] # "none" => power'[x] # "none",
           ceps \subseteq ceps', smapCompEP' = smapCompEP
    PROVE  TaskOK(j)'
<1>1. IsTask(j) /\ j.e.of \in Xnames
    BY DEF TaskOK, IsTask, EventMsgs
<1>2. Sound(j.e)'
    BY <1>1 DEF TaskOK, Sound
<1>3. Matches(ceps, j.key) \subseteq Matches(ceps', j.key)
    BY DEF Matches
<1>4. SeenKept(j)'
    BY <1>3 DEF TaskOK, SeenKept, MustFind, Seeks, Matches
<1> QED
    BY <1>1, <1>2, <1>4 DEF TaskOK, HasOp, IsTask, Keys, EventMsgs

LEMMA WorkersKept ==
    ASSUME WorkersOK, worker' = worker,
           \A x \in Xnames : power[x] # "none" => power'[x] # "none",
           ceps \subseteq ceps', smapCompEP' = smapCompEP
    PROVE  WorkersOK'
<1>1. ASSUME NEW w \in Workers PROVE worker[w] = Resting \/ TaskOK(worker[w])'
    BY TaskKept DEF WorkersOK
<1> QED
    BY <1>1 DEF WorkersOK, TaskOK, IsTask, Sound, HasOp, SeenKept, MustFind, Seeks

\* One worker goes on, with the hardware, the table and the cache as they are.
LEMMA WorkerMoves ==
    ASSUME WorkersOK, NEW w \in Workers, NEW t, t = Resting \/ TaskOK(t),
           worker' = [worker EXCEPT ![w] = t],
           power' = power, ceps' = ceps, smapCompEP' = smapCompEP
    PROVE  WorkersOK'
<1>1. \A j : TaskOK(j) => TaskOK(j)'
    BY TaskKept
<1>2. worker' = [v \in Workers |-> IF v = w THEN t ELSE worker[v]]
    BY DEF WorkersOK
<1>3. \A v \in Workers : worker'[v] = Resting \/ TaskOK(worker'[v])
    BY <1>2 DEF WorkersOK
<1> QED
    BY <1>1, <1>2, <1>3 DEF WorkersOK, TaskOK, IsTask, Sound, HasOp, SeenKept, MustFind, Seeks, Matches

-----------------------------------------------------------------------------
(* The hardware, discovery and deletion                                    *)

Fitted == \A x \in Xnames : power[x] # "none" => power'[x] # "none"

LEMMA SendsKeeps ==
    ASSUME EventsInv, Fitted, NEW e \in Endpoints, NEW of \in Xnames, NEW kind \in Kinds,
           NEW op \in {"On", "Off", "unknown"}, op = "unknown" => kind = "Alert",
           power[of] # "none", NEW about \in SUBSET Xnames, Sends(e, of, kind, op, about)
    PROVE  TopicSound' /\ read' \in [Endpoints -> Readings]
<1> DEFINE m == [ep |-> e, of |-> of, kind |-> kind, op |-> op, about |-> about, seq |-> sent + 1]
<1>1. m \in EventMsgs /\ m.of = of /\ m.op = op /\ m.kind = kind
    BY DEF EventMsgs, EventsInv, TopicSound
<1>2. topic' = Append(topic, m) /\ sent' = sent + 1
    BY DEF Sends
<1> DEFINE StaysSound(f) == power'[f.of] # "none" /\ (f.op = "unknown" => f.kind = "Alert")
<1>3. StaysSound(m) /\ \A i \in DOMAIN topic : StaysSound(topic[i])
    <2>1. \A i \in DOMAIN topic : topic[i] \in EventMsgs
        BY DEF EventsInv, TopicSound
    <2>2. \A i \in DOMAIN topic : topic[i].of \in Xnames
        BY <2>1 DEF EventMsgs
    <2>3. power'[of] # "none" /\ \A i \in DOMAIN topic : power'[topic[i].of] # "none"
        BY <2>2 DEF Fitted, EventsInv, TopicSound, Sound
    <2> HIDE DEF m
    <2> QED
        BY <1>1, <2>3 DEF EventsInv, TopicSound, Sound
<1> HIDE DEF m
<1>4. topic' \in Seq(EventMsgs) /\ sent' \in Nat
    BY <1>1, <1>2 DEF EventsInv, TopicSound
<1>5. \A i \in DOMAIN topic' : topic'[i] = m \/ (i \in DOMAIN topic /\ topic'[i] = topic[i])
    BY <1>1, <1>2 DEF EventsInv, TopicSound
<1>6. TopicSound'
    BY <1>3, <1>4, <1>5 DEF TopicSound, Sound
<1>7. read' \in [Endpoints -> Readings]
    <2>1. ASSUME NEW e2 \in Endpoints, read[e2] # NotRead
          PROVE  [read[e2] EXCEPT !.late = @ \cup about] \in Readings
        <3>1. read[e2] \in [power : [Xnames -> Powers], late : SUBSET Xnames]
            BY <2>1 DEF EventsInv, EventsTables, Readings
        <3> QED
            BY <3>1 DEF Readings
    <2> QED
        BY <2>1 DEF Sends, Readings
<1> QED
    BY <1>6, <1>7

LEMMA NodePowerKeeps ==
    ASSUME EventsInv, NEW n \in Xnames, NodePower(n)
    PROVE  EventsInv'
<1> DEFINE new == IF power[n] = "On" THEN "Off" ELSE "On"
<1>1. power \in [Xnames -> Powers] /\ power' = [power EXCEPT ![n] = new]
    BY DEF NodePower, EventsInv, EventsTables
<1>2. Fitted /\ power' \in [Xnames -> Powers]
    BY <1>1 DEF Fitted, Powers
<1>3. PICK report \in Reports(n, new) : Sends(EpOf[n], n, report[1], report[2], {n})
    BY DEF NodePower
<1>4. report[1] \in Kinds /\ report[2] \in {"On", "Off", "unknown"}
      /\ (report[2] = "unknown" => report[1] = "Alert")
    <2> DEFINE all == {<<"ResourcePowerStateChanged", new>>, <<"SystemPower", new>>,
                       <<"Alert", new>>, <<"Alert", "unknown">>}
    <2>1. report \in all
        BY DEF Reports
    <2>2. new \in {"On", "Off"}
        OBVIOUS
    <2> HIDE DEF new
    <2> QED
        BY <2>1, <2>2 DEF Kinds
<1>5. EpOf[n] \in Endpoints /\ power[n] # "none"
    BY EndpointsAreXnames DEF NodePower
<1>6. TopicSound' /\ read' \in [Endpoints -> Readings]
    BY <1>2, <1>3, <1>4, <1>5, SendsKeeps
<1>7. WorkersOK'
    BY <1>2, WorkersKept DEF NodePower, Fitted, EventsInv
<1>8. EventsTables'
    BY <1>2, <1>6 DEF NodePower, EventsInv, EventsTables
<1> QED
    BY <1>6, <1>7, <1>8 DEF NodePower, EventsInv

LEMMA SlotPowerKeeps ==
    ASSUME EventsInv, NEW s \in Xnames, SlotPower(s)
    PROVE  EventsInv'
<1> DEFINE new   == IF power[s] = "On" THEN "Off" ELSE "On"
           bmcs  == {b \in DOMAIN SlotOf : SlotOf[b] = s}
           cards == bmcs \cup {x \in Xnames : EpOf[x] \in bmcs /\
                                  (HmsType[s] = "RouterModule" \/ HmsType[x] # "Node")}
           all   == {s} \cup {x \in Xnames : EpOf[x] \in bmcs /\ power[x] # "none"}
           about == IF new = "Off" THEN all ELSE all \cap ({s} \cup cards)
<1>1. /\ power' = [x \in Xnames |-> IF x \in about THEN new ELSE power[x]]
      /\ Sends(EpOf[s], s, "ResourcePowerStateChanged", new, about)
    BY DEF SlotPower
<1>2. about \in SUBSET Xnames /\ new \in {"On", "Off"}
    OBVIOUS
<1> HIDE DEF about, new
<1>3. power \in [Xnames -> Powers]
    BY DEF EventsInv, EventsTables
<1>4. Fitted /\ power' \in [Xnames -> Powers]
    BY <1>1, <1>2, <1>3 DEF Fitted, Powers
<1>5. EpOf[s] \in Endpoints /\ power[s] # "none"
    BY EndpointsAreXnames DEF SlotPower
<1>6. TopicSound' /\ read' \in [Endpoints -> Readings]
    BY <1>1, <1>2, <1>4, <1>5, SendsKeeps DEF Kinds
<1>7. WorkersOK'
    BY <1>4, WorkersKept DEF SlotPower, Fitted, EventsInv
<1>8. EventsTables'
    BY <1>4, <1>6 DEF SlotPower, EventsInv, EventsTables
<1> QED
    BY <1>6, <1>7, <1>8 DEF SlotPower, EventsInv

\* The events on the bus are as sound as they were.
LEMMA TopicKept ==
    ASSUME EventsInv, Fitted, topic' = topic, sent' = sent
    PROVE  TopicSound'
<1>1. \A i \in DOMAIN topic : topic[i] \in EventMsgs
    BY DEF EventsInv, TopicSound
<1>2. \A i \in DOMAIN topic : topic[i].of \in Xnames
    BY <1>1 DEF EventMsgs
<1> QED
    BY <1>2 DEF Fitted, EventsInv, TopicSound, Sound

LEMMA FitKeeps ==
    ASSUME EventsInv, NEW x \in Xnames, Fit(x)
    PROVE  EventsInv'
<1>1. Fitted /\ power' \in [Xnames -> Powers]
    BY DEF Fit, Fitted, EventsInv, EventsTables, Powers
<1>2. TopicSound'
    BY <1>1, TopicKept DEF Fit
<1>3. WorkersOK'
    BY <1>1, WorkersKept DEF Fit, Fitted, EventsInv
<1> QED
    BY <1>1, <1>2, <1>3 DEF Fit, EventsInv, EventsTables

LEMMA DiscoverInventoryKeeps ==
    ASSUME EventsInv, NEW ep \in Endpoints, DiscoverInventory(ep)
    PROVE  EventsInv'
<1>1. TopicSound'
    BY TopicKept DEF DiscoverInventory, Fitted
<1>2. WorkersOK'
    BY WorkersKept DEF DiscoverInventory, EventsInv
<1> QED
    BY <1>1, <1>2 DEF DiscoverInventory, EventsInv, EventsTables

LEMMA GetRootInfoKeeps ==
    ASSUME EventsInv, NEW ep \in Endpoints, GetRootInfo(ep)
    PROVE  EventsInv'
<1>1. TopicSound'
    BY TopicKept DEF GetRootInfo, Fitted
<1>2. WorkersOK'
    BY WorkersKept DEF GetRootInfo, EventsInv
<1>3. [power |-> power, late |-> {}] \in Readings
    BY DEF EventsInv, EventsTables, Readings
<1>4. read' \in [Endpoints -> Readings]
    BY <1>3 DEF GetRootInfo, EventsInv, EventsTables
<1> QED
    BY <1>1, <1>2, <1>4 DEF GetRootInfo, EventsInv, EventsTables

LEMMA UpdateAllKeeps ==
    ASSUME EventsInv, NEW ep \in Endpoints, UpdateAllForRFEndpoint(ep)
    PROVE  EventsInv'
<1> DEFINE ids == {x \in Of(ep) : read[ep].power[x] # "none" /\ HasRow(x)}
<1>1. TopicSound'
    BY TopicKept DEF UpdateAllForRFEndpoint, Fitted
<1>2. read' \in [Endpoints -> Readings]
    BY DEF UpdateAllForRFEndpoint, EventsInv, EventsTables, Readings
<1>3. CASE ep \in reps
    <2>1. /\ ceps' = ceps \cup ids
          /\ hsm' = [x \in Xnames |-> IF x \in ids THEN read[ep].power[x] ELSE hsm[x]]
        BY <1>3 DEF UpdateAllForRFEndpoint
    <2>2. ids \subseteq Xnames /\ \A x \in ids : EpOf[x] = ep
        BY DEF Of
    <2>3. \A x \in ids : read[ep].power[x] \in {"On", "Off"}
        <3>1. read[ep] \in [power : [Xnames -> Powers], late : SUBSET Xnames]
            BY DEF UpdateAllForRFEndpoint, EventsInv, EventsTables, Readings
        <3>2. read[ep].power \in [Xnames -> Powers]
            BY <3>1
        <3> QED
            BY <2>2, <3>2 DEF Powers
    <2> HIDE DEF ids
    <2>4. hsm' \in [Xnames -> {"On", "Off", "Empty", "none"}]
        BY <2>1, <2>3 DEF EventsInv, EventsTables
    <2>5. ceps' \subseteq Xnames /\ ceps \subseteq ceps' /\ \A x \in ceps' : EpOf[x] \in reps
        BY <1>3, <2>1, <2>2 DEF EventsInv, EventsTables
    <2>6. WorkersOK'
        BY <2>5, WorkersKept DEF UpdateAllForRFEndpoint, EventsInv
    <2> QED
        BY <1>1, <1>2, <2>4, <2>5, <2>6 DEF UpdateAllForRFEndpoint, EventsInv, EventsTables
<1>4. CASE ep \notin reps
    <2>1. ceps' = ceps /\ hsm' = hsm
        BY <1>4 DEF UpdateAllForRFEndpoint
    <2>2. WorkersOK'
        BY <2>1, WorkersKept DEF UpdateAllForRFEndpoint, EventsInv
    <2> QED
        BY <1>1, <1>2, <2>1, <2>2 DEF UpdateAllForRFEndpoint, EventsInv, EventsTables
<1> QED
    BY <1>3, <1>4

\* A delete takes from the table what it takes from what lookups have seen.
LEMMA DeleteKeeps ==
    ASSUME EventsInv, NEW ep \in Endpoints, DeleteRFEndpointByID(ep)
    PROVE  EventsInv'
<1>1. TopicSound'
    BY TopicKept DEF DeleteRFEndpointByID, Fitted
<1>2. EventsTables'
    <2>1. ceps' \subseteq Xnames /\ \A x \in ceps' : EpOf[x] \in reps'
        BY DEF DeleteRFEndpointByID, EventsInv, EventsTables, Of
    <2>2. hsm' \in [Xnames -> {"On", "Off", "Empty", "none"}]
        BY DEF DeleteRFEndpointByID, EventsInv, EventsTables
    <2> QED
        BY <2>1, <2>2 DEF DeleteRFEndpointByID, EventsInv, EventsTables
<1>3. ASSUME NEW w \in Workers PROVE worker'[w] = Resting \/ TaskOK(worker[w])'
    <2>1. worker'[w] = IF worker[w] # Resting THEN [worker[w] EXCEPT !.seen = @ \ Of(ep)] ELSE Resting
        BY DEF DeleteRFEndpointByID, Working
    <2>2. CASE worker[w] = Resting
        BY <2>1, <2>2
    <2>3. CASE worker[w] # Resting
        <3>1. PICK j : j = worker[w]
            OBVIOUS
        <3>2. PICK c : c = [j EXCEPT !.seen = @ \ Of(ep)]
            OBVIOUS
        <3>3. IsTask(j) /\ Sound(j.e) /\ HasOp(j) /\ SeenKept(j)
            BY <2>3, <3>1 DEF EventsInv, WorkersOK, TaskOK
        <3>4. /\ IsTask(c) /\ c.e = j.e /\ c.key = j.key /\ c.pc = j.pc /\ c.tries = j.tries
              /\ c.synced = j.synced /\ c.num = j.num /\ c.seen = j.seen \ Of(ep)
            BY <3>2, <3>3 DEF IsTask
        <3>5. ceps' = ceps \ Of(ep) /\ smapCompEP' = smapCompEP /\ power' = power
            BY DEF DeleteRFEndpointByID
        <3>6. Sound(c.e)' /\ HasOp(c)'
            BY <3>3, <3>4, <3>5 DEF Sound, HasOp
        <3>7. SeenKept(c)'
            BY <3>3, <3>4, <3>5 DEF SeenKept, MustFind, Seeks, Matches
        <3>8. TaskOK(c)'
            BY <3>4, <3>6, <3>7 DEF TaskOK, IsTask
        <3>9. worker'[w] = c
            BY <2>1, <2>3, <3>1, <3>2
        <3> QED
            BY <3>8, <3>9 DEF TaskOK, IsTask, Sound, HasOp, SeenKept, MustFind, Seeks, Matches
    <2> QED
        BY <2>2, <2>3
<1>4. WorkersOK'
    <2>1. worker' = [w \in Workers |-> worker'[w]]
        BY DEF DeleteRFEndpointByID
    <2> QED
        BY <1>3, <2>1 DEF WorkersOK
<1> QED
    BY <1>1, <1>2, <1>4 DEF DeleteRFEndpointByID, EventsInv

-----------------------------------------------------------------------------
(* Workers                                                                 *)

\* The steps of a worker that leave the hardware, the tables and the cache alone.
LEMMA OnlyWorkers ==
    ASSUME EventsInv, UNCHANGED <<Unmoved, smapCompEP>>, WorkersOK', missed' = missed
    PROVE  EventsInv'
<1>1. TopicSound'
    BY TopicKept DEF Unmoved, Fitted
<1> QED
    BY <1>1 DEF Unmoved, EventsInv, EventsTables

LEMMA MonitorKeeps ==
    ASSUME EventsInv, NEW w \in Workers, rfEventMonitor(w)
    PROVE  EventsInv'
<1> DEFINE e == Head(topic)
           t == Start(e, getIDForURI(e))
<1>1. e \in EventMsgs /\ Sound(e)
    <2>1. topic \in Seq(EventMsgs) /\ topic # <<>> /\ \A i \in DOMAIN topic : Sound(topic[i])
        BY DEF rfEventMonitor, EventsInv, TopicSound
    <2>2. 1 \in DOMAIN topic /\ Head(topic) = topic[1]
        BY <2>1
    <2> QED
        BY <2>1, <2>2
<1>2. TaskOK(t)
    <2>1. getIDForURI(e) \in Keys /\ getIDForURI(e).by = "uri"
        BY <1>1, KeysOK
    <2> HIDE DEF e
    <2>2. IsTask(t) /\ t.e = e /\ t.key = getIDForURI(e) /\ t.pc = "look" /\ t.tries = 0 /\ t.seen = {}
        BY <1>1, <2>1 DEF IsTask, Start
    <2> HIDE DEF t
    <2> QED
        BY <1>1, <2>1, <2>2 DEF TaskOK, HasOp, SeenKept, MustFind, Seeks
<1>3. WorkersOK'
    <2>1. worker' = [worker EXCEPT ![w] = t]
        BY DEF rfEventMonitor
    <2> HIDE DEF t
    <2> QED
        BY <1>2, <2>1, WorkerMoves DEF rfEventMonitor, EventsInv
<1>4. TopicSound'
    <2>1. topic \in Seq(EventMsgs) /\ topic # <<>> /\ topic' = Tail(topic)
        BY DEF rfEventMonitor, EventsInv, TopicSound
    <2>2. topic' \in Seq(EventMsgs) /\ \A i \in DOMAIN topic' : i + 1 \in DOMAIN topic /\ topic'[i] = topic[i + 1]
        BY <2>1
    <2> QED
        BY <2>2 DEF rfEventMonitor, EventsInv, TopicSound, Sound
<1> QED
    BY <1>3, <1>4 DEF rfEventMonitor, EventsInv, EventsTables

\* A lookup that has no attempt left has found what it saw: the cache has it.
LEMMA LookKeeps ==
    ASSUME EventsInv, NEW w \in Workers, Look(w)
    PROVE  EventsInv'
<1> DEFINE j == worker[w]
           R == Lookup(j.key)
<1>1. TaskOK(j) /\ j # Resting /\ j.pc = "look"
    BY DEF Look, Working, EventsInv, WorkersOK
<1>2. R = Matches(smapCompEP.ids, j.key) /\ R \subseteq Xnames
    BY DEF Lookup, LookupKey, LookupValue, Matches, EventsInv, EventsTables
<1>3. IsTask(j) /\ Sound(j.e) /\ HasOp(j) /\ SeenKept(j)
    BY <1>1 DEF TaskOK
<1>4. CASE R = {} /\ (j.tries = 0 \/ (j.tries = 1 /\ ~j.synced))
    <2> DEFINE t == [j EXCEPT !.pc = "check", !.num = smapCompEP.syncNum]
    <2>1. worker' = [worker EXCEPT ![w].pc = "check", ![w].num = smapCompEP.syncNum]
          /\ missed' = missed
        BY <1>4 DEF Look
    <2>2. worker' = [worker EXCEPT ![w] = t]
        BY <2>1 DEF EventsInv, WorkersOK
    <2>3. /\ IsTask(t) /\ t.e = j.e /\ t.key = j.key /\ t.pc = "check" /\ t.tries = j.tries
          /\ t.num = smapCompEP.syncNum /\ t.seen = j.seen
        BY <1>3 DEF IsTask
    <2> HIDE DEF t
    <2>4. TaskOK(t)
        BY <1>1, <1>3, <1>4, <2>3 DEF TaskOK, HasOp, SeenKept, MustFind, Seeks
    <2> QED
        BY <2>1, <2>2, <2>4, WorkerMoves, OnlyWorkers DEF Look, Unmoved, EventsInv
<1>5. CASE ~(R = {} /\ (j.tries = 0 \/ (j.tries = 1 /\ ~j.synced)))
    <2>1. Looked(w, R) /\ missed' = IF R = {} THEN missed \cup j.seen ELSE missed
        BY <1>5 DEF Look
    <2>2. ASSUME R = {} PROVE j.seen = {}
        <3>1. j.tries \in 0..2
            BY <1>3 DEF IsTask
        <3>2. MustFind(j)
            BY <1>1, <1>5, <2>2, <3>1 DEF MustFind
        <3>3. j.seen \subseteq smapCompEP.ids /\ j.seen \subseteq Matches(ceps, j.key)
            BY <1>1, <1>3, <3>2 DEF SeenKept, Seeks
        <3>4. j.seen \subseteq Matches(smapCompEP.ids, j.key)
            BY <3>3 DEF Matches
        <3> QED
            BY <1>2, <2>2, <3>4
    <2>3. missed' = missed
        BY <2>1, <2>2
    <2> HIDE DEF R
    <2>4. PICK t : (t = Resting \/ TaskOK(t)) /\ worker' = [worker EXCEPT ![w] = t]
        BY <1>1, <1>2, <2>1, LookedOK
    <2>5. WorkersOK'
        BY <2>4, WorkerMoves DEF Look, Unmoved, EventsInv
    <2> QED
        BY <2>3, <2>5, OnlyWorkers DEF Look
<1> QED
    BY <1>4, <1>5

LEMMA CheckKeeps ==
    ASSUME EventsInv, NEW w \in Workers, checkSyncCompEP(w)
    PROVE  EventsInv'
<1> DEFINE j == worker[w]
<1>1. TaskOK(j) /\ j # Resting /\ j.pc = "check"
    BY DEF checkSyncCompEP, Working, EventsInv, WorkersOK
<1>2. IsTask(j) /\ Sound(j.e) /\ HasOp(j) /\ SeenKept(j)
    BY <1>1 DEF TaskOK
<1>3. \E t : (t = Resting \/ TaskOK(t)) /\ worker' = [worker EXCEPT ![w] = t]
    <2>1. CASE IsThere(j.key) /\ worker' = [worker EXCEPT ![w].pc = "sync", ![w].tries = @ + 1,
                           ![w].seen = IF j.tries = 0 THEN Matches(ceps, j.key) ELSE @]
        <3> DEFINE seen == IF j.tries = 0 THEN Matches(ceps, j.key) ELSE j.seen
                   t    == [j EXCEPT !.pc = "sync", !.tries = j.tries + 1, !.seen = seen]
        <3>1. worker' = [worker EXCEPT ![w] = t]
            BY <2>1 DEF EventsInv, WorkersOK
        <3>2. j.tries \in {0, 1}
            BY <1>1, <1>2 DEF IsTask, SeenKept
        <3> HIDE DEF seen
        <3>3. /\ IsTask(t) /\ t.e = j.e /\ t.key = j.key /\ t.pc = "sync" /\ t.tries = j.tries + 1
              /\ t.num = j.num /\ t.seen = seen
            BY <1>2, <3>2 DEF IsTask
        <3> HIDE DEF t
        <3>4. SeenKept(t)
            <4>1. CASE j.tries = 0
                BY <3>3, <4>1 DEF seen, SeenKept, MustFind, Seeks
            <4>2. CASE j.tries = 1
                BY <1>1, <1>2, <3>3, <4>2 DEF seen, SeenKept, MustFind, Seeks
            <4> QED
                BY <3>2, <4>1, <4>2
        <3> QED
            BY <1>2, <3>1, <3>3, <3>4 DEF TaskOK, HasOp
    <2>2. CASE Looked(w, {})
        BY <1>1, <2>2, LookedOK
    <2>3. CASE Drop(w)
        BY <2>3 DEF Drop
    <2> QED
        BY <2>1, <2>2, <2>3 DEF checkSyncCompEP
<1>4. WorkersOK'
    BY <1>3, WorkerMoves DEF checkSyncCompEP, Unmoved, EventsInv
<1> QED
    BY <1>4, OnlyWorkers DEF checkSyncCompEP

\* A sync puts the table into the cache for all who wait, or somebody else has done
\* so since this worker looked.
LEMMA SyncKeeps ==
    ASSUME EventsInv, NEW w \in Workers, Sync(w)
    PROVE  EventsInv'
<1> DEFINE num == worker[w].num
           ok  == smapCompEP.syncNum = num
<1>1. TaskOK(worker[w]) /\ worker[w].pc = "sync"
    BY DEF Sync, Working, EventsInv, WorkersOK
<1>2. /\ smapCompEP' = IF ok THEN [ids |-> ceps, syncNum |-> num + 1] ELSE smapCompEP
      /\ worker' = [worker EXCEPT ![w].pc = "look", ![w].synced = ok]
    BY DEF Sync, TrySync
<1>3. smapCompEP' \in [ids : SUBSET Xnames, syncNum : Nat]
    BY <1>2 DEF EventsInv, EventsTables
<1>4. /\ ~ok => smapCompEP' = smapCompEP
      /\ ok => smapCompEP'.ids = ceps /\ smapCompEP'.syncNum = smapCompEP.syncNum + 1
    BY <1>2
<1>5. smapCompEP.syncNum \in Nat /\ power' = power /\ ceps' = ceps
    BY DEF EventsInv, EventsTables, Sync, Unmoved
<1>6. ASSUME NEW j, TaskOK(j) PROVE TaskOK(j)'
    <2>1. CASE ~ok
        BY <1>4, <1>5, <1>6, <2>1, TaskKept
    <2>2. CASE ok
        <3>1. IsTask(j)' /\ Sound(j.e)' /\ HasOp(j)'
            BY <1>5, <1>6 DEF TaskOK, IsTask, Sound, HasOp
        <3>2. Seeks(j) => j.seen \subseteq ceps
            BY <1>6 DEF TaskOK, SeenKept, Matches
        <3>3. MustFind(j)' => Seeks(j)
            BY DEF MustFind, Seeks
        <3>4. SeenKept(j)'
            BY <1>4, <1>5, <1>6, <2>2, <3>2, <3>3 DEF TaskOK, SeenKept, Seeks, Matches
        <3> QED
            BY <3>1, <3>4 DEF TaskOK
    <2> QED
        BY <2>1, <2>2
<1>7. ASSUME NEW v \in Workers PROVE worker'[v] = Resting \/ TaskOK(worker[v])'
    <2>1. CASE v # w
        <3>1. worker'[v] = worker[v]
            BY <1>2, <2>1 DEF EventsInv, WorkersOK
        <3>2. PICK j : j = worker[v]
            OBVIOUS
        <3>3. j = Resting \/ TaskOK(j)'
            BY <1>6, <3>2 DEF EventsInv, WorkersOK
        <3> QED
            BY <3>1, <3>2, <3>3 DEF TaskOK, IsTask, Sound, HasOp, SeenKept, MustFind, Seeks
    <2>2. CASE v = w
        <3>1. PICK j : j = worker[w]
            OBVIOUS
        <3>2. PICK t : t = [j EXCEPT !.pc = "look", !.synced = ok]
            OBVIOUS
        <3>3. worker'[w] = t
            BY <1>2, <3>1, <3>2 DEF EventsInv, WorkersOK
        <3>4. TaskOK(j)' /\ TaskOK(j) /\ j.pc = "sync"
            BY <1>1, <1>6, <3>1
        <3>5. /\ IsTask(t) /\ t.e = j.e /\ t.key = j.key /\ t.pc = "look" /\ t.tries = j.tries
              /\ t.synced = ok /\ t.seen = j.seen
            BY <3>2, <3>4 DEF TaskOK, IsTask
        <3>6. Sound(t.e)' /\ HasOp(t)'
            BY <3>4, <3>5 DEF TaskOK, Sound, HasOp
        <3>7. j.seen \subseteq Matches(ceps, j.key) /\ j.tries \in {1, 2}
            BY <3>4 DEF TaskOK, IsTask, SeenKept, Seeks
        <3>8. j.tries = 2 \/ ok => j.seen \subseteq smapCompEP'.ids
            <4>1. CASE ok
                BY <1>4, <3>7, <4>1 DEF Matches
            <4>2. CASE ~ok /\ j.tries = 2
                <5>1. MustFind(j)
                    BY <3>1, <3>4, <4>2 DEF MustFind
                <5> QED
                    BY <1>4, <3>4, <4>2, <5>1 DEF TaskOK, SeenKept
            <4> QED
                BY <4>1, <4>2
        <3>9. SeenKept(t)'
            BY <1>5, <3>5, <3>7, <3>8 DEF SeenKept, MustFind, Seeks, Matches
        <3>10. TaskOK(t)'
            BY <3>5, <3>6, <3>9 DEF TaskOK, IsTask
        <3> QED
            BY <2>2, <3>3, <3>10 DEF TaskOK, IsTask, Sound, HasOp, SeenKept, MustFind, Seeks
    <2> QED
        BY <2>1, <2>2
<1>8. WorkersOK'
    <2>1. worker' = [v \in Workers |-> worker'[v]]
        BY <1>2 DEF EventsInv, WorkersOK
    <2> QED
        BY <1>7, <2>1 DEF WorkersOK
<1>9. TopicSound'
    BY TopicKept DEF Sync, Unmoved, Fitted
<1> QED
    BY <1>3, <1>8, <1>9 DEF Sync, Unmoved, EventsInv, EventsTables

LEMMA UpdateKeeps ==
    ASSUME EventsInv, NEW w \in Workers, doCompUpdate(w)
    PROVE  EventsInv'
<1> DEFINE j == worker[w]
<1>1. TaskOK(j) /\ j.pc = "update"
    BY DEF doCompUpdate, Working, EventsInv, WorkersOK
<1>2. j.e.op \in {"On", "Off"} /\ j.ids \subseteq Xnames
    BY <1>1 DEF TaskOK, HasOp, IsTask, EventMsgs
<1>3. hsm' \in [Xnames -> {"On", "Off", "Empty", "none"}]
    BY <1>2 DEF doCompUpdate, EventUpdate, EventsInv, EventsTables
<1>4. asked' \subseteq Endpoints
    BY DEF doCompUpdate, EventsInv, EventsTables
<1>5. WorkersOK'
    <2>1. worker' = [worker EXCEPT ![w] = Resting]
        BY DEF doCompUpdate
    <2> QED
        BY <2>1, WorkerMoves DEF doCompUpdate, EventsInv
<1>6. TopicSound'
    BY TopicKept DEF doCompUpdate, Fitted
<1> QED
    BY <1>3, <1>4, <1>5, <1>6 DEF doCompUpdate, EventsInv, EventsTables

LEMMA BusKeeps ==
    ASSUME EventsInv, MsgBusReadFails \/ MsgBusReconnect
    PROVE  EventsInv'
<1>1. TopicSound'
    BY TopicKept DEF MsgBusReadFails, MsgBusReconnect, Fitted
<1>2. WorkersOK'
    BY WorkersKept DEF MsgBusReadFails, MsgBusReconnect, EventsInv
<1> QED
    BY <1>1, <1>2 DEF MsgBusReadFails, MsgBusReconnect, EventsInv, EventsTables

LEMMA RestartKeeps ==
    ASSUME EventsInv, Restart
    PROVE  EventsInv'
<1>1. TopicSound'
    BY TopicKept DEF Restart, Fitted
<1>2. WorkersOK'
    BY DEF Restart, WorkersOK
<1> QED
    BY <1>1, <1>2 DEF Restart, EventsInv, EventsTables, EmptySMap, Readings

LEMMA RENextKeeps == EventsInv /\ [RENext]_reVars => EventsInv'
<1> SUFFICES ASSUME EventsInv, [RENext]_reVars PROVE EventsInv'
    OBVIOUS
<1>1. CASE \E x \in Xnames : NodePower(x) \/ SlotPower(x) \/ Fit(x)
    BY <1>1, NodePowerKeeps, SlotPowerKeeps, FitKeeps
<1>2. CASE \E ep \in Endpoints : DiscoverInventory(ep) \/ GetRootInfo(ep)
    BY <1>2, DiscoverInventoryKeeps, GetRootInfoKeeps
<1>3. CASE \E ep \in Endpoints : UpdateAllForRFEndpoint(ep) \/ DeleteRFEndpointByID(ep)
    BY <1>3, UpdateAllKeeps, DeleteKeeps
<1>4. CASE \E w \in Workers : REStep(w)
    BY <1>4, MonitorKeeps, LookKeeps, CheckKeeps, SyncKeeps, UpdateKeeps DEF REStep
<1>5. CASE MsgBusReadFails \/ MsgBusReconnect \/ Restart
    BY <1>5, BusKeeps, RestartKeeps
<1>6. CASE UNCHANGED reVars
    <2>1. TopicSound'
        BY <1>6, TopicKept DEF reVars, Fitted
    <2>2. WorkersOK'
        BY <1>6, WorkersKept DEF reVars, EventsInv
    <2> QED
        BY <1>6, <2>1, <2>2 DEF reVars, EventsInv, EventsTables
<1> QED
    BY <1>1, <1>2, <1>3, <1>4, <1>5, <1>6 DEF RENext

\* A component that a lookup saw in the table is not missed, unless it is deleted
\* meanwhile, however many workers look up, sync and are overtaken by others' syncs at
\* the same time: two attempts are enough (rfevent.go:1029-1041, 1163-1211).
THEOREM KnownIsFoundHolds == RESpec => []KnownIsFound
<1>1. EventsInv => KnownIsFound
    BY DEF EventsInv, KnownIsFound
<1> QED
    BY <1>1, REInitInv, RENextKeeps, PTL DEF RESpec

\* Of component endpoints there are only those of registered endpoints, and no update
\* sets a component to the power that an alert has left out.
THEOREM RETypeOKHolds == RESpec => []RETypeOK
<1>1. EventsInv => RETypeOK
    <2> SUFFICES ASSUME EventsInv PROVE RETypeOK
        OBVIOUS
    <2>1. ASSUME NEW w \in Working
          PROVE  worker[w].pc \in {"look", "check", "sync", "update"} /\ worker[w].tries \in 0..2
        BY <2>1 DEF Working, EventsInv, WorkersOK, TaskOK, IsTask
    <2>2. \A ep \in Endpoints : read[ep] = NotRead \/ read[ep].late \subseteq Xnames
        BY DEF EventsInv, EventsTables, Readings
    <2> QED
        BY <2>1, <2>2 DEF RETypeOK, EventsInv, EventsTables, Powers
<1> QED
    BY <1>1, REInitInv, RENextKeeps, PTL DEF RESpec

-----------------------------------------------------------------------------
(* What HSM shows once the events are handled                              *)

InTopic(x) == \E i \in DOMAIN topic : x \in topic[i].about
AtWork(x)  == \E w \in Workers : worker[w] # Resting /\ x \in worker[w].e.about
Pending(x) == InTopic(x) \/ AtWork(x)

\* The last event about a component has the power that it has now; what is switched
\* on with a compute slot is no node.
EventTold(e) ==
    /\ e.seq <= sent
    /\ \A x \in Xnames : latest[x] = e.seq => x \in e.about
    /\ \A x \in e.about : latest[x] = e.seq /\ e.op # "unknown" => power[x] = e.op
    /\ e.kind = "Alert" => e.about = {e.of}
    /\ e.op = "On" /\ HmsType[e.of] = "ComputeModule" => \A x \in e.about : HmsType[x] # "Node"

\* A task updates what it has listed of what its event is about; it asks only the
\* controllers of its slot.
Collected(j) ==
    /\ j.e.about \cap j.list \subseteq j.ids
    /\ \A b \in j.todo : SlotOf[b] = j.e.of
OfItsSlot(key, e) == key.by = "children" => key.ep \in DOMAIN SlotOf /\ SlotOf[key.ep] = e.of
TaskTold(j) == EventTold(j.e) /\ Collected(j) /\ OfItsSlot(j.key, j.e)

EventsTold ==
    /\ \A x \in Xnames : latest[x] \in Nat /\ latest[x] <= sent
    /\ \A i \in DOMAIN topic : EventTold(topic[i])
    /\ \A w \in Workers : worker[w] # Resting => TaskTold(worker[w])

\* What a discovery has read is so still, of what no event has been about since.
ReadingsTold ==
    \A ep \in Endpoints : read[ep] # NotRead =>
        \A x \in Xnames : read[ep].power[x] # "none" =>
            power[x] # "none" /\ (x \in read[ep].late \/ read[ep].power[x] = power[x])

StatesTold ==
    /\ \A x \in ceps : power[x] # "none" /\ hsm[x] \in {"On", "Off"}
    /\ \A x \in Xnames \ ceps : hsm[x] \in {"Empty", "none"}
    /\ \A x \in ceps \ unsure : hsm[x] = power[x] \/ Pending(x)

SettleInv == EventsTold /\ ReadingsTold /\ StatesTold

LEMMA SettleInit == REInit => SettleInv
<1> SUFFICES ASSUME REInit PROVE SettleInv
    OBVIOUS
<1>1. \A x \in ceps : x \in Xnames /\ power[x] # "none"
    BY DEF REInit
<1>2. \A x \in Xnames : power[x] \in {"On", "Off", "none"}
    BY DEF REInit
<1>3. StatesTold
    BY <1>1, <1>2 DEF REInit, StatesTold
<1>4. EventsTold
    BY DEF REInit, EventsTold
<1>5. ReadingsTold
    BY DEF REInit, ReadingsTold
<1> QED
    BY <1>3, <1>4, <1>5 DEF SettleInv

\* The parts of the typing that these proofs use.
LEMMA SettleTypes ==
    ASSUME EventsInv
    PROVE  /\ sent \in Nat /\ ceps \subseteq Xnames
           /\ \A x \in Xnames : power[x] \in {"On", "Off", "none"}
           /\ topic \in Seq(EventMsgs)
           /\ \A i \in DOMAIN topic : topic[i] \in EventMsgs
           /\ \A w \in Workers : worker[w] # Resting => TaskOK(worker[w]) /\ IsTask(worker[w])
           /\ worker = [w \in Workers |-> worker[w]]
<1>1. topic \in Seq(EventMsgs) /\ \A i \in DOMAIN topic : topic[i] \in EventMsgs
    BY DEF EventsInv, TopicSound
<1> QED
    BY <1>1 DEF EventsInv, EventsTables, Powers, TopicSound, WorkersOK, TaskOK

LEMMA EventTypes ==
    ASSUME NEW e \in EventMsgs
    PROVE  /\ e.seq \in Nat /\ e.about \subseteq Xnames /\ e.of \in Xnames /\ e.ep \in Endpoints
           /\ e.kind \in Kinds /\ e.op \in {"On", "Off", "unknown"}
BY DEF EventMsgs

\* Nothing is told of components that change nothing.
LEMMA NothingTold ==
    ASSUME SettleInv, UNCHANGED <<power, ceps, hsm, read, topic, worker, sent, latest, unsure>>
    PROVE  SettleInv'
BY DEF SettleInv, EventsTold, EventTold, TaskTold, Collected, OfItsSlot, ReadingsTold, StatesTold,
       Pending, InTopic, AtWork

LEMMA SendsTold ==
    ASSUME EventsInv, SettleInv, NEW e, NEW of, NEW kind, NEW op, NEW new \in {"On", "Off"},
           op \in {new, "unknown"}, NEW about \in SUBSET Xnames, Sends(e, of, kind, op, about),
           power' = [x \in Xnames |-> IF x \in about THEN new ELSE power[x]],
           \A x \in about : power[x] # "none",
           kind = "Alert" => about = {of},
           op = "On" /\ HmsType[of] = "ComputeModule" => \A x \in about : HmsType[x] # "Node",
           UNCHANGED <<ceps, hsm, worker, unsure>>
    PROVE  SettleInv'
<1>1. PICK m : m = [ep |-> e, of |-> of, kind |-> kind, op |-> op, about |-> about, seq |-> sent + 1]
    OBVIOUS
<1>2. m.of = of /\ m.kind = kind /\ m.op = op /\ m.about = about /\ m.seq = sent + 1
    BY <1>1
<1>3. /\ sent' = sent + 1 /\ topic' = Append(topic, m)
      /\ latest' = [x \in Xnames |-> IF x \in about THEN sent + 1 ELSE latest[x]]
    BY <1>1 DEF Sends
<1>4. sent \in Nat /\ topic \in Seq(EventMsgs) /\ \A i \in DOMAIN topic : topic[i] \in EventMsgs
    BY SettleTypes
<1>5. \A x \in Xnames : latest[x] \in Nat /\ latest[x] <= sent
    BY DEF SettleInv, EventsTold
<1>6. ASSUME NEW f \in EventMsgs, EventTold(f) PROVE EventTold(f)'
    <2>1. f.seq \in Nat /\ f.seq <= sent /\ f.about \subseteq Xnames
        BY <1>6, EventTypes DEF EventTold
    <2>2. \A x \in Xnames : latest'[x] = f.seq => x \notin about /\ latest[x] = f.seq /\ power'[x] = power[x]
        BY <1>3, <1>4, <2>1
    <2> QED
        BY <1>3, <1>4, <1>6, <2>1, <2>2 DEF EventTold
<1>7. EventTold(m)'
    <2>1. \A x \in Xnames : latest'[x] = m.seq => x \in about
        BY <1>2, <1>3, <1>4, <1>5
    <2> QED
        BY <1>2, <1>3, <1>4, <2>1 DEF EventTold
<1>8. \A i \in DOMAIN topic' : topic'[i] = m \/ (i \in DOMAIN topic /\ topic'[i] = topic[i])
    BY <1>3, <1>4
<1>9. /\ \A i \in DOMAIN topic : i \in DOMAIN topic' /\ topic'[i] = topic[i]
      /\ \E i \in DOMAIN topic' : topic'[i] = m
    <2>1. Len(topic) + 1 \in DOMAIN topic' /\ topic'[Len(topic) + 1] = m
        BY <1>3, <1>4
    <2> QED
        BY <1>3, <1>4, <2>1
<1>10. EventsTold'
    <2>1. \A x \in Xnames : latest'[x] \in Nat /\ latest'[x] <= sent'
        BY <1>3, <1>4, <1>5
    <2>2. \A i \in DOMAIN topic' : EventTold(topic[i])'
        <3>1. ASSUME NEW i \in DOMAIN topic' PROVE EventTold(topic[i])'
            <4>1. PICK f : f = topic'[i]
                OBVIOUS
            <4>2. EventTold(f)'
                BY <1>4, <1>6, <1>7, <1>8, <4>1 DEF SettleInv, EventsTold
            <4> QED
                BY <4>1, <4>2 DEF EventTold
        <3> QED
            BY <3>1
    <2>3. ASSUME NEW w \in Workers, worker[w] # Resting PROVE TaskTold(worker[w])'
        <3>1. PICK j : j = worker[w]
            OBVIOUS
        <3>2. j.e \in EventMsgs
            BY <2>3, <3>1, SettleTypes DEF IsTask
        <3>3. TaskTold(j)'
            BY <1>6, <2>3, <3>1, <3>2 DEF SettleInv, EventsTold, TaskTold, Collected, OfItsSlot
        <3> QED
            BY <3>1, <3>3 DEF TaskTold, EventTold, Collected, OfItsSlot
    <2> QED
        BY <2>1, <2>2, <2>3 DEF EventsTold
<1>11. ReadingsTold'
    <2>1. ASSUME NEW ep \in Endpoints, read'[ep] # NotRead
          PROVE  read[ep] # NotRead /\ read'[ep] = [read[ep] EXCEPT !.late = @ \cup about]
        BY <2>1 DEF Sends
    <2>2. ASSUME NEW ep \in Endpoints, read'[ep] # NotRead
          PROVE  read'[ep].power = read[ep].power /\ read'[ep].late = read[ep].late \cup about
        <3>1. read[ep] \in [power : [Xnames -> Powers], late : SUBSET Xnames]
            BY <2>1, <2>2 DEF EventsInv, EventsTables, Readings
        <3> QED
            BY <2>1, <2>2, <3>1
    <2>3. ASSUME NEW ep \in Endpoints, read'[ep] # NotRead, NEW x \in Xnames, read'[ep].power[x] # "none"
          PROVE  power'[x] # "none" /\ (x \in read'[ep].late \/ read'[ep].power[x] = power'[x])
        <3>1. power[x] # "none" /\ (x \in read[ep].late \/ read[ep].power[x] = power[x])
            BY <2>1, <2>2, <2>3 DEF SettleInv, ReadingsTold
        <3>2. CASE x \in about
            BY <2>2, <2>3, <3>2
        <3>3. CASE x \notin about
            BY <2>2, <2>3, <3>1, <3>3
        <3> QED
            BY <3>2, <3>3
    <2> QED
        BY <2>3 DEF ReadingsTold
<1>12. StatesTold'
    <2>1. ASSUME NEW x \in ceps \ unsure PROVE hsm[x] = power'[x] \/ Pending(x)'
        <3>1. x \in Xnames /\ AtWork(x)' = AtWork(x) /\ (InTopic(x) => InTopic(x)')
            BY <1>9, SettleTypes DEF AtWork, InTopic
        <3>2. CASE x \in about
            BY <1>2, <1>9, <3>2 DEF Pending, InTopic
        <3>3. CASE x \notin about
            BY <3>1, <3>3 DEF SettleInv, StatesTold, Pending
        <3> QED
            BY <3>2, <3>3
    <2>2. \A x \in ceps : power'[x] # "none"
        BY SettleTypes DEF SettleInv, StatesTold
    <2> QED
        BY <2>1, <2>2 DEF SettleInv, StatesTold
<1> QED
    BY <1>10, <1>11, <1>12 DEF SettleInv

LEMMA NodePowerTold ==
    ASSUME EventsInv, SettleInv, NEW n \in Xnames, NodePower(n)
    PROVE  SettleInv'
<1> DEFINE new == IF power[n] = "On" THEN "Off" ELSE "On"
<1>1. PICK report \in Reports(n, new) : Sends(EpOf[n], n, report[1], report[2], {n})
    BY DEF NodePower
<1>2. report[2] \in {new, "unknown"}
    BY DEF Reports
<1>3. HmsType[n] # "ComputeModule" /\ power[n] # "none" /\ new \in {"On", "Off"}
    BY DEF NodePower, Switched
<1>4. power' = [power EXCEPT ![n] = new]
    BY DEF NodePower
<1> HIDE DEF new
<1>5. power' = [x \in Xnames |-> IF x \in {n} THEN new ELSE power[x]]
    BY <1>4 DEF EventsInv, EventsTables
<1>6. {n} \in SUBSET Xnames /\ \A x \in {n} : power[x] # "none"
    BY <1>3
<1>7. UNCHANGED <<ceps, hsm, worker, unsure>>
    BY DEF NodePower
<1> DEFINE kind == report[1]
           op   == report[2]
<1>8. Sends(EpOf[n], n, kind, op, {n}) /\ op \in {new, "unknown"}
    BY <1>1, <1>2
<1> HIDE DEF kind, op
<1> QED
    BY <1>3, <1>5, <1>6, <1>7, <1>8, SendsTold

LEMMA SlotPowerTold ==
    ASSUME EventsInv, SettleInv, NEW s \in Xnames, SlotPower(s)
    PROVE  SettleInv'
<1> DEFINE new   == IF power[s] = "On" THEN "Off" ELSE "On"
           bmcs  == {b \in DOMAIN SlotOf : SlotOf[b] = s}
           cards == bmcs \cup {x \in Xnames : EpOf[x] \in bmcs /\
                                  (HmsType[s] = "RouterModule" \/ HmsType[x] # "Node")}
           all   == {s} \cup {x \in Xnames : EpOf[x] \in bmcs /\ power[x] # "none"}
           about == IF new = "Off" THEN all ELSE all \cap ({s} \cup cards)
<1>1. /\ power' = [x \in Xnames |-> IF x \in about THEN new ELSE power[x]]
      /\ Sends(EpOf[s], s, "ResourcePowerStateChanged", new, about)
      /\ power[s] # "none"
    BY DEF SlotPower
<1>2. about \in SUBSET Xnames /\ new \in {"On", "Off"}
    OBVIOUS
<1>3. \A x \in about : power[x] # "none"
    BY <1>1
<1>4. new = "On" /\ HmsType[s] = "ComputeModule" => \A x \in about : HmsType[x] # "Node"
    <2>1. \A b \in bmcs : HmsType[b] # "Node"
        BY EndpointsAreXnames, SlotsAssumption
    <2> QED
        BY <2>1
<1> HIDE DEF about, new
<1> QED
    BY <1>1, <1>2, <1>3, <1>4, SendsTold DEF SlotPower

LEMMA FitTold ==
    ASSUME EventsInv, SettleInv, NEW x \in Xnames, Fit(x)
    PROVE  SettleInv'
<1>1. power' = [y \in Xnames |-> IF y = x THEN "Off" ELSE power[y]] /\ power[x] = "none"
    BY DEF Fit, EventsInv, EventsTables
<1>2. ASSUME NEW e \in EventMsgs, EventTold(e) PROVE EventTold(e)'
    <2>1. e.about \subseteq Xnames /\ e.op \in {"On", "Off", "unknown"}
        BY EventTypes
    <2> QED
        BY <1>1, <1>2, <2>1 DEF EventTold, Fit
<1>3. EventsTold'
    <2>1. ASSUME NEW i \in DOMAIN topic PROVE EventTold(topic[i])'
        <3>1. PICK f : f = topic[i]
            OBVIOUS
        <3>2. EventTold(f)'
            BY <1>2, <3>1, SettleTypes DEF SettleInv, EventsTold
        <3> QED
            BY <3>1, <3>2 DEF EventTold, Fit
    <2>2. ASSUME NEW w \in Workers, worker[w] # Resting PROVE TaskTold(worker[w])'
        <3>1. PICK j : j = worker[w]
            OBVIOUS
        <3>2. j.e \in EventMsgs
            BY <2>2, <3>1, SettleTypes DEF IsTask
        <3>3. TaskTold(j)'
            BY <1>2, <2>2, <3>1, <3>2 DEF SettleInv, EventsTold, TaskTold, Collected, OfItsSlot
        <3> QED
            BY <3>1, <3>3 DEF TaskTold, EventTold, Collected, OfItsSlot, Fit
    <2> QED
        BY <2>1, <2>2 DEF EventsTold, Fit, SettleInv
<1>4. ReadingsTold'
    BY <1>1 DEF Fit, SettleInv, ReadingsTold
<1>5. StatesTold'
    <2>1. \A y \in ceps : power'[y] = power[y]
        BY <1>1, SettleTypes DEF SettleInv, StatesTold
    <2> QED
        BY <2>1 DEF Fit, SettleInv, StatesTold, Pending, InTopic, AtWork
<1> QED
    BY <1>3, <1>4, <1>5 DEF SettleInv

LEMMA ReadTold ==
    ASSUME EventsInv, SettleInv, NEW ep \in Endpoints, GetRootInfo(ep)
    PROVE  SettleInv'
<1> DEFINE now == [power |-> power, late |-> {}]
<1>1. read' = [read EXCEPT ![ep] = now] \/ read' = read
    BY DEF GetRootInfo
<1>2. now.power = power
    OBVIOUS
<1>3. \A e2 \in Endpoints : read'[e2] = read[e2] \/ read'[e2] = now
    BY <1>1 DEF EventsInv, EventsTables
<1> HIDE DEF now
<1>4. ReadingsTold'
    BY <1>2, <1>3 DEF GetRootInfo, SettleInv, ReadingsTold
<1> QED
    BY <1>4 DEF GetRootInfo, SettleInv, EventsTold, EventTold, TaskTold, Collected, OfItsSlot, StatesTold,
       Pending, InTopic, AtWork

\* A discovery knows better than HSM of all that it stores and that has sent nothing
\* since.
LEMMA UpdateAllTold ==
    ASSUME EventsInv, SettleInv, NEW ep \in Endpoints, UpdateAllForRFEndpoint(ep)
    PROVE  SettleInv'
<1> DEFINE ids == {x \in Of(ep) : read[ep].power[x] # "none" /\ HasRow(x)}
           r   == read[ep]
<1>1. r # NotRead /\ read' = [read EXCEPT ![ep] = NotRead]
    BY DEF UpdateAllForRFEndpoint
<1>2. ReadingsTold'
    BY <1>1 DEF UpdateAllForRFEndpoint, SettleInv, ReadingsTold, EventsInv, EventsTables
<1>3. EventsTold'
    BY DEF UpdateAllForRFEndpoint, SettleInv, EventsTold, EventTold, TaskTold, Collected, OfItsSlot
<1>4. StatesTold'
    <2>1. CASE ep \in reps
        <3>1. /\ ceps' = ceps \cup ids
              /\ hsm' = [x \in Xnames |-> IF x \in ids THEN r.power[x] ELSE hsm[x]]
              /\ unsure' = (unsure \ ids) \cup (ids \cap r.late)
              /\ power' = power /\ topic' = topic /\ worker' = worker
            BY <2>1 DEF UpdateAllForRFEndpoint
        <3>2. \A x \in ids : /\ x \in Xnames /\ power[x] # "none" /\ r.power[x] # "none"
                             /\ x \in r.late \/ r.power[x] = power[x]
            BY <1>1 DEF SettleInv, ReadingsTold, Of
        <3>3. \A x \in ids : r.power[x] \in {"On", "Off"}
            <4>1. r \in [power : [Xnames -> Powers], late : SUBSET Xnames]
                BY <1>1 DEF EventsInv, EventsTables, Readings
            <4>2. r.power \in [Xnames -> Powers]
                BY <4>1
            <4> QED
                BY <3>2, <4>2 DEF Powers
        <3> HIDE DEF ids, r
        <3>4. \A x \in ceps' : power'[x] # "none" /\ hsm'[x] \in {"On", "Off"}
            BY <3>1, <3>2, <3>3, SettleTypes DEF SettleInv, StatesTold
        <3>5. \A x \in Xnames \ ceps' : hsm'[x] \in {"Empty", "none"}
            BY <3>1 DEF SettleInv, StatesTold
        <3>6. ASSUME NEW x \in ceps' \ unsure' PROVE hsm'[x] = power'[x] \/ Pending(x)'
            <4>1. CASE x \in ids
                BY <3>1, <3>2, <3>6, <4>1
            <4>2. CASE x \notin ids
                <5>1. x \in ceps \ unsure /\ x \in Xnames
                    BY <3>1, <3>6, <4>2, SettleTypes
                <5> QED
                    BY <3>1, <4>2, <5>1 DEF SettleInv, StatesTold, Pending, InTopic, AtWork
            <4> QED
                BY <4>1, <4>2
        <3> QED
            BY <3>4, <3>5, <3>6 DEF StatesTold
    <2>2. CASE ep \notin reps
        BY <2>2 DEF UpdateAllForRFEndpoint, SettleInv, StatesTold, Pending, InTopic, AtWork
    <2> QED
        BY <2>1, <2>2
<1> QED
    BY <1>2, <1>3, <1>4 DEF SettleInv

LEMMA DeleteTold ==
    ASSUME EventsInv, SettleInv, NEW ep \in Endpoints, DeleteRFEndpointByID(ep)
    PROVE  SettleInv'
<1>1. ASSUME NEW w \in Workers
      PROVE  /\ worker'[w] # Resting <=> worker[w] # Resting
             /\ worker[w] # Resting =>
                  /\ worker'[w].e = worker[w].e /\ worker'[w].list = worker[w].list
                  /\ worker'[w].ids = worker[w].ids /\ worker'[w].todo = worker[w].todo
                  /\ worker'[w].key = worker[w].key
    <2>1. worker'[w] = IF worker[w] # Resting THEN [worker[w] EXCEPT !.seen = @ \ Of(ep)] ELSE Resting
        BY DEF DeleteRFEndpointByID, Working
    <2>2. PICK j : j = worker[w]
        OBVIOUS
    <2>3. PICK c : c = [j EXCEPT !.seen = @ \ Of(ep)]
        OBVIOUS
    <2>4. j # Resting => IsTask(j)
        BY <2>2, SettleTypes
    <2>5. j # Resting => /\ IsTask(c) /\ c.e = j.e /\ c.list = j.list /\ c.ids = j.ids
                         /\ c.todo = j.todo /\ c.key = j.key
        BY <2>3, <2>4 DEF IsTask
    <2> QED
        BY <2>1, <2>2, <2>3, <2>5, RestingIsNoTask
<1>2. EventsTold'
    <2>1. ASSUME NEW w \in Workers, worker'[w] # Resting PROVE TaskTold(worker[w])'
        <3>1. TaskTold(worker[w])
            BY <1>1, <2>1 DEF SettleInv, EventsTold
        <3> QED
            BY <1>1, <2>1, <3>1 DEF DeleteRFEndpointByID, TaskTold, EventTold, Collected, OfItsSlot
    <2>2. \A i \in DOMAIN topic' : EventTold(topic[i])'
        BY DEF DeleteRFEndpointByID, SettleInv, EventsTold, EventTold
    <2> QED
        BY <2>1, <2>2 DEF DeleteRFEndpointByID, SettleInv, EventsTold
<1>3. ReadingsTold'
    BY DEF DeleteRFEndpointByID, SettleInv, ReadingsTold
<1>4. StatesTold'
    <2>1. \A x : Pending(x) => Pending(x)'
        BY <1>1 DEF DeleteRFEndpointByID, Pending, InTopic, AtWork
    <2> QED
        BY <2>1, SettleTypes DEF DeleteRFEndpointByID, SettleInv, StatesTold
<1> QED
    BY <1>2, <1>3, <1>4 DEF SettleInv

LEMMA MonitorTold ==
    ASSUME EventsInv, SettleInv, NEW w \in Workers, rfEventMonitor(w)
    PROVE  SettleInv'
<1> DEFINE e == topic[1]
           t == Start(e, getIDForURI(e))
<1>1. /\ topic \in Seq(EventMsgs) /\ topic # <<>> /\ 1 \in DOMAIN topic /\ Head(topic) = e
      /\ topic' = Tail(topic) /\ e \in EventMsgs
    BY SettleTypes DEF rfEventMonitor
<1>2. worker[w] = Resting /\ worker' = [worker EXCEPT ![w] = t]
    BY <1>1 DEF rfEventMonitor, Working
<1>3. t # Resting /\ t.e = e /\ TaskTold(t)
    <2>1. EventTold(e)
        BY <1>1 DEF SettleInv, EventsTold
    <2>2. /\ t.pc = "look" /\ t.e = e /\ t.key = getIDForURI(e) /\ t.todo = {} /\ t.ids = {} /\ t.list = {}
        BY DEF Start
    <2>3. t.key.by = "uri"
        BY <1>1, <2>2, KeysOK
    <2> HIDE DEF t
    <2> QED
        BY <2>1, <2>2, <2>3 DEF TaskTold, Collected, OfItsSlot, Resting
<1>4. PICK n : n = t
    OBVIOUS
<1>5. worker' = [v \in Workers |-> IF v = w THEN n ELSE worker[v]]
    BY <1>2, <1>4, SettleTypes
<1>6. /\ \A i \in DOMAIN topic' : i + 1 \in DOMAIN topic /\ topic'[i] = topic[i + 1]
      /\ \A i \in DOMAIN topic : i # 1 => i - 1 \in DOMAIN topic' /\ topic'[i - 1] = topic[i]
    BY <1>1
<1> HIDE DEF e, t
<1>7. EventsTold'
    <2>1. \A i \in DOMAIN topic' : EventTold(topic[i])'
        BY <1>6 DEF rfEventMonitor, SettleInv, EventsTold, EventTold
    <2>2. ASSUME NEW v \in Workers, worker'[v] # Resting PROVE TaskTold(worker[v])'
        <3>1. TaskTold(worker'[v])
            BY <1>3, <1>4, <1>5, <2>2 DEF SettleInv, EventsTold
        <3> QED
            BY <3>1 DEF rfEventMonitor, TaskTold, EventTold, Collected, OfItsSlot
    <2> QED
        BY <2>1, <2>2 DEF rfEventMonitor, SettleInv, EventsTold
<1>8. ASSUME NEW x, Pending(x) PROVE Pending(x)'
    <2>1. CASE x \in e.about
        <3>1. worker'[w] = n /\ n # Resting /\ x \in n.e.about
            BY <1>3, <1>4, <1>5, <2>1
        <3> QED
            BY <3>1 DEF Pending, AtWork
    <2>2. CASE InTopic(x) /\ x \notin e.about
        <3>1. PICK i \in DOMAIN topic : x \in topic[i].about /\ i # 1
            BY <2>2 DEF InTopic, e
        <3> QED
            BY <1>6, <3>1 DEF Pending, InTopic
    <2>3. CASE AtWork(x)
        BY <1>2, <1>5, <2>3 DEF Pending, AtWork
    <2> QED
        BY <1>8, <2>1, <2>2, <2>3 DEF Pending
<1>9. StatesTold'
    BY <1>8 DEF rfEventMonitor, SettleInv, StatesTold
<1>10. ReadingsTold'
    BY DEF rfEventMonitor, SettleInv, ReadingsTold
<1> QED
    BY <1>7, <1>9, <1>10 DEF SettleInv

\* What a worker goes on with is told as well, and of the same components.
Follows(t, j) == IsTask(t) /\ TaskTold(t) /\ t.e.about = j.e.about

LEMMA SeekTold ==
    ASSUME NEW j, IsTask(j), Sound(j.e), EventTold(j.e), Collected(j), NEW key \in Keys,
           key.by = "children" => j.e.op # "unknown", OfItsSlot(key, j.e)
    PROVE  Follows(Seek(j, key), j)
<1> DEFINE s == Seek(j, key)
<1>1. IsTask(s)
    BY SeekOK DEF TaskOK
<1>2. s.e = j.e /\ s.key = key /\ s.todo = j.todo /\ s.ids = j.ids /\ s.list = j.list
    BY DEF Seek, IsTask
<1> HIDE DEF s
<1> QED
    BY <1>1, <1>2 DEF Follows, TaskTold, Collected, s

LEMMA ReadyTold ==
    ASSUME NEW j, IsTask(j), TaskTold(j)
    PROVE  Follows(Ready(j), j)
<1> DEFINE s == Ready(j)
<1>1. IsTask(s) /\ s.e = j.e /\ s.key = j.key /\ s.todo = j.todo /\ s.ids = j.ids /\ s.list = j.list
    BY DEF Ready, IsTask
<1> HIDE DEF s
<1> QED
    BY <1>1 DEF Follows, TaskTold, Collected, s

LEMMA NextChildTold ==
    ASSUME NEW j, IsTask(j), Sound(j.e), TaskTold(j), j.e.op # "unknown"
    PROVE  Follows(NextChild(j), j)
<1>1. CASE j.todo = {}
    BY <1>1, ReadyTold DEF NextChild
<1>2. CASE j.todo # {}
    <2> DEFINE b == CHOOSE x \in j.todo : TRUE
               s == Seek(j, getChildIDsForRfEP(b))
               n == [s EXCEPT !.todo = j.todo \ {b}]
    <2>1. b \in DOMAIN SlotOf /\ SlotOf[b] = j.e.of
        BY <1>2 DEF IsTask, TaskTold, Collected
    <2>2. getChildIDsForRfEP(b) \in Keys /\ OfItsSlot(getChildIDsForRfEP(b), j.e)
        BY <2>1, KeysOK DEF OfItsSlot, getChildIDsForRfEP, Key
    <2> HIDE DEF b
    <2>3. Follows(s, j)
        BY <2>2, SeekTold DEF TaskTold
    <2>4. s.e = j.e
        BY <2>2, SeekOK
    <2>5. NextChild(j) = n
        BY <1>2 DEF NextChild, b
    <2>6. j.todo \subseteq DOMAIN SlotOf /\ \A c \in j.todo : SlotOf[c] = j.e.of
        BY DEF IsTask, TaskTold, Collected
    <2> HIDE DEF s
    <2>7. /\ IsTask(n) /\ n.e = s.e /\ n.key = s.key /\ n.ids = s.ids /\ n.list = s.list
          /\ n.todo \subseteq j.todo
        BY <2>3, <2>6 DEF Follows, IsTask
    <2> HIDE DEF n
    <2>8. Follows(n, j)
        BY <2>3, <2>4, <2>6, <2>7 DEF Follows, TaskTold, Collected
    <2> QED
        BY <2>5, <2>8
<1> QED
    BY <1>1, <1>2

LEMMA ParserTold ==
    ASSUME NEW j, IsTask(j), Sound(j.e), TaskTold(j)
    PROVE  Follows(GetEventActionParser(j), j)
<1>1. j.e \in EventMsgs /\ j.e.of \in Xnames /\ j.e.ep \in Endpoints
      /\ j.e.kind \in Kinds /\ j.e.op \in {"On", "Off", "unknown"}
    BY DEF IsTask, EventMsgs
<1>2. Follows(Seek(j, getCompEPInfo(j.e.of)), j)
    <2> DEFINE k == getCompEPInfo(j.e.of)
    <2>1. k \in Keys /\ k.by = "value"
        BY <1>1, KeysOK
    <2> HIDE DEF k
    <2>2. Follows(Seek(j, k), j)
        BY <2>1, SeekTold DEF OfItsSlot, TaskTold
    <2> QED
        BY <2>2 DEF k
<1>3. Follows(Ready(j), j)
    BY ReadyTold
<1>4. CASE j.e.kind = "ResourcePowerStateChanged"
    <2>1. Follows(powerStateNC(j), j) /\ Follows(powerStateRC(j), j) /\ Follows(powerStateCabPDUController(j), j)
        BY <1>2, <1>3 DEF powerStateNC, powerStateRC, powerStateCabPDUController
    <2>2. Follows(powerStateCMM(j), j)
        <3> DEFINE bs == {b \in DOMAIN SlotOf : SlotOf[b] = j.e.of}
                   c  == [j EXCEPT !.todo = bs]
        <3>1. bs \subseteq DOMAIN SlotOf /\ \A b \in bs : SlotOf[b] = j.e.of
            OBVIOUS
        <3>2. powerStateCMM(j) = NextChild(c)
            BY DEF powerStateCMM
        <3> HIDE DEF bs
        <3>3. IsTask(c) /\ c.e = j.e /\ c.key = j.key /\ c.ids = j.ids /\ c.list = j.list /\ c.todo = bs
            BY <3>1 DEF IsTask
        <3> HIDE DEF c
        <3>4. TaskTold(c) /\ c.e.op # "unknown"
            BY <1>4, <3>1, <3>3 DEF TaskTold, Collected, Sound
        <3>5. Follows(NextChild(c), c)
            BY <3>3, <3>4, NextChildTold
        <3> QED
            BY <3>2, <3>3, <3>5 DEF Follows
    <2>3. GetEventActionParser(j) = ResourcePowerStateChangedParser(j)
        BY <1>4 DEF GetEventActionParser
    <2>4. HmsType[j.e.ep] \in {"ChassisBMC", "NodeBMC", "RouterBMC", "CabinetPDUController"}
        BY <1>1, EndpointsAreXnames
    <2> QED
        BY <2>1, <2>2, <2>3, <2>4 DEF ResourcePowerStateChangedParser
<1>5. CASE j.e.kind = "SystemPower"
    <2>1. j.e.op \in {"On", "Off"}
        BY <1>1, <1>5 DEF Sound
    <2>2. Follows(AlertSystemPowerOnParser(j), j) /\ Follows(AlertSystemPowerOffParser(j), j)
        BY <1>2, <1>3 DEF AlertSystemPowerOnParser, AlertSystemPowerOffParser
    <2> QED
        BY <1>5, <2>1, <2>2 DEF GetEventActionParser
<1>6. CASE j.e.kind = "Alert"
    <2>1. Follows(AlertSystemPowerParser(j), j)
        BY <1>2, <1>3 DEF AlertSystemPowerParser
    <2> QED
        BY <1>6, <2>1 DEF GetEventActionParser
<1> QED
    BY <1>1, <1>4, <1>5, <1>6 DEF Kinds

LEMMA LookedTold ==
    ASSUME EventsInv, SettleInv, NEW w \in Workers, worker[w] # Resting, NEW R \in SUBSET Xnames,
           \A x \in R : worker[w].key.by # "value" => EpOf[x] = worker[w].key.ep, Looked(w, R)
    PROVE  \/ Drop(w)
           \/ /\ unsure' = unsure
              /\ \E t : Follows(t, worker[w]) /\ worker' = [worker EXCEPT ![w] = t]
<1> DEFINE j == worker[w]
           Goes(k) == worker' = [worker EXCEPT ![w] = k] /\ unsure' = unsure
           reply == IF j.e.op = "On" THEN j.e.op ELSE getCompEPState(j)
           asked1 == [j EXCEPT !.e.op = IF @ = "On" THEN @ ELSE getCompEPState(j)]
           add == IF HmsType[j.e.of] = "RouterModule" THEN generateRcChildIDs(j.e.op, R)
                  ELSE generateNcChildIDs(j.e.op, R)
<1>1. TaskOK(j) /\ TaskTold(j)
    BY SettleTypes DEF SettleInv, EventsTold
<1>2. IsTask(j) /\ Sound(j.e) /\ HasOp(j) /\ j.e \in EventMsgs /\ EventTold(j.e) /\ Collected(j)
    BY <1>1 DEF TaskOK, IsTask, TaskTold
<1>3. CASE j.key.by = "uri" /\ Goes(GetEventActionParser([j EXCEPT !.ids = R, !.list = R]))
    <2> DEFINE c == [j EXCEPT !.ids = R, !.list = R]
    <2>1. IsTask(c) /\ c.e = j.e /\ c.key = j.key /\ c.ids = R /\ c.list = R /\ c.todo = j.todo
        BY <1>2 DEF IsTask
    <2> HIDE DEF c
    <2>2. TaskTold(c)
        BY <1>1, <2>1 DEF TaskTold, Collected
    <2>3. Follows(GetEventActionParser(c), c)
        BY <1>2, <2>1, <2>2, ParserTold
    <2>4. Follows(GetEventActionParser(c), j)
        BY <2>1, <2>3 DEF Follows
    <2> QED
        BY <1>3, <2>4 DEF c
<1>4. CASE j.key.by = "children" /\ Goes(NextChild([j EXCEPT !.ids = @ \cup add, !.list = @ \cup R]))
    <2> DEFINE c == [j EXCEPT !.ids = @ \cup add, !.list = @ \cup R]
    <2>1. add \subseteq Xnames
        BY DEF generateRcChildIDs, generateNcChildIDs
    <2>2. j.e.about \cap R \subseteq add
        <3>1. j.key.ep \in DOMAIN SlotOf /\ SlotOf[j.key.ep] = j.e.of
            BY <1>1, <1>4 DEF TaskTold, OfItsSlot
        <3>2. HmsType[j.e.of] \in {"ComputeModule", "RouterModule"}
            BY <3>1, SlotsAssumption
        <3>3. CASE HmsType[j.e.of] = "RouterModule" \/ j.e.op # "On"
            BY <3>3 DEF generateRcChildIDs, generateNcChildIDs
        <3>4. CASE HmsType[j.e.of] = "ComputeModule" /\ j.e.op = "On"
            <4>1. ASSUME NEW x \in j.e.about \cap R PROVE HmsType[x] \in Cards
                <5>1. x \in Xnames /\ EpOf[x] = j.key.ep /\ HmsType[x] # "Node"
                    BY <1>2, <1>4, <3>4, <4>1 DEF EventTold
                <5> QED
                    BY <3>1, <3>4, <5>1, SlotsAssumption
            <4> QED
                BY <3>4, <4>1 DEF generateNcChildIDs
        <3> QED
            BY <3>2, <3>3, <3>4
    <2> HIDE DEF add
    <2>3. IsTask(c) /\ c.e = j.e /\ c.key = j.key /\ c.todo = j.todo
          /\ c.ids = j.ids \cup add /\ c.list = j.list \cup R
        BY <1>2, <2>1 DEF IsTask
    <2> HIDE DEF c
    <2>4. TaskTold(c) /\ c.e.op # "unknown"
        BY <1>1, <1>2, <1>4, <2>2, <2>3 DEF TaskTold, Collected, HasOp
    <2>5. Follows(NextChild(c), c)
        BY <1>2, <2>3, <2>4, NextChildTold
    <2>6. Follows(NextChild(c), j)
        BY <2>3, <2>5 DEF Follows
    <2> QED
        BY <1>4, <2>6 DEF c
<1>5. CASE Goes(Ready(j))
    BY <1>1, <1>2, <1>5, ReadyTold
<1>6. CASE j.e.kind = "Alert" /\ Goes(Ready(asked1))
    <2> DEFINE e2 == [j.e EXCEPT !.op = reply]
               c  == [j EXCEPT !.e = e2]
    <2>1. reply \in {"On", "Off"}
        BY <1>2, SettleTypes, EventTypes DEF Sound, getCompEPState
    <2>2. asked1 = c
        BY <1>2 DEF IsTask
    <2>3. e2 \in EventMsgs /\ e2.about = j.e.about /\ e2.of = j.e.of /\ e2.kind = j.e.kind
          /\ e2.seq = j.e.seq /\ e2.op = reply
        BY <1>2, <2>1 DEF EventMsgs
    <2> HIDE DEF e2
    <2>4. IsTask(c) /\ c.e = e2 /\ c.key = j.key /\ c.todo = j.todo /\ c.ids = j.ids /\ c.list = j.list
        BY <1>2, <2>3 DEF IsTask
    <2>5. EventTold(e2)
        <3>1. j.e.about = {j.e.of}
            BY <1>2, <1>6 DEF EventTold
        <3>2. latest[j.e.of] = j.e.seq => power[j.e.of] = reply
            BY <1>2, <2>1, <3>1 DEF EventTold, getCompEPState
        <3> QED
            BY <1>2, <2>1, <2>3, <3>1, <3>2 DEF EventTold
    <2> HIDE DEF c, asked1
    <2>6. TaskTold(c)
        BY <1>1, <2>3, <2>4, <2>5 DEF TaskTold, Collected, OfItsSlot
    <2>7. Follows(Ready(c), c)
        BY <2>4, <2>6, ReadyTold
    <2>8. Follows(Ready(c), j)
        BY <2>3, <2>4, <2>7 DEF Follows
    <2> QED
        BY <1>6, <2>2, <2>8
<1>7. \/ Drop(w)
      \/ j.key.by = "uri" /\ Goes(GetEventActionParser([j EXCEPT !.ids = R, !.list = R]))
      \/ j.key.by = "children" /\ Goes(NextChild([j EXCEPT !.ids = @ \cup add, !.list = @ \cup R]))
      \/ Goes(Ready(j))
      \/ j.e.kind = "Alert" /\ Goes(Ready(asked1))
    BY DEF Looked
<1> QED
    BY <1>3, <1>4, <1>5, <1>6, <1>7

Told == <<power, ceps, hsm, read, topic, sent, latest>>

LEMMA StepTold ==
    ASSUME EventsInv, SettleInv, NEW w \in Workers, worker[w] # Resting, NEW t,
           Follows(t, worker[w]), worker' = [worker EXCEPT ![w] = t], UNCHANGED Told, unsure' = unsure
    PROVE  SettleInv'
<1>1. t # Resting /\ TaskTold(t) /\ t.e.about = worker[w].e.about
    BY RestingIsNoTask DEF Follows
<1>2. worker' = [v \in Workers |-> IF v = w THEN t ELSE worker[v]]
    BY SettleTypes
<1>3. EventsTold'
    <2>1. ASSUME NEW v \in Workers, worker'[v] # Resting PROVE TaskTold(worker[v])'
        <3>1. TaskTold(worker'[v])
            BY <1>1, <1>2, <2>1 DEF SettleInv, EventsTold
        <3> QED
            BY <3>1 DEF Told, TaskTold, EventTold, Collected, OfItsSlot
    <2> QED
        BY <2>1 DEF Told, SettleInv, EventsTold, EventTold
<1>4. ASSUME NEW x, Pending(x) PROVE Pending(x)'
    BY <1>1, <1>2, <1>4 DEF Told, Pending, InTopic, AtWork
<1>5. StatesTold'
    BY <1>4 DEF Told, SettleInv, StatesTold
<1> QED
    BY <1>3, <1>5 DEF Told, SettleInv, ReadingsTold

\* What is pending but for one worker is so still when that one is done.
LEMMA OthersPending ==
    ASSUME EventsInv, NEW w \in Workers, worker' = [worker EXCEPT ![w] = Resting], topic' = topic,
           NEW x, NEW f \in InProgress(w), x \in f.about
    PROVE  Pending(x)'
<1>1. worker' = [v \in Workers |-> IF v = w THEN Resting ELSE worker[v]]
    BY SettleTypes
<1>2. CASE \E i \in DOMAIN topic : f = topic[i]
    BY <1>2 DEF Pending, InTopic
<1>3. CASE \E v \in Working \ {w} : f = worker[v].e
    BY <1>1, <1>3 DEF Pending, AtWork, Working
<1> QED
    BY <1>2, <1>3 DEF InProgress

LEMMA RestsTold ==
    ASSUME SettleInv, NEW w \in Workers, worker = [v \in Workers |-> worker[v]],
           worker' = [worker EXCEPT ![w] = Resting], power' = power, topic' = topic,
           sent' = sent, latest' = latest
    PROVE  EventsTold'
<1>1. ASSUME NEW v \in Workers, worker'[v] # Resting PROVE TaskTold(worker[v])'
    <2>1. worker'[v] = worker[v] /\ worker[v] # Resting
        BY <1>1
    <2> QED
        BY <2>1 DEF SettleInv, EventsTold, TaskTold, EventTold, Collected, OfItsSlot
<1> QED
    BY <1>1 DEF SettleInv, EventsTold, EventTold

LEMMA DropTold ==
    ASSUME EventsInv, SettleInv, NEW w \in Workers, worker[w] # Resting, Drop(w), UNCHANGED Told
    PROVE  SettleInv'
<1> DEFINE j == worker[w]
<1>1. /\ worker' = [worker EXCEPT ![w] = Resting]
      /\ unsure' = unsure \cup {x \in j.e.about : j.e.seq = latest[x] \/ Overtaken(w, x)}
    BY DEF Drop
<1>2. EventsTold'
    BY <1>1, RestsTold, SettleTypes DEF Told
<1>3. ASSUME NEW x \in ceps \ unsure' PROVE hsm[x] = power[x] \/ Pending(x)'
    <2>1. CASE x \in j.e.about
        <3>1. \E f \in InProgress(w) : x \in f.about
            BY <1>1, <1>3, <2>1 DEF Overtaken
        <3> QED
            BY <1>1, <3>1, OthersPending DEF Told
    <2>2. CASE x \notin j.e.about
        <3>1. hsm[x] = power[x] \/ Pending(x)
            BY <1>1, <1>3 DEF SettleInv, StatesTold
        <3>2. Pending(x) => \E f \in InProgress(w) : x \in f.about
            BY <2>2 DEF Pending, InTopic, AtWork, InProgress, Working
        <3> QED
            BY <1>1, <3>1, <3>2, OthersPending DEF Told
    <2> QED
        BY <2>1, <2>2
<1>4. StatesTold'
    BY <1>3 DEF Told, SettleInv, StatesTold
<1> QED
    BY <1>2, <1>4 DEF Told, SettleInv, ReadingsTold

LEMMA LookTold ==
    ASSUME EventsInv, SettleInv, NEW w \in Workers, Look(w)
    PROVE  SettleInv'
<1> DEFINE j == worker[w]
           R == Lookup(j.key)
<1>1. j # Resting /\ IsTask(j) /\ TaskTold(j) /\ UNCHANGED Told
    BY SettleTypes DEF Look, Working, SettleInv, EventsTold, Told, Unmoved
<1>2. /\ R \in SUBSET Xnames
      /\ \A x \in R : j.key.by # "value" => EpOf[x] = j.key.ep
    BY DEF Lookup, LookupKey, LookupValue, Matches, EventsInv, EventsTables
<1>3. CASE Looked(w, R)
    <2> HIDE DEF R
    <2> QED
        BY <1>1, <1>2, <1>3, LookedTold, DropTold, StepTold
<1>4. CASE unsure' = unsure /\ worker' = [worker EXCEPT ![w].pc = "check", ![w].num = smapCompEP.syncNum]
    <2> DEFINE t == [j EXCEPT !.pc = "check", !.num = smapCompEP.syncNum]
    <2>1. worker' = [worker EXCEPT ![w] = t]
        BY <1>4, SettleTypes
    <2>2. IsTask(t) /\ t.e = j.e /\ t.key = j.key /\ t.todo = j.todo /\ t.ids = j.ids /\ t.list = j.list
        BY <1>1 DEF IsTask
    <2> HIDE DEF t
    <2>3. Follows(t, j)
        BY <1>1, <2>2 DEF Follows, TaskTold, Collected
    <2> QED
        BY <1>1, <1>4, <2>1, <2>3, StepTold
<1> QED
    BY <1>3, <1>4 DEF Look

LEMMA CheckTold ==
    ASSUME EventsInv, SettleInv, NEW w \in Workers, checkSyncCompEP(w)
    PROVE  SettleInv'
<1> DEFINE j == worker[w]
           seen == IF j.tries = 0 THEN Matches(ceps, j.key) ELSE j.seen
           t == [j EXCEPT !.pc = "sync", !.tries = @ + 1, !.seen = seen]
<1>1. j # Resting /\ TaskOK(j) /\ IsTask(j) /\ TaskTold(j) /\ j.pc = "check" /\ UNCHANGED Told
    BY SettleTypes DEF checkSyncCompEP, Working, SettleInv, EventsTold, Told, Unmoved
<1>2. CASE Looked(w, {})
    BY <1>1, <1>2, LookedTold, DropTold, StepTold
<1>3. CASE Drop(w)
    BY <1>1, <1>3, DropTold
<1>4. CASE unsure' = unsure /\ worker' = [worker EXCEPT ![w].pc = "sync", ![w].tries = @ + 1,
                           ![w].seen = IF j.tries = 0 THEN Matches(ceps, j.key) ELSE @]
    <2>1. worker' = [worker EXCEPT ![w] = t]
        BY <1>4, SettleTypes
    <2>2. j.tries \in {0, 1}
        BY <1>1 DEF IsTask, TaskOK, SeenKept
    <2> HIDE DEF seen
    <2>3. IsTask(t) /\ t.e = j.e /\ t.key = j.key /\ t.todo = j.todo /\ t.ids = j.ids /\ t.list = j.list
        BY <1>1, <2>2 DEF IsTask
    <2> HIDE DEF t
    <2>4. Follows(t, j)
        BY <1>1, <2>3 DEF Follows, TaskTold, Collected
    <2> QED
        BY <1>1, <1>4, <2>1, <2>4, StepTold
<1> QED
    BY <1>2, <1>3, <1>4 DEF checkSyncCompEP

LEMMA SyncTold ==
    ASSUME EventsInv, SettleInv, NEW w \in Workers, Sync(w)
    PROVE  SettleInv'
<1> DEFINE j == worker[w]
<1>1. j # Resting /\ IsTask(j) /\ TaskTold(j) /\ UNCHANGED Told /\ unsure' = unsure
    BY SettleTypes DEF Sync, Working, SettleInv, EventsTold, Told, Unmoved
<1>2. PICK ok : ok = TrySync(j.num).ok
    OBVIOUS
<1> DEFINE t == [j EXCEPT !.pc = "look", !.synced = ok]
<1>3. worker' = [worker EXCEPT ![w] = t]
    BY <1>2, SettleTypes DEF Sync
<1>4. IsTask(t) /\ t.e = j.e /\ t.key = j.key /\ t.todo = j.todo /\ t.ids = j.ids /\ t.list = j.list
    BY <1>1 DEF IsTask
<1> HIDE DEF t
<1>5. Follows(t, j)
    BY <1>1, <1>4 DEF Follows, TaskTold, Collected
<1> QED
    BY <1>1, <1>3, <1>5, StepTold

\* An update gets right what its event was the last about, and leaves to the events
\* that are in progress what it may have got wrong; of the rest HSM cannot know.
LEMMA UpdateTold ==
    ASSUME EventsInv, SettleInv, NEW w \in Workers, doCompUpdate(w)
    PROVE  SettleInv'
<1> DEFINE j   == worker[w]
           new == {x \in j.e.about : j.e.seq = latest[x] /\ x \in j.ids \cap ceps}
           bad == {x \in j.e.about \cup j.ids :
                      Overtaken(w, x) \/ (j.e.seq = latest[x] /\ (x \notin j.list \/ x \notin ceps))}
<1>1. j # Resting /\ TaskOK(j) /\ IsTask(j) /\ TaskTold(j) /\ j.pc = "update"
    BY SettleTypes DEF doCompUpdate, Working, SettleInv, EventsTold
<1>2. /\ j.e.op \in {"On", "Off"} /\ EventTold(j.e) /\ Collected(j)
    BY <1>1, EventTypes DEF TaskOK, HasOp, IsTask, TaskTold
<1>3. /\ hsm' = [x \in Xnames |-> IF x \in j.ids THEN EventUpdate(hsm[x], j.e.op) ELSE hsm[x]]
      /\ unsure' = (unsure \ new) \cup bad
      /\ worker' = [worker EXCEPT ![w] = Resting]
      /\ UNCHANGED <<power, ceps, read, topic, sent, latest>>
    BY DEF doCompUpdate
<1>4. EventsTold'
    BY <1>3, RestsTold, SettleTypes
<1>5. ASSUME NEW x \in ceps, x \notin unsure' PROVE hsm'[x] = power[x] \/ Pending(x)'
    <2>1. x \in Xnames /\ hsm[x] \in {"On", "Off"}
        BY SettleTypes DEF SettleInv, StatesTold
    <2>2. x \notin bad /\ (x \in unsure => x \in new)
        BY <1>3, <1>5
    <2>3. CASE x \in j.e.about \cup j.ids /\ j.e.seq = latest[x]
        <3>1. x \in j.e.about
            BY <1>2, <2>1, <2>3 DEF EventTold
        <3>2. x \in j.list
            BY <2>2, <2>3
        <3>3. x \in j.ids /\ power[x] = j.e.op
            BY <1>2, <2>3, <3>1, <3>2 DEF EventTold, Collected
        <3> QED
            BY <1>3, <2>1, <3>3 DEF EventUpdate
    <2>4. CASE x \in j.e.about \cup j.ids /\ j.e.seq # latest[x]
        <3>1. \E f \in InProgress(w) : x \in f.about
            BY <2>2, <2>4 DEF Overtaken
        <3> QED
            BY <1>3, <3>1, OthersPending
    <2>5. CASE x \notin j.e.about \cup j.ids
        <3>1. hsm'[x] = hsm[x] /\ x \notin unsure
            BY <1>3, <2>1, <2>2, <2>5
        <3>2. hsm[x] = power[x] \/ Pending(x)
            BY <3>1 DEF SettleInv, StatesTold
        <3>3. Pending(x) => \E f \in InProgress(w) : x \in f.about
            BY <2>5 DEF Pending, InTopic, AtWork, InProgress, Working
        <3> QED
            BY <1>3, <3>1, <3>2, <3>3, OthersPending
    <2> QED
        BY <2>3, <2>4, <2>5
<1>6. /\ \A x \in ceps : hsm'[x] \in {"On", "Off"}
      /\ \A x \in Xnames \ ceps : hsm'[x] \in {"Empty", "none"}
    BY <1>2, <1>3, SettleTypes DEF SettleInv, StatesTold, EventUpdate
<1> HIDE DEF new, bad
<1>7. StatesTold'
    BY <1>3, <1>5, <1>6 DEF SettleInv, StatesTold
<1> QED
    BY <1>3, <1>4, <1>7 DEF SettleInv, ReadingsTold

LEMMA RestartTold ==
    ASSUME EventsInv, SettleInv, Restart
    PROVE  SettleInv'
<1>1. \A w \in Workers : worker'[w] = Resting
    BY DEF Restart
<1>2. EventsTold'
    BY <1>1 DEF Restart, SettleInv, EventsTold, EventTold
<1>3. ReadingsTold'
    BY DEF Restart, ReadingsTold
<1>4. ASSUME NEW x \in ceps \ unsure' PROVE hsm[x] = power[x] \/ Pending(x)'
    <2>1. x \notin unsure /\ ~AtWork(x)
        BY <1>4 DEF Restart, Working, AtWork
    <2> QED
        BY <2>1 DEF Restart, SettleInv, StatesTold, Pending, InTopic
<1>5. StatesTold'
    BY <1>4 DEF Restart, SettleInv, StatesTold
<1> QED
    BY <1>2, <1>3, <1>5 DEF SettleInv

LEMMA RENextTold == EventsInv /\ SettleInv /\ [RENext]_reVars => SettleInv'
<1> SUFFICES ASSUME EventsInv, SettleInv, [RENext]_reVars PROVE SettleInv'
    OBVIOUS
<1>1. CASE \E x \in Xnames : NodePower(x) \/ SlotPower(x) \/ Fit(x)
    BY <1>1, NodePowerTold, SlotPowerTold, FitTold
<1>2. CASE \E ep \in Endpoints : DiscoverInventory(ep)
    BY <1>2, NothingTold DEF DiscoverInventory
<1>3. CASE \E ep \in Endpoints : GetRootInfo(ep) \/ UpdateAllForRFEndpoint(ep) \/ DeleteRFEndpointByID(ep)
    BY <1>3, ReadTold, UpdateAllTold, DeleteTold
<1>4. CASE \E w \in Workers : REStep(w)
    BY <1>4, MonitorTold, LookTold, CheckTold, SyncTold, UpdateTold DEF REStep
<1>5. CASE MsgBusReadFails \/ MsgBusReconnect
    BY <1>5, NothingTold DEF MsgBusReadFails, MsgBusReconnect
<1>6. CASE Restart
    BY <1>6, RestartTold
<1>7. CASE UNCHANGED reVars
    BY <1>7, NothingTold DEF reVars
<1> QED
    BY <1>1, <1>2, <1>3, <1>4, <1>5, <1>6, <1>7 DEF RENext

\* Once all events are handled HSM shows the power of every component that it can
\* know, although events are handled in any order, alerts leave the power out, and
\* endpoints are discovered, deleted and fitted all the time: a wrong state is always
\* still to be set by an event in progress, or is not known to be right
\* (rfevent.go:372-422, 532-595; hmsds-postgres.go:3362-3507).
THEOREM SettlesOnPowerHolds == RESpec => []SettlesOnPower
<1>1. EventsInv /\ SettleInv => SettlesOnPower
    <2> SUFFICES ASSUME EventsInv, SettleInv, topic = <<>>, Working = {}, NEW x \in Xnames
                 PROVE  IF x \in ceps THEN x \in unsure \/ hsm[x] = power[x]
                                      ELSE hsm[x] \in {"Empty", "none"}
        BY DEF SettlesOnPower
    <2>1. ~Pending(x)
        BY DEF Pending, InTopic, AtWork, Working
    <2> QED
        BY <2>1 DEF SettleInv, StatesTold
<1> QED
    BY <1>1, REInitInv, SettleInit, RENextKeeps, RENextTold, PTL DEF RESpec

=============================================================================
