---------------------------- MODULE HWInventory ----------------------------
(***************************************************************************)
(* The hardware inventory: a row for each location with the FRU (field     *)
(* replaceable unit) that is in it, a row for each FRU, and the history of *)
(* each location.  A call that stores locations (POST, a discovery, a      *)
(* Redfish event) does it in one transaction; it then reads the last event *)
(* of each in a second one and appends what has changed in a third one,    *)
(* and nobody hears of it if one of these two fails.  An endpoint that     *)
(* goes takes its locations with it in the same transaction as their       *)
(* Removed events.                                                         *)
(*                                                                         *)
(* The history is in the order of the events' timestamps; a filter on      *)
(* times, manufacturer, part and serial number is left out, as are status  *)
(* and description of a location.                                          *)
(***************************************************************************)
EXTENDS Naturals, Sequences, FiniteSets

CONSTANTS
    Locs,        \* locations
    Kind(_),     \* "node", "inner" (a part of a node), "pdu", "outlet" or "other"
    Parent(_),   \* the node or PDU that a part or outlet is in
    Above(_),    \* a location and all that it is in
    Ordinal(_),  \* the number of a node under its controller
    Bodies,      \* bodies of POST: locations -> FRU
    Finds,       \* what Redfish reports: locations -> name of the FRU or "empty"
    HwCallers,   \* calls in progress, at any instance
    MaxHist(_)   \* bound on the events of a location

ASSUME LocsAssumption      == "all" \notin Locs
ASSUME HwCallersAssumption == HwCallers \cap {"some", "none"} = {}
ASSUME MaxHistAssumption   == \A l \in Locs : MaxHist(l) \in Nat

VARIABLES
    locs,        \* hwinv_by_loc: location -> FRU, Empty or NoLoc
    frus,        \* hwinv_by_fru
    hist,        \* hwinv_hist: location -> events, the first one first
    hwCalls,     \* what each call is doing
    owes         \* location -> the call whose events are still to come, "some" if
                 \* they were lost or disturbed, "none" (a history variable)

hwVars == <<locs, frus, hist, hwCalls, owes>>

Fru(name, n) == [name |-> name, n |-> n]
Empty == Fru("empty", 0)
NoLoc == Fru("none", 0)
Populated(l) == locs[l] \notin {Empty, NoLoc}
HwIdle == [op |-> "idle", body |-> <<>>, events |-> <<>>]
Event(fru, type) == [fru |-> fru, type |-> type]

Last(s) == s[Len(s)]

Room(ls) == \A l \in ls : Len(hist[l]) < MaxHist(l)

-----------------------------------------------------------------------------
(* Locations and FRUs                                                      *)

BulkInsertHWInvByFRUTx(fs) == frus' = frus \cup fs

\* A FRU of a location has to be there; what was in the location is detached.
BulkInsertHWInvByLocTx(body) ==
    /\ {body[l] : l \in DOMAIN body} \subseteq frus' \cup {Empty}
    /\ locs' = [l \in Locs |-> IF l \in DOMAIN body THEN body[l] ELSE locs[l]]

InsertHWInvByLocs(body) ==
    /\ BulkInsertHWInvByFRUTx({body[l] : l \in DOMAIN body} \ {Empty})
    /\ BulkInsertHWInvByLocTx(body)

\* The call that stored a location last owes its history an event.
Store(k, body) ==
    /\ hwCalls[k] = HwIdle
    /\ InsertHWInvByLocs(body)
    /\ hwCalls' = [hwCalls EXCEPT ![k] = [HwIdle EXCEPT !.op = "read", !.body = body]]
    /\ owes' = [l \in Locs |-> IF l \in DOMAIN body THEN k ELSE owes[l]]
    /\ UNCHANGED hist

doHWInvByLocationPost(k) == \E body \in Bodies : Store(k, body)

\* Variant: the first node keeps its id.
DiscoverHWInvRenamesOthers(find, first) ==
    LET alike == {l \in DOMAIN find : Kind(l) = "node" /\ find[l] = find[first]} \ {first}
    IN [l \in DOMAIN find |->
          IF find[l] = "empty" THEN Empty ELSE Fru(find[l], IF l \in alike THEN Ordinal(l) + 1 ELSE 0)]

\* Nodes of one FRU get ids of their own if the first node that is looked at, any
\* one of the map of them, is one of these.
DiscoverHWInvByLocArray(find, first) ==
    LET alike == {l \in DOMAIN find : Kind(l) = "node" /\ find[l] = find[first]}
    IN [l \in DOMAIN find |->
          IF find[l] = "empty" THEN Empty
          ELSE Fru(find[l], IF alike # {first} /\ l \in alike THEN Ordinal(l) + 1 ELSE 0)]

\* A discovery of the endpoint.  Which node with a FRU is looked at first is open.
Reports(find) ==
    LET nodes == {l \in DOMAIN find : Kind(l) = "node" /\ find[l] # "empty"}
    IN {DiscoverHWInvByLocArray(find, first) : first \in IF nodes = {} THEN DOMAIN find ELSE nodes}

updateFromRfEndpoint(k) == \E find \in Finds : \E body \in Reports(find) : Store(k, body)

\* An event about a node: the history goes on whether or not it could be stored.
doUpdateCompHWInv(k) ==
    \E find \in Finds : \E body \in Reports(find), n \in {l \in DOMAIN find : Kind(l) = "node"} :
        LET part == [l \in {x \in DOMAIN find : n \in Above(x)} |-> body[l]] IN
        \/ Store(k, part)
        \/ /\ hwCalls[k] = HwIdle
           /\ hwCalls' = [hwCalls EXCEPT ![k] = [HwIdle EXCEPT !.op = "read", !.body = part]]
           /\ owes' = [l \in Locs |-> IF l \in DOMAIN part THEN "some" ELSE owes[l]]
           /\ UNCHANGED <<locs, frus, hist>>

HwUnchanged == UNCHANGED <<frus, hist, hwCalls, owes>>

\* A FRU stays when its location goes, and the history is not told.
DeleteHWInvByLocID(l) == locs[l] # NoLoc /\ locs' = [locs EXCEPT ![l] = NoLoc]
DeleteHWInvByLocsAll  == (\E l \in Locs : locs[l] # NoLoc) /\ locs' = [l \in Locs |-> NoLoc]
doHWInvByLocationDelete    == HwUnchanged /\ \E l \in Locs : DeleteHWInvByLocID(l)
doHWInvByLocationDeleteAll == HwUnchanged /\ DeleteHWInvByLocsAll

\* A FRU that is in a location is not deleted, nor is any with it.
Located == {locs[l] : l \in Locs}

DeleteHWInvByFRUID(f) == f \in frus \ Located /\ frus' = frus \ {f}
DeleteHWInvByFRUsAll  == frus # {} /\ frus \cap Located = {} /\ frus' = {}
doHWInvByFRUDelete    == (\E f \in frus : DeleteHWInvByFRUID(f)) /\ UNCHANGED <<locs, hist, hwCalls, owes>>
doHWInvByFRUDeleteAll == DeleteHWInvByFRUsAll /\ UNCHANGED <<locs, hist, hwCalls, owes>>

-----------------------------------------------------------------------------
(* History                                                                 *)

Detected(fru) == Event(fru, "Detected")

\* Variant: every location with a FRU is news.
NewEventsUnfiltered(body) == {l \in DOMAIN body : body[l] # Empty}

\* Locations whose last event does not say that what was found is there.
NewEvents(body) ==
    {l \in DOMAIN body : body[l] # Empty /\ (hist[l] = <<>> \/ Last(hist[l]) # Detected(body[l]))}

\* Reads the last events.
GenerateHWInvHist(k) ==
    LET c == hwCalls[k] IN
    /\ c.op = "read"
    /\ hwCalls' = [hwCalls EXCEPT ![k] = [c EXCEPT !.op = "append", !.body =
                     [l \in NewEvents(c.body) |-> c.body[l]], !.events = DOMAIN c.body]]
    /\ UNCHANGED <<locs, frus, hist, owes>>

\* Variant: they are dated by when they were read.
InsertHWInvHistsFirst(k) ==
    LET c == hwCalls[k] IN
    /\ c.op = "append" /\ Room(DOMAIN c.body)
    /\ hist' = [l \in Locs |-> IF l \in DOMAIN c.body THEN <<Detected(c.body[l])>> \o hist[l] ELSE hist[l]]
    /\ hwCalls' = [hwCalls EXCEPT ![k] = HwIdle]
    /\ owes' = [l \in Locs |-> IF l \in c.events /\ owes[l] = k THEN "none"
                               ELSE IF l \in DOMAIN c.body THEN "some" ELSE owes[l]]
    /\ UNCHANGED <<locs, frus>>

InsertHWInvHists(k) ==
    LET c == hwCalls[k] IN
    /\ c.op = "append" /\ Room(DOMAIN c.body)
    /\ hist' = [l \in Locs |-> IF l \in DOMAIN c.body THEN Append(hist[l], Detected(c.body[l])) ELSE hist[l]]
    /\ hwCalls' = [hwCalls EXCEPT ![k] = HwIdle]
    /\ owes' = [l \in Locs |-> IF l \in c.events /\ owes[l] = k THEN "none"
                               ELSE IF l \in DOMAIN c.body THEN "some" ELSE owes[l]]
    /\ UNCHANGED <<locs, frus>>

\* The database or the instance fails; the answer says that all is well.
HistoryFails(k) ==
    /\ hwCalls[k] # HwIdle
    /\ hwCalls' = [hwCalls EXCEPT ![k] = HwIdle]
    /\ owes' = [l \in Locs |-> IF owes[l] = k THEN "some" ELSE owes[l]]
    /\ UNCHANGED <<locs, frus, hist>>

\* An endpoint is deleted or disabled: its components become Empty, and what is at or
\* under those that were not is detached.
SetChildCompStatesRFEndpointsTx ==
    \E top \in Locs :
        LET gone == {l \in Locs : top \in Above(l) /\ locs[l] # NoLoc} IN
        /\ gone # {} /\ Room(gone)
        /\ locs' = [l \in Locs |-> IF l \in gone THEN NoLoc ELSE locs[l]]
        /\ hist' = [l \in Locs |-> IF l \in gone /\ Populated(l) THEN Append(hist[l], Event(locs[l], "Removed"))
                                   ELSE hist[l]]
        /\ owes' = [l \in Locs |-> IF l \in gone /\ Populated(l) THEN "none" ELSE owes[l]]
        /\ UNCHANGED <<frus, hwCalls>>

Forget(l, kept) ==
    /\ hist' = [hist EXCEPT ![l] = kept]
    /\ owes' = [owes EXCEPT ![l] = "some"]
    /\ UNCHANGED <<locs, frus, hwCalls>>

DeleteHWInvHistByLocID(l) == hist[l] # <<>> /\ Forget(l, <<>>)
doHWInvHistByLocationDelete == \E l \in Locs : DeleteHWInvHistByLocID(l)

\* Events of others, in the order they were in.
Without(events, f) ==
    LET kept == {i \in DOMAIN events : events[i].fru # f}
    IN [j \in 1..Cardinality(kept) |->
          events[CHOOSE i \in kept : Cardinality({m \in kept : m <= i}) = j]]

DeleteHWInvHistByFRUID(f) ==
    LET had == {l \in Locs : \E i \in DOMAIN hist[l] : hist[l][i].fru = f}
    IN /\ had # {}
       /\ hist' = [l \in Locs |-> IF l \in had THEN Without(hist[l], f) ELSE hist[l]]
       /\ owes' = [l \in Locs |-> IF l \in had THEN "some" ELSE owes[l]]
       /\ UNCHANGED <<locs, frus, hwCalls>>
doHWInvHistByFRUDelete == \E f \in frus : DeleteHWInvHistByFRUID(f)

DeleteHWInvHistAll ==
    /\ \E l \in Locs : hist[l] # <<>>
    /\ hist' = [l \in Locs |-> <<>>]
    /\ owes' = [l \in Locs |-> IF hist[l] # <<>> THEN "some" ELSE owes[l]]
    /\ UNCHANGED <<locs, frus, hwCalls>>
doHWInvHistDeleteAll == DeleteHWInvHistAll

-----------------------------------------------------------------------------
HwInit ==
    /\ locs = [l \in Locs |-> NoLoc] /\ frus = {}
    /\ hist = [l \in Locs |-> <<>>]
    /\ hwCalls = [k \in HwCallers |-> HwIdle]
    /\ owes = [l \in Locs |-> "none"]

HwNext ==
    \/ \E k \in HwCallers :
        \/ doHWInvByLocationPost(k) \/ updateFromRfEndpoint(k) \/ doUpdateCompHWInv(k)
        \/ GenerateHWInvHist(k) \/ InsertHWInvHists(k) \/ HistoryFails(k)
    \/ doHWInvByLocationDelete \/ doHWInvByLocationDeleteAll
    \/ doHWInvByFRUDelete \/ doHWInvByFRUDeleteAll
    \/ SetChildCompStatesRFEndpointsTx
    \/ doHWInvHistByLocationDelete \/ doHWInvHistByFRUDelete \/ doHWInvHistDeleteAll

HwSpec == HwInit /\ [][HwNext]_hwVars

-----------------------------------------------------------------------------
(* Reads                                                                   *)

There == {l \in Locs : locs[l] # NoLoc}

\* id: a location or "all".  kinds: {} for all.  A query for the parts of what it
\* finds, of which it finds none, has a pattern left that any location matches.
getHWInvByLocQuery(id, kinds, children, parents) ==
    LET under(tops) == {l \in There : Above(l) \cap tops # {}}
        asked  == IF id = "all" THEN There ELSE IF children \/ kinds # {} THEN under({id}) ELSE There \cap {id}
        kept   == {l \in asked : kinds = {} \/ Kind(l) \in kinds}
        chosen == IF parents /\ children THEN asked
                  ELSE IF children /\ kinds # {} THEN (IF kept = {} THEN There ELSE under(kept))
                  ELSE kept
    IN chosen \cup (IF parents /\ id # "all" THEN There \cap Above(id) ELSE {})

\* Variant: a part whose node is not among them is left out.
NestWithNodesOnly(ls, flat) ==
    LET nested(l) == ~flat /\ Kind(l) \in {"inner", "outlet"}
    IN [own   |-> {l \in ls : ~nested(l)},
        under |-> [p \in ls |-> {l \in ls : nested(l) /\ Parent(l) = p}]]

\* The answer: locations of their own, and those nested in others.  A part of a node
\* that is not there is listed on its own; an outlet is first put back, then dropped.
NewSystemHWInventory(ls, flat) ==
    LET nested(l) == ~flat /\ Kind(l) \in {"inner", "outlet"} /\ Parent(l) \in ls
    IN [own   |-> {l \in ls : ~nested(l) /\ (flat \/ Kind(l) # "outlet")},
        under |-> [p \in ls |-> {l \in ls : nested(l) /\ Parent(l) = p}]]

doHWInvByLocationQueryGet(id, kinds, children, parents, flat) ==
    NewSystemHWInventory(getHWInvByLocQuery(id, kinds, children, parents), flat)

GetHWInvByLocFilter(ids, kinds, fs) ==
    {l \in There : /\ ids = {} \/ l \in ids
                   /\ kinds = {} \/ Kind(l) \in kinds
                   /\ fs = {} \/ locs[l] \in fs}
doHWInvByLocationGet(l)                 == GetHWInvByLocFilter({l}, {}, {})
doHWInvByLocationGetAll(ids, kinds, fs) == GetHWInvByLocFilter(ids, kinds, fs)
GetHWInvByFRUFilter(fs)                 == {f \in frus : fs = {} \/ f \in fs}

GetHWInvHistFilterTx(l, fs, types) ==
    SelectSeq(hist[l], LAMBDA e : (fs = {} \/ e.fru \in fs) /\ (types = {} \/ e.type \in types))

-----------------------------------------------------------------------------
(* Properties                                                              *)

\* Fields have their types, and a FRU that is in a location has a row.
HwTypeOK ==
    /\ {locs[l] : l \in Locs} \subseteq frus \cup {Empty, NoLoc}
    /\ \A l \in Locs : Len(hist[l]) <= MaxHist(l)
    /\ \A l \in Locs : owes[l] \in {"none", "some"} \cup HwCallers

\* What is in a location is what its last event says was detected there, unless the
\* call that stored it has still to say so, or could not, or another call has said
\* something in between, or an event told of what it could not store (discover.go:865-909, smd-api.go:1519).
HistoryTells ==
    \A l \in Locs : Populated(l) /\ owes[l] = "none" =>
        hist[l] # <<>> /\ Last(hist[l]) = Detected(locs[l])

\* An event that repeats the one before comes from calls about one location that
\* overlap (discover.go:895-901).
NewsIsNew ==
    [][\A k \in HwCallers : hwCalls[k].op = "append" /\ hwCalls'[k] = HwIdle =>
         \A l \in Locs : owes[l] = k /\ hist'[l] # hist[l] =>
             hist[l] = <<>> \/ Last(hist[l]) # Last(hist'[l])]_hwVars

\* Nodes that are found to have one FRU are told apart, and get the same ids again
\* whichever of them comes first (discover.go:675-693).
NodesToldApart ==
    \A f \in frus :
        LET find  == [l \in {x \in Locs : Kind(x) = "node"} |-> f.name]
            named == {DiscoverHWInvByLocArray(find, first) : first \in DOMAIN find}
        IN \A ids \in named :
              /\ named = {ids}
              /\ \A l, m \in DOMAIN ids : l # m => ids[l] # ids[m]

\* A query for the parts of a location, of which there are some, answers with all that is
\* at or under them and with nothing else: "if type=node and id=x0c0s0, we would get all
\* the nodes under x0c0s0 as well as their processors and memory".  Each is listed once,
\* on its own or nested, whether or not the node it belongs to is among them
\* (query-shared-sq.go:1265-1269, hwinv.go:326-489).
ListedOnce ==
    \A id \in Locs, kinds \in {{Kind(l)} : l \in Locs}, flat \in BOOLEAN :
        LET tops == {l \in There : id \in Above(l) /\ Kind(l) \in kinds}
            r    == doHWInvByLocationQueryGet(id, kinds, TRUE, FALSE, flat)
        IN tops # {} => \A l \in {x \in There : Kind(x) # "outlet"} :
               LET own == l \in r.own  nested == \E p \in DOMAIN r.under : l \in r.under[p]
               IN IF Above(l) \cap tops # {} THEN own # nested ELSE ~own /\ ~nested

=============================================================================
