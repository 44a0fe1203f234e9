-------------------------- MODULE CompEthInterfaces --------------------------
(***************************************************************************)
(* Component Ethernet interfaces: a row for each MAC address, with the     *)
(* component it belongs to and a list of IP addresses (a JSON column), each*)
(* with the network it is in.                                              *)
(*                                                                         *)
(* Calls that change one address, and PATCH, read the row and then write   *)
(* the whole list, in one transaction but without locking the row: what    *)
(* another call has committed in between is overwritten.  A row that is    *)
(* not there is read as an empty one, whose id no update matches.          *)
(*                                                                         *)
(* The list is the set of its mappings; the time of the last update is     *)
(* left out.  Ids are in lower case (some calls do not convert them).      *)
(***************************************************************************)
EXTENDS Naturals, FiniteSets

CONSTANTS
    Macs,        \* MAC addresses; the id of a row is one without the colons
    Lists,       \* lists of addresses that calls give
    Owners,      \* component ids that calls give, "" for none
    Descs,       \* descriptions
    TypeOf(_),   \* the type that a component id says it has
    EthCallers   \* handlers in progress, at any instance

ASSUME MacsAssumption == "any" \notin Macs

VARIABLES
    ifs,         \* comp_eth_interfaces: id -> row or NoIf
    ethCalls     \* what each handler is doing

ethVars == <<ifs, ethCalls>>

Keep     == "keep"     \* a field that a PATCH leaves out
KeepList == {[ip |-> Keep, net |-> Keep]}
NoIf == [owner |-> "none", type |-> "none", desc |-> "none", ips |-> {}]
EthIdle == [op |-> "idle"]

Mappings == UNION Lists
AddressesOf(ips) == {m.ip : m \in ips}

CompEthInterface(owner, desc, ips) ==
    [owner |-> owner, type |-> IF owner = "" THEN "" ELSE TypeOf(owner), desc |-> desc, ips |-> ips]

-----------------------------------------------------------------------------
(* Transactions                                                            *)

\* rows: id -> row.  FALSE when one of the ids is taken.
InsertCompEthInterfacesTx(rows) ==
    /\ \A i \in DOMAIN rows : ifs[i] = NoIf
    /\ ifs' = [i \in Macs |-> IF i \in DOMAIN rows THEN rows[i] ELSE ifs[i]]

InsertCompEthInterfaceTx(i, row) == InsertCompEthInterfacesTx([x \in {i} |-> row])

\* Variant: an interface that exists gets the addresses too.
CompInfoOverwrites(rows) ==
    ifs' = [i \in Macs |-> IF i \in DOMAIN rows THEN rows[i] ELSE ifs[i]]

\* An interface that exists only changes its component and type.
InsertCompEthInterfacesCompInfoTx(rows) ==
    ifs' = [i \in Macs |->
              IF i \notin DOMAIN rows THEN ifs[i]
              ELSE IF ifs[i] = NoIf THEN rows[i]
              ELSE [ifs[i] EXCEPT !.owner = rows[i].owner, !.type = rows[i].type]]

InsertCompEthInterfaceCompInfoTx(i, row) == InsertCompEthInterfacesCompInfoTx([x \in {i} |-> row])

GetCompEthInterfaceByIDTx(i) == ifs[i]

\* read: the row as it was read.  The description is written if it is not the one
\* that was read; no row is matched if there was none to read, or none is left.
UpdateCompEthInterfaceTx(i, read, patch) ==
    IF read = NoIf \/ ifs[i] = NoIf THEN UNCHANGED ifs
    ELSE ifs' = [ifs EXCEPT
           ![i].desc  = IF patch.desc \in {Keep, read.desc} THEN @ ELSE patch.desc,
           ![i].ips   = IF patch.ips = KeepList THEN @ ELSE patch.ips,
           ![i].owner = IF patch.owner = Keep THEN @ ELSE patch.owner,
           ![i].type  = IF patch.owner = Keep THEN @ ELSE TypeOf(patch.owner)]

DeleteCompEthInterfaceByIDTx(i) == ifs' = [ifs EXCEPT ![i] = NoIf]
DeleteCompEthInterfacesAllTx    == ifs' = [i \in Macs |-> NoIf]

-----------------------------------------------------------------------------
(* Calls of one step                                                       *)

Insertable == {CompEthInterface(o, d, ips) : o \in Owners, d \in Descs, ips \in Lists}

InsertCompEthInterface(i, row) == InsertCompEthInterfaceTx(i, row) /\ UNCHANGED ethCalls

doCompEthInterfacePostV2 == \E i \in Macs, row \in Insertable : InsertCompEthInterface(i, row)

\* Discovery stores the interfaces it found; an address is known only for the
\* endpoint's own (discover.go:594).
InsertCompEthInterfacesCompInfo ==
    /\ \E found \in SUBSET Macs, ips \in Lists, o \in Owners \ {""}, d \in Descs :
          /\ found # {}
          /\ Cardinality(ips) < 2
          /\ InsertCompEthInterfacesCompInfoTx([i \in found |-> CompEthInterface(o, d, ips)])
    /\ UNCHANGED ethCalls

DeleteCompEthInterfaceByID(i) ==
    ifs[i] # NoIf /\ DeleteCompEthInterfaceByIDTx(i) /\ UNCHANGED ethCalls
doCompEthInterfaceDelete == \E i \in Macs : DeleteCompEthInterfaceByID(i)

DeleteCompEthInterfacesAll ==
    (\E i \in Macs : ifs[i] # NoIf) /\ DeleteCompEthInterfacesAllTx /\ UNCHANGED ethCalls
doCompEthInterfaceDeleteAll == DeleteCompEthInterfacesAll

-----------------------------------------------------------------------------
(* Calls that read first                                                   *)

EthBegin(k, op, i, arg) ==
    /\ ethCalls[k] = EthIdle
    /\ ethCalls' = [ethCalls EXCEPT
                      ![k] = [op |-> op, id |-> i, read |-> GetCompEthInterfaceByIDTx(i), arg |-> arg]]
    /\ UNCHANGED ifs

EthEnd(k) == ethCalls' = [ethCalls EXCEPT ![k] = EthIdle]

NoPatch == [owner |-> Keep, desc |-> Keep, ips |-> KeepList]
ListPatch(ips) == [NoPatch EXCEPT !.ips = ips]
Patches == [owner : (Owners \ {""}) \cup {Keep}, desc : Descs \cup {Keep}, ips : Lists \cup {KeepList}]
           \ {NoPatch}

doCompEthInterfacePatchV2(k) == \E i \in Macs, p \in Patches : EthBegin(k, "patch", i, p)

UpdateCompEthInterface(k) ==
    /\ ethCalls[k].op = "patch"
    /\ UpdateCompEthInterfaceTx(ethCalls[k].id, ethCalls[k].read, ethCalls[k].arg)
    /\ EthEnd(k)

doCompEthInterfaceIPAddressPostV2(k) == \E i \in Macs, m \in Mappings : EthBegin(k, "add", i, m)

AddCompEthInterfaceIPAddress(k) ==
    LET c == ethCalls[k] IN
    /\ c.op = "add"
    /\ IF c.arg.ip \in AddressesOf(c.read.ips) THEN UNCHANGED ifs
       ELSE UpdateCompEthInterfaceTx(c.id, c.read, ListPatch(c.read.ips \cup {c.arg}))
    /\ EthEnd(k)

\* net: Keep when the body has no network.
doCompEthInterfaceIPAddressPatchV2(k) ==
    \E i \in Macs, a \in AddressesOf(Mappings), n \in {m.net : m \in Mappings} \cup {Keep} :
        EthBegin(k, "network", i, [ip |-> a, net |-> n])

\* A body without a network writes an empty list (and the answer, which looks for
\* the first address of it, panics after the commit).
UpdateCompEthInterfaceIPAddress(k) ==
    LET c == ethCalls[k]
        changed == {IF m.ip = c.arg.ip THEN c.arg ELSE m : m \in c.read.ips}
    IN /\ c.op = "network"
       /\ IF c.arg.net = Keep THEN UpdateCompEthInterfaceTx(c.id, c.read, ListPatch({}))
          ELSE IF c.arg.ip \notin AddressesOf(c.read.ips) THEN UNCHANGED ifs
          ELSE UpdateCompEthInterfaceTx(c.id, c.read, ListPatch(changed))
       /\ EthEnd(k)

doCompEthInterfaceIPAddressDeleteV2(k) ==
    \E i \in Macs, a \in AddressesOf(Mappings) : EthBegin(k, "remove", i, a)

DeleteCompEthInterfaceIPAddress(k) ==
    LET c == ethCalls[k] IN
    /\ c.op = "remove"
    /\ IF c.arg \notin AddressesOf(c.read.ips) THEN UNCHANGED ifs
       ELSE UpdateCompEthInterfaceTx(c.id, c.read, ListPatch({m \in c.read.ips : m.ip # c.arg}))
    /\ EthEnd(k)

-----------------------------------------------------------------------------
(* Endpoints that are posted with their interfaces: a transaction for each  *)
(* interface; if the id is taken and the caller forces it, one that deletes *)
(* the row and one that inserts the new one.                                *)

\* One interface: inserted, or refused, or its row found and to be replaced.
createCompEthInterfacesV2(k) ==
    /\ ethCalls[k] = EthIdle
    /\ \E i \in Macs, row \in Insertable :
          \/ InsertCompEthInterfaceTx(i, row) /\ UNCHANGED ethCalls
          \/ /\ ifs[i] # NoIf
             /\ ethCalls' = [ethCalls EXCEPT ![k] = [op |-> "replace", id |-> i, read |-> row, arg |-> Keep]]
             /\ UNCHANGED ifs

\* The row is deleted, by this call or another: then nothing is inserted.
ReplaceDeletes(k) ==
    LET i == ethCalls[k].id IN
    /\ ethCalls[k].op = "replace"
    /\ IF ifs[i] = NoIf THEN UNCHANGED ifs /\ EthEnd(k)
       ELSE DeleteCompEthInterfaceByIDTx(i) /\ ethCalls' = [ethCalls EXCEPT ![k].op = "reinsert"]

ReplaceInserts(k) ==
    /\ ethCalls[k].op = "reinsert"
    /\ InsertCompEthInterfaceTx(ethCalls[k].id, ethCalls[k].read) \/ (ifs[ethCalls[k].id] # NoIf /\ UNCHANGED ifs)
    /\ EthEnd(k)

-----------------------------------------------------------------------------
EthInit ==
    /\ ifs = [i \in Macs |-> NoIf]
    /\ ethCalls = [k \in EthCallers |-> EthIdle]

EthNext ==
    \/ doCompEthInterfacePostV2 \/ InsertCompEthInterfacesCompInfo
    \/ doCompEthInterfaceDelete \/ doCompEthInterfaceDeleteAll
    \/ \E k \in EthCallers :
        \/ doCompEthInterfacePatchV2(k) \/ UpdateCompEthInterface(k)
        \/ doCompEthInterfaceIPAddressPostV2(k) \/ AddCompEthInterfaceIPAddress(k)
        \/ doCompEthInterfaceIPAddressPatchV2(k) \/ UpdateCompEthInterfaceIPAddress(k)
        \/ doCompEthInterfaceIPAddressDeleteV2(k) \/ DeleteCompEthInterfaceIPAddress(k)
        \/ createCompEthInterfacesV2(k) \/ ReplaceDeletes(k) \/ ReplaceInserts(k)

EthSpec == EthInit /\ [][EthNext]_ethVars

-----------------------------------------------------------------------------
(* Reads                                                                   *)

\* AnyFilter: the parameter is not given.  "" asks for interfaces without an address,
\* or with an address that is in no network.
AnyFilter == {"any"}
GetCompEthInterfaceFilter(ids, ips, nets, owners) ==
    LET values(i, f) == IF ifs[i].ips = {} THEN {""}
                        ELSE IF f = "ip" THEN AddressesOf(ifs[i].ips) ELSE {m.net : m \in ifs[i].ips}
    IN {i \in Macs : /\ ifs[i] # NoIf
                     /\ ids = AnyFilter \/ i \in ids
                     /\ ips = AnyFilter \/ values(i, "ip") \cap ips # {}
                     /\ nets = AnyFilter \/ values(i, "net") \cap nets # {}
                     /\ owners = AnyFilter \/ ifs[i].owner \in owners}

doCompEthInterfacesGetV2(owners)          == GetCompEthInterfaceFilter(AnyFilter, AnyFilter, AnyFilter, owners)
doCompEthInterfaceGetV2(i)                == GetCompEthInterfaceFilter({i}, AnyFilter, AnyFilter, AnyFilter)
doCompEthInterfaceIPAddressesGetV2(i)     ==
    UNION {ifs[x].ips : x \in GetCompEthInterfaceFilter({i}, AnyFilter, AnyFilter, AnyFilter)}

-----------------------------------------------------------------------------
(* Properties                                                              *)

\* An interface says of its component the type that the component's id has, and
\* lists an address once (if no call gives it twice): overlapping calls lose
\* addresses but never repeat one, since each writes the list it has checked
\* (hmsds-postgres.go:3109-3127).
EthTypeOK ==
    \A i \in Macs :
        /\ ifs[i].owner \in {"", "none"} \/ ifs[i].type = TypeOf(ifs[i].owner)
        /\ Cardinality(AddressesOf(doCompEthInterfaceIPAddressesGetV2(i))) = Cardinality(ifs[i].ips)

\* Does the call that ends in this step ask that address a of interface i goes?  A
\* body without a network asks for nothing, yet removes all.
AsksToRemove(c, i, a) ==
    /\ c.op # "idle" /\ c.id = i
    /\ \/ c.op = "patch" /\ c.arg.ips # KeepList /\ a \notin AddressesOf(c.arg.ips)
       \/ c.op = "remove" /\ c.arg = a
       \/ c.op = "network" /\ c.arg.net = Keep

\* An address leaves an interface that stays only when a call asked for it, or when
\* the call that wrote the list had read the row before another changed it
\* (hmsds-postgres.go:3100, 3151, 3215).
AddressesKept ==
    [][\A i \in Macs : \A a \in AddressesOf(ifs[i].ips) \ AddressesOf(ifs'[i].ips) :
         ifs'[i] # NoIf =>
           \E k \in EthCallers : /\ ethCalls'[k] = EthIdle
                                 /\ \/ AsksToRemove(ethCalls[k], i, a)
                                    \/ ethCalls[k].op # "idle" /\ ethCalls[k].id = i /\ ethCalls[k].read # ifs[i]]_ethVars

=============================================================================
