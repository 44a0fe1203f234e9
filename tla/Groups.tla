------------------------------- MODULE Groups -------------------------------
(***************************************************************************)
(* Groups and partitions and their members.  Both are rows of one table    *)
(* with an internal id; a member row has the component, the id and a       *)
(* namespace, and the database takes no two rows with the same component   *)
(* and id, or the same component and namespace.  Which namespace a row     *)
(* gets is decided by the code: the label of a shared group, the name of   *)
(* the exclusive group, or one for all partitions.                         *)
(*                                                                         *)
(* A call looks the group up and then changes members by id, each in a     *)
(* statement of its own; PUT of the members deletes all and inserts new    *)
(* ones.  A DELETE does not see rows inserted after it began, and waits    *)
(* for rows that another transaction is deleting.                          *)
(***************************************************************************)
EXTENDS Naturals, FiniteSets

CONSTANTS
    Comps,      \* components
    Callers,    \* handlers in progress, at any instance
    Ids,        \* internal ids (a new one is made for each group)
    Mixes       \* what a behaviour is about: groups and partitions, tags, and
                \* the sets of members that calls ask for

ASSUME MixesAssumption ==
    \A m \in Mixes : \A g \in m.groups :
        /\ g = [kind |-> g.kind, name |-> g.name, excl |-> g.excl, tag |-> g.tag]
        /\ g.kind \in {"group", "partition"} /\ g.tag \in m.tags

VARIABLES
    comps,      \* ids in the components table
    groups,     \* component_groups: id -> group or NoGroup
    members,    \* component_group_members: set of rows
    tx,         \* what each handler is doing
    mix         \* what this behaviour is about

vars == <<comps, groups, members, tx, mix>>

None    == "none"
ASSUME IdsAssumption == Ids \cap {None, "NULL"} = {}
NoGroup == [kind |-> None, name |-> None, excl |-> None, tag |-> None]
Live    == {i \in Ids : groups[i] # NoGroup}
Idle    == [pc |-> "idle"]

\* Variant: the members of an exclusive group are in the namespace of its label.
NamespaceOfLabel(g) ==
    IF g.kind = "partition" THEN <<"partition", "">> ELSE <<"shared", g.name>>

Namespace(g) ==
    IF g.kind = "partition" THEN <<"partition", "">>
    ELSE IF g.excl # "" THEN <<"exclusive", g.excl>> ELSE <<"shared", g.name>>

-----------------------------------------------------------------------------
(* Transactions                                                            *)

GetEmptyGroupTx(name)     == {i \in Live : groups[i].kind = "group" /\ groups[i].name = name}
GetEmptyPartitionTx(name) == {i \in Live : groups[i].kind = "partition" /\ groups[i].name = name}
Lookup(g) == IF g.kind = "partition" THEN GetEmptyPartitionTx(g.name) ELSE GetEmptyGroupTx(g.name)

\* A transaction holds the rows that it has deleted until it ends.
Held(k)   == IF tx[k].pc = "insert" THEN tx[k].dels ELSE {}
Others(k) == UNION {Held(j) : j \in Callers \ {k}}

\* Variant: every member row gets the namespace of partitions.
InsertMembersAsPartition(id, ns, ids) ==
    {[comp |-> c, id |-> id, ns |-> <<"partition", "">>] : c \in ids}

InsertMembersTx(id, ns, ids) == {[comp |-> c, id |-> id, ns |-> ns] : c \in ids}

Clash(r, s) == r.comp = s.comp /\ (r.id = s.id \/ r.ns = s.ns)

\* Rows that cannot be inserted, and rows for whose end an insert must wait.
Refused(k, rows)  == \E r \in rows : \/ r.comp \notin comps \/ r.id \notin Live
                                     \/ \E s \in members \ (Held(k) \cup Others(k)) : Clash(r, s)
Blocked(k, rows)  == \E r \in rows, s \in Others(k) : Clash(r, s)

GetMembersTx(id) == {r.comp : r \in {s \in members : s.id = id}}

\* Variant: members in no partition are those with one row of their own.
MembersFilterOneRow(id, part) ==
    LET joined(c) == {s \in members : s.comp = c /\ (part # None => s.id \in {id, part})}
    IN {c \in GetMembersTx(id) : Cardinality(joined(c)) = IF part = None THEN 1 ELSE 2}

\* The members of id that are in partition part, or in none.  The statement joins
\* the table with itself and counts the rows of a component.
GetMembersFilterTx(id, part) ==
    LET joined(c) == {s \in members : s.comp = c /\
                        IF part = None THEN s.id = id \/ s.ns = <<"partition", "">>
                        ELSE s.id \in {id, part}}
    IN {c \in GetMembersTx(id) : Cardinality(joined(c)) = IF part = None THEN 1 ELSE 2}

DeleteMemberTx(id, c)  == {r \in members : r.id = id /\ r.comp = c}
DeleteMembersAllTx(id) == {r \in members : r.id = id}

\* Calls whose DELETE has begun do not see rows that are inserted now.
Unseen(rows) ==
    [k \in Callers |-> IF tx[k].pc \in {"delete", "insert"}
                       THEN [tx[k] EXCEPT !.fresh = @ \cup {r \in rows : r.id = tx[k].id}]
                       ELSE tx[k]]

-----------------------------------------------------------------------------
(* Creation and deletion                                                   *)

\* A new id is one that no group has and no handler remembers.
NewIds == {i \in Ids \ Live : \A k \in Callers : tx[k] = Idle \/ tx[k].id # i}

InsertEmptyGroupTx(id, g)     == [groups EXCEPT ![id] = g]
InsertEmptyPartitionTx(id, g) == [groups EXCEPT ![id] = g]

\* The group and its members, or nothing.
Insert(g, ids) ==
    \E id \in NewIds :
        LET rows == InsertMembersTx(id, Namespace(g), ids)
            clash(r) == \E s \in members : Clash(r, s)
        IN /\ Lookup(g) = {}
           /\ \A r \in rows : r.comp \in comps /\ ~clash(r)
           /\ groups' = IF g.kind = "group" THEN InsertEmptyGroupTx(id, g)
                        ELSE InsertEmptyPartitionTx(id, g)
           /\ members' = members \cup rows
           /\ tx' = Unseen(rows)
    /\ UNCHANGED <<comps, mix>>

InsertGroup(g, ids)     == g.kind = "group" /\ Insert(g, ids)
InsertPartition(g, ids) == g.kind = "partition" /\ Insert(g, ids)

doGroupsPost     == \E g \in mix.groups, ids \in mix.wanted : InsertGroup(g, ids)
doPartitionsPost == \E g \in mix.groups, ids \in mix.wanted : InsertPartition(g, ids)

\* The members go with the group; rows being deleted are waited for.
Delete(id) ==
    /\ DeleteMembersAllTx(id) \cap UNION {Held(k) : k \in Callers} = {}
    /\ groups' = [groups EXCEPT ![id] = NoGroup]
    /\ members' = members \ DeleteMembersAllTx(id)
    /\ UNCHANGED <<comps, tx, mix>>

DeleteGroup(name)     == \E id \in GetEmptyGroupTx(name) : Delete(id)
DeletePartition(name) == \E id \in GetEmptyPartitionTx(name) : Delete(id)

doGroupDelete     == \E g \in mix.groups : DeleteGroup(g.name)
doPartitionDelete == \E g \in mix.groups : DeletePartition(g.name)

\* Components come and go through /State/Components; memberships go with them.
DeleteComponent(c) ==
    /\ c \in comps
    /\ \A k \in Callers : \A r \in Held(k) : r.comp # c
    /\ comps' = comps \ {c}
    /\ members' = {r \in members : r.comp # c}
    /\ UNCHANGED <<groups, tx, mix>>

InsertComponent(c) ==
    /\ c \notin comps
    /\ comps' = comps \cup {c}
    /\ UNCHANGED <<groups, members, tx, mix>>

-----------------------------------------------------------------------------
(* Calls that look a group up first                                        *)

\* A call begins: it reads the group and remembers its id and namespace.
Begin(k, g, op, ids) ==
    /\ tx[k] = Idle
    /\ \E id \in Lookup(g) :
        tx' = [tx EXCEPT ![k] = [pc |-> op, id |-> id, ns |-> Namespace(groups[id]),
                                 tag |-> IF op = "patch" THEN groups[id].tag ELSE None, ids |-> ids, targets |-> {},
                                 dels |-> {}, fresh |-> {}]]
    /\ UNCHANGED <<comps, groups, members, mix>>

doGroupMembersPost(k)     == \E g \in mix.groups, c \in UNION mix.wanted : g.kind = "group" /\ Begin(k, g, "add", {c})
doPartitionMembersPost(k) == \E g \in mix.groups, c \in UNION mix.wanted : g.kind = "partition" /\ Begin(k, g, "add", {c})
doGroupMemberDelete(k)     == \E g \in mix.groups, c \in UNION mix.wanted : g.kind = "group" /\ Begin(k, g, "remove", {c})
doPartitionMemberDelete(k) ==
    \E g \in mix.groups, c \in UNION mix.wanted : g.kind = "partition" /\ Begin(k, g, "remove", {c})
doGroupMembersPut(k) == \E g \in mix.groups, ids \in mix.wanted : g.kind = "group" /\ Begin(k, g, "put", ids)

\* It ends, for good or with an error and nothing done.
End(k, new) == tx' = [new EXCEPT ![k] = Idle]

OfPartition(k) == tx[k].ns = <<"partition", "">>

AddMember(k) ==
    LET rows == InsertMembersTx(tx[k].id, tx[k].ns, tx[k].ids) IN
    /\ ~Blocked(k, rows)
    /\ IF Refused(k, rows) THEN End(k, tx) /\ UNCHANGED members
       ELSE End(k, Unseen(rows)) /\ members' = members \cup rows
    /\ UNCHANGED <<comps, groups, mix>>

AddGroupMember(k)     == tx[k].pc = "add" /\ ~OfPartition(k) /\ AddMember(k)
AddPartitionMember(k) == tx[k].pc = "add" /\ OfPartition(k) /\ AddMember(k)

DeleteMember(k) ==
    LET rows == UNION {DeleteMemberTx(tx[k].id, c) : c \in tx[k].ids} IN
    /\ rows \cap Others(k) = {}
    /\ members' = members \ rows
    /\ End(k, tx)
    /\ UNCHANGED <<comps, groups, mix>>

DeleteGroupMember(k)     == tx[k].pc = "remove" /\ ~OfPartition(k) /\ DeleteMember(k)
DeletePartitionMember(k) == tx[k].pc = "remove" /\ OfPartition(k) /\ DeleteMember(k)

\* PUT of the members: the DELETE begins,
PutDelete(k) ==
    /\ tx[k].pc = "put"
    /\ tx' = [tx EXCEPT ![k].pc = "delete", ![k].targets = DeleteMembersAllTx(tx[k].id)]
    /\ UNCHANGED <<comps, groups, members, mix>>

\* it ends when it has all rows that were there and still are,
PutDeleted(k) ==
    /\ tx[k].pc = "delete"
    /\ tx[k].targets \cap Others(k) = {}
    /\ tx' = [tx EXCEPT ![k].pc = "insert", ![k].targets = {},
                         ![k].dels = (tx[k].targets \cap members) \ tx[k].fresh]
    /\ UNCHANGED <<comps, groups, members, mix>>

\* Variant: the members that are there stay.
SetGroupMembersAdds(k) ==
    LET rows == InsertMembersTx(tx[k].id, tx[k].ns, tx[k].ids) IN
    /\ tx[k].pc = "insert"
    /\ ~Blocked(k, rows)
    /\ IF Refused(k, rows) THEN End(k, tx) /\ UNCHANGED members
       ELSE End(k, Unseen(rows)) /\ members' = members \cup rows
    /\ UNCHANGED <<comps, groups, mix>>

\* and the new members are inserted, or everything is undone.
SetGroupMembers(k) ==
    LET rows == InsertMembersTx(tx[k].id, tx[k].ns, tx[k].ids) IN
    /\ tx[k].pc = "insert"
    /\ ~Blocked(k, rows)
    /\ IF Refused(k, rows) THEN End(k, tx) /\ UNCHANGED members
       ELSE End(k, Unseen(rows)) /\ members' = (members \ tx[k].dels) \cup rows
    /\ UNCHANGED <<comps, groups, mix>>

\* Two that wait for each other: the database ends one with an error.
AbortDeadlock(k) ==
    LET waits(i, j) == /\ tx[i].pc = "insert"
                       /\ \E r \in InsertMembersTx(tx[i].id, tx[i].ns, tx[i].ids), s \in Held(j) :
                              Clash(r, s)
    IN /\ \E j \in Callers \ {k} : waits(k, j) /\ waits(j, k)
       /\ End(k, tx)
       /\ UNCHANGED <<comps, groups, members, mix>>

\* PATCH reads the tags, and updates them if they are not the ones wanted.
doGroupPatch(k)     == \E g \in mix.groups : g.kind = "group" /\ Begin(k, g, "patch", {})
doPartitionPatch(k) == \E g \in mix.groups : g.kind = "partition" /\ Begin(k, g, "patch", {})

UpdateEmptyGroupTx(id, read, tag) ==
    IF read # tag /\ id \in Live THEN [groups EXCEPT ![id].tag = tag] ELSE groups
UpdateEmptyPartitionTx(id, read, tag) ==
    IF read # tag /\ id \in Live THEN [groups EXCEPT ![id].tag = tag] ELSE groups

UpdateGroup(k) ==
    /\ tx[k].pc = "patch" /\ ~OfPartition(k)
    /\ \E tag \in mix.tags : groups' = UpdateEmptyGroupTx(tx[k].id, tx[k].tag, tag)
    /\ End(k, tx)
    /\ UNCHANGED <<comps, members, mix>>

UpdatePartition(k) ==
    /\ tx[k].pc = "patch" /\ OfPartition(k)
    /\ \E tag \in mix.tags : groups' = UpdateEmptyPartitionTx(tx[k].id, tx[k].tag, tag)
    /\ End(k, tx)
    /\ UNCHANGED <<comps, members, mix>>

-----------------------------------------------------------------------------
Init ==
    /\ mix \in Mixes
    /\ comps = Comps
    /\ groups = [i \in Ids |-> NoGroup]
    /\ members = {}
    /\ tx = [k \in Callers |-> Idle]

Next ==
    \/ doGroupsPost \/ doPartitionsPost \/ doGroupDelete \/ doPartitionDelete
    \/ \E c \in Comps : DeleteComponent(c) \/ InsertComponent(c)
    \/ \E k \in Callers :
        \/ doGroupMembersPost(k) \/ doPartitionMembersPost(k)
        \/ AddGroupMember(k) \/ AddPartitionMember(k)
        \/ doGroupMemberDelete(k) \/ doPartitionMemberDelete(k)
        \/ DeleteGroupMember(k) \/ DeletePartitionMember(k)
        \/ doGroupMembersPut(k) \/ PutDelete(k) \/ PutDeleted(k) \/ SetGroupMembers(k)
        \/ AbortDeadlock(k)
        \/ doGroupPatch(k) \/ doPartitionPatch(k) \/ UpdateGroup(k) \/ UpdatePartition(k)

Spec == Init /\ [][Next]_vars

-----------------------------------------------------------------------------
(* Reads.  A GET of all groups reads each in a transaction of its own: what *)
(* follows is its answer when nothing changes meanwhile.                    *)

\* filter: None for all members, "NULL" for those in no partition, or the id of a
\* partition
GetGroup(id, filter) ==
    IF filter = None THEN GetMembersTx(id)
    ELSE IF filter = "NULL" THEN GetMembersFilterTx(id, None)
    ELSE GetMembersFilterTx(id, filter)

GetPartition(id) == GetMembersTx(id)

GetGroupLabels    == {i \in Live : groups[i].kind = "group"}
GetPartitionNames == {i \in Live : groups[i].kind = "partition"}

doGroupsGet(filter) == [id \in GetGroupLabels |-> GetGroup(id, filter)]
doPartitionsGet     == [id \in GetPartitionNames |-> GetPartition(id)]

\* The members of one group or partition.
doGroupMembersGet(id, filter) == GetGroup(id, filter)
doPartitionMembersGet(id)     == GetPartition(id)

\* Components joined with the groups they are in; a later partition would
\* replace an earlier one.
GetMemberships ==
    [c \in comps |->
        LET mine == {r.id : r \in {s \in members : s.comp = c}} IN
        [groups |-> mine \cap GetGroupLabels,
         part   |-> IF mine \cap GetPartitionNames = {} THEN None
                    ELSE CHOOSE i \in mine \cap GetPartitionNames : TRUE]]
doMembershipsGet(ids) == [c \in ids \cap comps |-> GetMemberships[c]]

-----------------------------------------------------------------------------
(* Properties                                                              *)

\* Members are components and groups that exist, with the namespace that the
\* group has, and a transaction deletes rows that are there (migrations/postgres/
\* 3_create_version1.up.sql:227-238; hmsds-postgres.go:3829).
GTypeOK ==
    /\ comps \subseteq Comps
    /\ \A i \in Live : groups[i].tag \in mix.tags
    /\ \A r \in members : r.comp \in comps /\ r.id \in Live /\ r.ns = Namespace(groups[r.id])
    /\ \A k \in Callers : Held(k) \subseteq members

\* A component is in at most one partition and in at most one group of each
\* exclusive group, whatever calls overlap.  The database knows only the
\* namespace that the code gave the row (hmsds-postgres.go:3645, 3784, 3845).
OneOfEach ==
    \A r, s \in members :
        r.comp = s.comp /\ r.id # s.id =>
            LET g == groups[r.id]
                h == groups[s.id]
            IN /\ ~(g.kind = "partition" /\ h.kind = "partition")
               /\ g.kind = "group" /\ h.kind = "group" /\ g.excl # "" => g.excl # h.excl

\* After a PUT of members the group has the members it asked for, or the PUT has
\* failed and changed nothing; others stay only if a call inserted them since the
\* PUT's DELETE began (hmsds-postgres.go:3829-3873).
PutReplaces ==
    [][\A k \in Callers : SetGroupMembers(k) =>
         \/ members' = members
         \/ LET now == {r \in members' : r.id = tx[k].id} IN
            /\ tx[k].ids \subseteq {r.comp : r \in now}
            /\ \A r \in now : r.comp \in tx[k].ids \/ r \in tx[k].fresh]_vars

\* The three ways to ask for memberships agree: a group's members split into those
\* of each partition and those of none, and what is said of a component is what
\* is said of the groups (hmsds-tx-postgres.go:5099; hmsds-postgres.go:4164).
ViewsAgree ==
    /\ \A id \in GetGroupLabels :
          /\ doGroupsGet(None)[id] = doGroupsGet("NULL")[id] \cup
                 UNION {doGroupsGet(p)[id] : p \in GetPartitionNames}
          /\ \A p \in GetPartitionNames :
                doGroupsGet(p)[id] = doGroupsGet(None)[id] \cap doPartitionsGet[p]
    /\ \A c \in comps :
          /\ doMembershipsGet({c})[c].groups =
                {i \in GetGroupLabels : c \in doGroupMembersGet(i, None)}
          /\ \A p \in GetPartitionNames : c \in doPartitionMembersGet(p) <=> doMembershipsGet({c})[c].part = p

=============================================================================
