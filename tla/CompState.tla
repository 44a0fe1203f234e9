------------------------------ MODULE CompState ------------------------------
(***************************************************************************)
(* Components and the calls that change them: POST, PUT, PATCH (single and *)
(* bulk) and DELETE of /State/Components.  A call on one component is one  *)
(* UPDATE; a bulk PATCH first selects the ids that need the change and     *)
(* then updates those by id alone; POST and PUT first read the components  *)
(* that exist and then insert or overwrite.  Neither read locks its rows,  *)
(* so other calls commit in between.  After its commit each call queues    *)
(* the state change notifications (SCNs) for what it has changed.          *)
(*                                                                         *)
(* What becomes of a queued SCN is in SCNSubscriptions, the polling jobs   *)
(* that a state update starts and cancels are in StateRFPoll.              *)
(***************************************************************************)
EXTENDS Integers, FiniteSets, Sequences

CONSTANTS
    Comps,      \* components (nodes)
    Callers,    \* handlers in progress, at any instance
    Mixes       \* sets of requests; the clients of a behaviour send one set

IsRow(row) == row = [state |-> row.state, flag |-> row.flag, enabled |-> row.enabled, sw |-> row.sw,
                     role |-> row.role, sub |-> row.sub, nid |-> row.nid, class |-> row.class]

States  == {"Off", "On", "Standby", "Halt", "Ready", "Unknown", "Empty", "Populated"}

\* The states of requests are verified, and may be forced; a POST or PUT has a list of
\* components.
ASSUME RequestsAssumption ==
    \A m \in Mixes : \A r \in m :
        /\ r.op \in {"StateData", "Post", "Put"} => r.force \in BOOLEAN
        /\ r.op = "StateData" => r.state \in States
        /\ r.op \in {"Post", "Put"} =>
               /\ {"list", "force"} \subseteq DOMAIN r
               /\ r.list = [i \in 1..Len(r.list) |-> r.list[i]] /\ Len(r.list) \in Nat
               /\ \A i \in 1..Len(r.list) :
                      /\ r.list[i].id \in Comps /\ IsRow(r.list[i].row)
                      /\ r.list[i].row.state \in States

VARIABLES
    db,         \* the components table: id -> row or Absent
    call,       \* what each handler is doing
    mix,        \* the requests sent in this behaviour
    told,       \* id -> what the SCNs queued so far have last said
    blurred,    \* history: ids of which two calls overlapped, or a call died
    since,      \* history: states since a handler has read, as in CompUpdates
    forced      \* history: whether the last write was forced

vars == <<db, call, mix, told, blurred, since, forced>>

Flags   == {"OK", "Warning", "Alert", "Locked"}
Nothing == [c \in Comps |-> {}]
Absent  == [state |-> "none", flag |-> "none", enabled |-> "none", sw |-> "none",
            role |-> "none", sub |-> "none", nid |-> -1, class |-> "none"]
\* A node that discovery has found powered on.
OnNode  == [state |-> "On", flag |-> "OK", enabled |-> "true", sw |-> "",
            role |-> "Compute", sub |-> "", nid |-> -1, class |-> ""]

Present == {c \in Comps : db[c] # Absent}

Idle    == [pc |-> "idle"]
Busy    == {k \in Callers : call[k] # Idle}
Quiet   == Busy = {}

-----------------------------------------------------------------------------
(* The state machine                                                       *)

\* {}: there is none, the state is reached by force only.
ValidStartStates(s) ==
    CASE s \in {"Off", "On"} -> {"Off", "On", "Standby", "Halt", "Ready"}
      [] s = "Standby"       -> {"Standby", "Ready"}
      [] s = "Halt"          -> {"Halt", "Ready"}
      [] s = "Ready"         -> {"Ready", "On"}
      [] OTHER               -> {}

GetValidStartStateWForce(s, force) == IF force THEN States ELSE ValidStartStates(s)

\* A warning on Ready is for components that are Ready, forced or not.
StartStates(r) ==
    IF r.state = "Ready" /\ r.flag = "Warning" THEN {"Ready"}
    ELSE GetValidStartStateWForce(r.state, r.force)

-----------------------------------------------------------------------------
(* Transactions: what one statement does to a row                          *)

UpdateCompStatesTx(row, r) ==
    [row EXCEPT !.state = r.state, !.flag = IF @ = "Locked" THEN @ ELSE r.flag]

UpdateCompFlagOnlyTx(row, r)     == [row EXCEPT !.flag = r.flag]
BulkUpdateCompFlagOnlyTx(row, r) == [row EXCEPT !.flag = r.flag]
UpdateCompEnabledTx(row, r)      == [row EXCEPT !.enabled = r.enabled]
BulkUpdateCompEnabledTx(row, r)  == [row EXCEPT !.enabled = r.enabled]
UpdateCompSwStatusTx(row, r)     == [row EXCEPT !.sw = r.sw]
BulkUpdateCompSwStatusTx(row, r) == [row EXCEPT !.sw = r.sw]
UpdateCompRoleTx(row, r)         == [row EXCEPT !.role = r.role, !.sub = r.sub]
BulkUpdateCompRoleTx(row, r)     == [row EXCEPT !.role = r.role, !.sub = r.sub]
BulkUpdateCompClassTx(row, r)    == [row EXCEPT !.class = r.class]

\* Variant: a negative NID is stored as it is.
RawNIDAsGiven(n) == n

RawNID(n) == IF n < -1 THEN -1 ELSE n
UpdateCompNIDTx(row, r)        == [row EXCEPT !.nid = RawNID(r.nid)]
BulkUpdateCompNIDTx(row, r, c) == [row EXCEPT !.nid = RawNID(r.nids[c])]

\* Of two entries for one id the first counts; of a row that is there only the
\* state, the flag and the class (and subtype, network type, architecture) change.
InsertComponentsTx(rows, list) ==
    [c \in DOMAIN rows |->
        LET mine == {i \in DOMAIN list : list[i].id = c} IN
        IF mine = {} THEN rows[c]
        ELSE LET new == list[CHOOSE i \in mine : \A j \in mine : i <= j].row IN
             IF rows[c] = Absent THEN new
             ELSE [rows[c] EXCEPT !.state = new.state, !.flag = new.flag, !.class = new.class]]
\* The single insert, for one component, does the same.
InsertComponentTx(rows, id, row) == InsertComponentsTx(rows, << [id |-> id, row |-> row] >>)

DeleteComponentByIDTx(rows, c) == [rows EXCEPT ![c] = Absent]
DeleteComponentsAllTx(rows)    == [c \in DOMAIN rows |-> Absent]

\* rows with new(row) in place of those of ids that are there.
Updated(rows, ids, new(_, _)) ==
    [c \in DOMAIN rows |->
        IF c \in ids /\ rows[c] # Absent THEN new(c, rows[c]) ELSE rows[c]]

-----------------------------------------------------------------------------
(* The ids that a bulk update selects, from the rows as they are           *)

GetComponentIDsTx(ids, Filter(_)) == {c \in ids \cap Present : Filter(db[c])}

BulkUpdateCompFlagOnly(r) ==
    LET Filter(row) == row.flag # r.flag IN GetComponentIDsTx(r.ids, Filter)
BulkUpdateCompEnabled(r) ==
    LET Filter(row) == row.enabled # r.enabled IN GetComponentIDsTx(r.ids, Filter)
BulkUpdateCompSwStatus(r) ==
    LET Filter(row) == row.sw # r.sw IN GetComponentIDsTx(r.ids, Filter)
\* Without a sub-role those that have the role are left alone, sub-role and all.
BulkUpdateCompRole(r) ==
    LET Filter(row) == row.role # r.role \/ (r.sub # "" /\ row.sub # r.sub)
    IN GetComponentIDsTx(r.ids, Filter)
BulkUpdateCompClass(r) ==
    LET Filter(row) == row.class # r.class IN GetComponentIDsTx(r.ids, Filter)

NotStateOrFlag(row, r) == row.state # r.state \/ row.flag # r.flag

\* Variant: the bulk update forgets the start states.
UpdateCompStatesAnyStart(r) ==
    LET Filter(row) == NotStateOrFlag(row, r) IN GetComponentIDsTx(r.ids, Filter)

\* What UpdateCompStates changes: the condition of the single UPDATE, and of the
\* SELECT of a bulk update.
UpdateCompStates(r) ==
    LET Filter(row) == NotStateOrFlag(row, r) /\ row.state \in StartStates(r)
    IN GetComponentIDsTx(r.ids, Filter)

-----------------------------------------------------------------------------
(* POST and PUT                                                            *)

\* GetCompDefaults finds no node map here: the role is the default.
Defaulted(row) == [row EXCEPT !.role = IF @ = "" THEN "Compute" ELSE @]

\* What of entry new is a change to row old; {} also where it is left out.
ChangeMap(old, new, force) ==
    IF old = Absent
    THEN {"state", "enabled", "role"} \cup (IF new.sw # "" THEN {"sw"} ELSE {})
    ELSE IF force /\ old.state # new.state THEN {"state"} ELSE {}

Wanted(old, new, force) ==
    \/ old = Absent
    \/ /\ force
       /\ \/ old.state # new.state
          \/ old.flag # new.flag
          \/ new.class # "" /\ new.class # old.class

\* The entries that UpsertComponents inserts, having read the rows, by their places.
UpsertComponents(rows, list, force) ==
    LET kept == {i \in DOMAIN list : Wanted(rows[list[i].id], list[i].row, force)}
    IN [i \in kept |-> list[i]]

\* The SCNs of POST: for each change and each value one, with the ids it is of.
SCNs(changes) ==
    LET kinds == {<<x.what, x.val>> : x \in changes} IN
    {[what |-> y[1], val |-> y[2],
      ids |-> {x.id : x \in {z \in changes : z.what = y[1] /\ z.val = y[2]}}] : y \in kinds}

\* The value of a row that an SCN is about.
Said(what, row) == IF what = "role" THEN <<row.role, row.sub>> ELSE row[what]

\* The change map has one entry for an id: that of its last entry inserted.
ChangesOf(rows, r, id) ==
    LET mine == {i \in DOMAIN r.list :
                    r.list[i].id = id /\ Wanted(rows[id], r.list[i].row, r.force)}
    IN IF mine = {} THEN {}
       ELSE ChangeMap(rows[id], r.list[CHOOSE i \in mine : \A j \in mine : j <= i].row, r.force)

doComponentsPost(rows, r) ==
    SCNs(UNION {{[id |-> e.id, what |-> w, val |-> Said(w, e.row)] : w \in ChangesOf(rows, r, e.id)} :
                e \in {r.list[i] : i \in DOMAIN r.list}})

\* PUT is a POST of one, but without Enabled its SCN says nothing of it.
doComponentPut(rows, r) ==
    IF r.nilEnabled THEN {t \in doComponentsPost(rows, r) : t.what # "enabled"}
    ELSE doComponentsPost(rows, r)

-----------------------------------------------------------------------------
(* PATCH                                                                   *)

\* What doCompUpdate tells of the ids changed; flag, NID and class are not told.
Told(r, ids) ==
    IF ids = {} THEN {} ELSE
    CASE r.op = "StateData"      -> {[what |-> "state", val |-> r.state, ids |-> ids]}
      [] r.op = "Enabled"        -> {[what |-> "enabled", val |-> r.enabled, ids |-> ids]}
      [] r.op = "SoftwareStatus" -> {[what |-> "sw", val |-> r.sw, ids |-> ids]}
      [] r.op = "Role"           -> {[what |-> "role", val |-> <<r.role, r.sub>>, ids |-> ids]}
      [] OTHER                   -> {}

\* An update of one id is not conditional, except that of the state: the id
\* counts as changed when it is there.
\* Variant: the id counts as changed even if the start state was wrong.
dbUpdateCompStateCountsAll(r) ==
    [ids  |-> r.ids \cap Present,
     rows |-> Updated(db, UpdateCompStates(r), LAMBDA c, row : UpdateCompStatesTx(row, r))]

dbUpdateCompState(r) ==
    [ids  |-> UpdateCompStates(r),
     rows |-> Updated(db, UpdateCompStates(r), LAMBDA c, row : UpdateCompStatesTx(row, r))]
dbUpdateCompFlagOnly(r) ==
    [ids  |-> r.ids \cap Present,
     rows |-> Updated(db, r.ids, LAMBDA c, row : UpdateCompFlagOnlyTx(row, r))]
dbUpdateCompEnabled(r) ==
    [ids  |-> r.ids \cap Present,
     rows |-> Updated(db, r.ids, LAMBDA c, row : UpdateCompEnabledTx(row, r))]
dbUpdateCompSwStatus(r) ==
    [ids  |-> r.ids \cap Present,
     rows |-> Updated(db, r.ids, LAMBDA c, row : UpdateCompSwStatusTx(row, r))]
dbUpdateCompRole(r) ==
    [ids  |-> r.ids \cap Present,
     rows |-> Updated(db, r.ids, LAMBDA c, row : UpdateCompRoleTx(row, r))]
dbUpdateCompSingleNID(r) ==
    [ids  |-> r.ids \cap Present,
     rows |-> Updated(db, r.ids, LAMBDA c, row : UpdateCompNIDTx(row, r))]

Single(r) ==
    CASE r.op = "StateData"      -> dbUpdateCompState(r)
      [] r.op = "FlagOnly"       -> dbUpdateCompFlagOnly(r)
      [] r.op = "Enabled"        -> dbUpdateCompEnabled(r)
      [] r.op = "SoftwareStatus" -> dbUpdateCompSwStatus(r)
      [] r.op = "Role"           -> dbUpdateCompRole(r)
      [] r.op = "NID"            -> dbUpdateCompSingleNID(r)

\* The bulk update of class is not a PATCH: discovery sends it.
BulkSelected(r) ==
    CASE r.op = "StateData"      -> UpdateCompStates(r)
      [] r.op = "FlagOnly"       -> BulkUpdateCompFlagOnly(r)
      [] r.op = "Enabled"        -> BulkUpdateCompEnabled(r)
      [] r.op = "SoftwareStatus" -> BulkUpdateCompSwStatus(r)
      [] r.op = "Role"           -> BulkUpdateCompRole(r)
      [] r.op = "Class"          -> BulkUpdateCompClass(r)

BulkRow(r, row) ==
    CASE r.op = "StateData"      -> UpdateCompStatesTx(row, r)
      [] r.op = "FlagOnly"       -> BulkUpdateCompFlagOnlyTx(row, r)
      [] r.op = "Enabled"        -> BulkUpdateCompEnabledTx(row, r)
      [] r.op = "SoftwareStatus" -> BulkUpdateCompSwStatusTx(row, r)
      [] r.op = "Role"           -> BulkUpdateCompRoleTx(row, r)
      [] r.op = "Class"          -> BulkUpdateCompClassTx(row, r)

\* A state that is reached by force only is refused without it.
Refused(r) == r.op = "StateData" /\ StartStates(r) = {}

-----------------------------------------------------------------------------
(* The handlers                                                            *)

Unknown == "not told"
Untold  == [state |-> Unknown, enabled |-> Unknown, sw |-> Unknown, role |-> <<Unknown, "">>]
AsIs(row) == [state |-> row.state, enabled |-> row.enabled, sw |-> row.sw,
              role |-> <<row.role, row.sub>>]

Ids(k) ==
    CASE call[k].pc = "idle"   -> {}
      [] call[k].pc = "write"  -> call[k].req.ids
      [] call[k].pc = "upsert" -> {call[k].list[i].id : i \in DOMAIN call[k].list}
      [] call[k].pc = "tell"   -> UNION {t.ids : t \in call[k].tell}

Witnessed(rows) ==
    [k \in Callers |-> [c \in Comps |->
        IF since[k][c] = {} THEN {} ELSE since[k][c] \cup {rows[c].state}]]

\* The call of k reads the rows of ids.
Reads(k, ids) ==
    since' = [since EXCEPT ![k] = [c \in Comps |-> IF c \in ids THEN {db[c].state} ELSE {}]]

\* The call of k commits rows and goes on to tell what is in tell.
Commits(k, rows, tell, force) ==
    LET touched == {c \in Comps : rows[c] # db[c]} \cup UNION {t.ids : t \in tell} IN
    /\ db' = rows
    /\ call' = [call EXCEPT ![k] = IF tell = {} THEN Idle ELSE [pc |-> "tell", tell |-> tell]]
    /\ blurred' = blurred \cup {c \in touched : \E j \in Callers \ {k} : c \in Ids(j)}
    /\ since' = [Witnessed(rows) EXCEPT ![k] = Nothing]
    /\ forced' = force

\* PATCH of one component, and a bulk PATCH of one.
componentPatch(k) ==
    /\ call[k] = Idle
    /\ \E r \in mix :
        /\ r.op \in {"StateData", "FlagOnly", "Enabled", "SoftwareStatus", "Role", "NID"}
        /\ Cardinality(r.ids) = 1
        /\ ~Refused(r)
        /\ Commits(k, Single(r).rows, Told(r, Single(r).ids), r.op = "StateData" /\ r.force)
    /\ UNCHANGED <<mix, told>>

\* A bulk PATCH of several selects; with nothing selected it is done.
compBulkPatch(k) ==
    /\ call[k] = Idle
    /\ \E r \in mix :
        /\ r.op \in {"StateData", "FlagOnly", "Enabled", "SoftwareStatus", "Role", "Class"}
        /\ Cardinality(r.ids) > 1
        /\ ~Refused(r)
        /\ BulkSelected(r) # {}
        /\ call' = [call EXCEPT ![k] = [pc |-> "write", req |-> r, ids |-> BulkSelected(r)]]
        /\ Reads(k, BulkSelected(r))
    /\ UNCHANGED <<db, mix, told, blurred, forced>>

\* It updates what it has selected, by id alone.
BulkWrite(k) ==
    /\ call[k].pc = "write"
    /\ LET r == call[k].req IN
       Commits(k, Updated(db, call[k].ids, LAMBDA c, row : BulkRow(r, row)),
               Told(r, call[k].ids), r.op = "StateData" /\ r.force)
    /\ UNCHANGED <<mix, told>>

\* A bulk PATCH of NIDs is one statement.
doCompBulkNIDPatch(k) ==
    /\ call[k] = Idle
    /\ \E r \in mix :
        /\ r.op = "BulkNID"
        /\ Commits(k, Updated(db, DOMAIN r.nids, LAMBDA c, row : BulkUpdateCompNIDTx(row, r, c)),
                   {}, FALSE)
    /\ UNCHANGED <<mix, told>>

\* The first of two entries for an id is stored, both are told.
Twice(list) == {c \in Comps : Cardinality({i \in DOMAIN list : list[i].id = c}) > 1}

\* POST and PUT read the components that exist and decide what to insert.
UpsertRead(k) ==
    /\ call[k] = Idle
    /\ \E r \in mix :
        /\ r.op \in {"Post", "Put"}
        /\ LET given == [i \in DOMAIN r.list |->
                            [id |-> r.list[i].id, row |-> Defaulted(r.list[i].row)]]
               list  == UpsertComponents(db, given, r.force)
               q     == [r EXCEPT !.list = given]
           IN /\ DOMAIN list # {}
              /\ call' = [call EXCEPT ![k] =
                    [pc |-> "upsert", list |-> list, force |-> r.force,
                     tell |-> IF r.op = "Post" THEN doComponentsPost(db, q)
                              ELSE doComponentPut(db, q)]]
              /\ Reads(k, {list[i].id : i \in DOMAIN list})
              /\ blurred' = blurred \cup Twice(r.list)
    /\ UNCHANGED <<db, mix, told, forced>>

UpsertWrite(k) ==
    /\ call[k].pc = "upsert"
    /\ Commits(k, InsertComponentsTx(db, call[k].list), call[k].tell, call[k].force)
    /\ UNCHANGED <<mix, told>>

\* Of what a call has to tell, one SCN is queued at a time, in any order.
QueueSCN(k) ==
    /\ call[k].pc = "tell"
    /\ \E t \in call[k].tell :
        /\ told' = [c \in Comps |-> IF c \in t.ids THEN [told[c] EXCEPT ![t.what] = t.val]
                                   ELSE told[c]]
        /\ call' = [call EXCEPT ![k] =
              IF @.tell = {t} THEN Idle ELSE [pc |-> "tell", tell |-> @.tell \ {t}]]
    /\ UNCHANGED <<db, mix, blurred, since, forced>>

\* DELETE tells nobody.  What was told is about a component that is gone.
Deletes(k, rows) ==
    /\ call[k] = Idle
    /\ Commits(k, rows, {}, FALSE)
    /\ told' = [c \in Comps |-> IF rows[c] = Absent THEN Untold ELSE told[c]]
    /\ UNCHANGED mix

doComponentDelete(k) ==
    \E r \in mix : r.op = "Delete" /\ Deletes(k, DeleteComponentByIDTx(db, r.id))
doComponentsDeleteAll(k) ==
    \E r \in mix : r.op = "DeleteAll" /\ Deletes(k, DeleteComponentsAllTx(db))

\* An instance dies with calls in progress: an open transaction is rolled
\* back, what was to be told is not told.
Crash ==
    \E dead \in SUBSET Busy :
        /\ dead # {}
        /\ call' = [k \in Callers |-> IF k \in dead THEN Idle ELSE call[k]]
        /\ since' = [k \in Callers |-> IF k \in dead THEN Nothing ELSE since[k]]
        /\ blurred' = blurred \cup UNION {Ids(k) : k \in dead}
        /\ UNCHANGED <<db, mix, told, forced>>

Init ==
    /\ mix \in Mixes
    /\ db \in [Comps -> {Absent, OnNode}]
    /\ call = [k \in Callers |-> Idle]
    /\ told = [c \in Comps |-> IF db[c] = Absent THEN Untold ELSE AsIs(db[c])]
    /\ blurred = {}
    /\ since = [k \in Callers |-> Nothing]
    /\ forced = FALSE

Next ==
    \/ Crash
    \/ \E k \in Callers :
        \/ componentPatch(k) \/ compBulkPatch(k) \/ BulkWrite(k) \/ doCompBulkNIDPatch(k)
        \/ UpsertRead(k) \/ UpsertWrite(k) \/ QueueSCN(k)
        \/ doComponentDelete(k) \/ doComponentsDeleteAll(k)

Spec == Init /\ [][Next]_vars

-----------------------------------------------------------------------------
(* Properties                                                              *)

Rows == [state : States, flag : Flags, enabled : {"true", "false"}, sw : {"", "sw1", "sw2"},
         role : {"Compute", "Service"}, sub : {"", "Worker"}, nid : -1 .. 9,
         class : {"", "River", "Mountain"}] \cup {Absent}

\* Every row has values of its columns, what is told are values of them, and a
\* handler that is to write has something to write: an empty UPDATE or INSERT
\* is an SQL error (hmsds-postgres.go:553-758).
CSTypeOK ==
    /\ \A c \in Comps : db[c] \in Rows
    /\ \A k \in Callers :
          /\ call[k].pc \in {"idle", "write", "upsert", "tell"}
          /\ call[k].pc = "write"  => call[k].ids # {} /\ call[k].ids \subseteq call[k].req.ids
          /\ call[k].pc = "upsert" => DOMAIN call[k].list # {}
          /\ call[k].pc = "tell"   => call[k].tell # {} /\ \A t \in call[k].tell : t.ids # {}

\* When no call is in progress, subscribers have been told the truth about each
\* component: its state and role, and its software status and whether it is
\* enabled if they were told of these since it was added.  The exceptions are
\* components of which calls overlapped (each tells after its commit, in any
\* order), a call died, or a POST had two entries.  Concerns the decisions what
\* to tell, taken before the write, in UpsertComponents, UpdateCompStates and
\* the BulkUpdateComp* functions, and the follow-up of doCompUpdate.
QuietTellsTruth ==
    Quiet => \A c \in Present \ blurred :
        /\ told[c].state = db[c].state
        /\ told[c].role = <<db[c].role, db[c].sub>>
        /\ told[c].sw \in {Unknown, db[c].sw}
        /\ told[c].enabled \in {Unknown, db[c].enabled}

\* Calls change states as CompUpdates promises: along the table of start states,
\* from a state the component has had since the call read, unless forced; what
\* is in the table is overwritten by an unforced POST only if it was added since
\* the POST read.  The select of a bulk update and the read of UpsertComponents
\* do not lock (hmsds-postgres.go:571, 734).
Allowed(from, to) == "none" \in {from, to} \/ from \in ValidStartStates(to)

Abstract == INSTANCE CompUpdates WITH st <- [c \in Comps |-> db[c].state]
UpdatesPromise == Abstract!Spec

=============================================================================
