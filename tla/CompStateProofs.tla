-------------------------- MODULE CompStateProofs --------------------------
(***************************************************************************)
(* Theorems about CompState, for every set of components, handlers and     *)
(* requests.  It implements CompUpdates: a state changes along the table   *)
(* of start states, from one that the component has had since the call     *)
(* read, or by force.  And subscribers are told the truth about whatever   *)
(* no two calls have touched at once.                                      *)
(***************************************************************************)
EXTENDS CompState, FiniteSetTheorems, WellFoundedInduction, TLAPS

\* Rows are records with these fields.
RowsOK(rows) == rows = [c \in Comps |-> rows[c]] /\ \A c \in Comps : IsRow(rows[c])

Entry(e) == e.id \in Comps /\ IsRow(e.row)
Bulk     == {"StateData", "FlagOnly", "Enabled", "SoftwareStatus", "Role", "Class"}

\* A state that a bulk update is to write can be reached from one that the component
\* has had since the update has selected it, unless the update is forced.
Decided(k) ==
    /\ call[k].req.op \in Bulk
    /\ call[k].req.op = "StateData" =>
           /\ call[k].req.force \in BOOLEAN
           /\ call[k].req.force \/ \A c \in call[k].ids \cap Comps :
                  \E s \in since[k][c] : Allowed(s, call[k].req.state)

\* What an unforced POST is to insert was not there when it read.
Inserts(k) ==
    /\ call[k].force \in BOOLEAN
    /\ \E n \in Nat : DOMAIN call[k].list \subseteq 1..n
    /\ \A i \in DOMAIN call[k].list : Entry(call[k].list[i])
    /\ ~call[k].force => \A i \in DOMAIN call[k].list : "none" \in since[k][call[k].list[i].id]

CallsOK ==
    /\ call = [k \in Callers |-> call[k]]
    /\ since = [k \in Callers |-> [c \in Comps |-> since[k][c]]]
    /\ \A k \in Callers :
        /\ call[k].pc \in {"idle", "write", "upsert", "tell"}
        /\ call[k].pc \in {"idle", "tell"} => since[k] = Nothing
        /\ call[k].pc = "write" => Decided(k)
        /\ call[k].pc = "upsert" => Inserts(k)

StateInv == mix \in Mixes /\ RowsOK(db) /\ CallsOK

-----------------------------------------------------------------------------
(* Commits                                                                 *)

\* A call commits states that it may: a step of CompUpdates.
LEMMA CommitsWrites ==
    ASSUME StateInv, NEW k \in Callers, NEW rows, NEW tell, NEW force \in BOOLEAN,
           Commits(k, rows, tell, force),
           \A c \in Comps : \/ force \/ rows[c].state = db[c].state
                            \/ \E s \in since[k][c] : Allowed(s, rows[c].state)
    PROVE  Abstract!Write(k)
<1>1. db' = rows /\ forced' = force /\ since' = [Witnessed(rows) EXCEPT ![k] = Nothing]
    BY DEF Commits
<1>2. Nothing = Abstract!Nothing
    BY DEF Nothing, Abstract!Nothing
<1>3. Witnessed(rows) = Abstract!Witnessed([c \in Comps |-> rows[c].state])
    BY DEF Witnessed, Abstract!Witnessed
<1> QED BY <1>1, <1>2, <1>3 DEF Abstract!Write

LEMMA CommitsDirectly ==
    ASSUME StateInv, NEW k \in Callers, NEW rows, NEW tell, NEW force \in BOOLEAN,
           call[k] = Idle, Commits(k, rows, tell, force),
           \A c \in Comps : \/ force \/ rows[c].state = db[c].state
                            \/ Allowed(db[c].state, rows[c].state)
    PROVE  Abstract!Direct
<1>1. db' = rows /\ forced' = force /\ since' = [Witnessed(rows) EXCEPT ![k] = Nothing]
    BY DEF Commits
<1>2. Witnessed(rows) = Abstract!Witnessed([c \in Comps |-> rows[c].state])
    BY DEF Witnessed, Abstract!Witnessed
<1>3. Witnessed(rows)[k] = Nothing /\ Witnessed(rows) = [j \in Callers |-> Witnessed(rows)[j]]
    BY DEF StateInv, CallsOK, Idle, Witnessed, Nothing
<1>4. since' = Witnessed(rows)
    BY <1>1, <1>3
<1> QED BY <1>1, <1>2, <1>4 DEF Abstract!Direct

\* and it keeps the invariant.
LEMMA CommitsInv ==
    ASSUME StateInv, NEW k \in Callers, NEW rows, NEW tell, NEW force,
           Commits(k, rows, tell, force), RowsOK(rows), UNCHANGED mix
    PROVE  StateInv'
<1>1. /\ db' = rows /\ since' = [Witnessed(rows) EXCEPT ![k] = Nothing]
      /\ call' = [call EXCEPT ![k] = IF tell = {} THEN Idle ELSE [pc |-> "tell", tell |-> tell]]
    BY DEF Commits
<1>2. /\ call' = [j \in Callers |-> call'[j]] /\ call'[k].pc \in {"idle", "tell"}
      /\ \A j \in Callers : j # k => call'[j] = call[j]
    BY <1>1 DEF StateInv, CallsOK, Idle
<1>3. /\ since' = [j \in Callers |-> [c \in Comps |-> since'[j][c]]] /\ since'[k] = Nothing
      /\ \A j \in Callers : j # k => since'[j] = Witnessed(rows)[j]
    BY <1>1 DEF Witnessed, Nothing
<1>4. ASSUME NEW j \in Callers, j # k
      PROVE  /\ \A c \in Comps : since[j][c] \subseteq since'[j][c]
             /\ since[j] = Nothing => since'[j] = Nothing
    BY <1>3, <1>4 DEF Witnessed, Nothing
<1>5. ASSUME NEW j \in Callers
      PROVE  /\ call'[j].pc \in {"idle", "write", "upsert", "tell"}
             /\ call'[j].pc \in {"idle", "tell"} => since'[j] = Nothing
             /\ call'[j].pc = "write" => Decided(j)'
             /\ call'[j].pc = "upsert" => Inserts(j)'
    <2>1. CASE j = k
        BY <1>2, <1>3, <2>1
    <2>2. CASE j # k
        <3>1. call'[j] = call[j]
            BY <1>2, <2>2
        <3>2. call[j].pc = "write" => Decided(j)'
            BY <1>4, <2>2, <3>1 DEF StateInv, CallsOK, Decided, Allowed, ValidStartStates
        <3>3. call[j].pc = "upsert" => Inserts(j)'
            BY <1>4, <2>2, <3>1 DEF StateInv, CallsOK, Inserts, Entry, IsRow
        <3> QED BY <1>4, <2>2, <3>1, <3>2, <3>3 DEF StateInv, CallsOK
    <2> QED BY <2>1, <2>2
<1> QED BY <1>1, <1>2, <1>3, <1>5 DEF StateInv, CallsOK, RowsOK, IsRow, Nothing

-----------------------------------------------------------------------------
(* Updates                                                                 *)

\* What each statement does to a row.
LEMMA UpdateState ==
    ASSUME NEW row, IsRow(row), NEW r
    PROVE  IsRow(UpdateCompStatesTx(row, r)) /\ UpdateCompStatesTx(row, r).state = r.state
<1> DEFINE flag == IF row.flag = "Locked" THEN row.flag ELSE r.flag
<1> SUFFICES ASSUME NEW new, new = UpdateCompStatesTx(row, r)
             PROVE  IsRow(new) /\ new.state = r.state
    OBVIOUS
<1>1. new = [state |-> r.state, flag |-> flag, enabled |-> row.enabled, sw |-> row.sw,
             role |-> row.role, sub |-> row.sub, nid |-> row.nid, class |-> row.class]
    BY DEF UpdateCompStatesTx, IsRow
<1> HIDE DEF flag
<1> QED BY <1>1 DEF IsRow

LEMMA UpdateKeepsState ==
    ASSUME NEW row, IsRow(row), NEW r, NEW new,
           \/ new = UpdateCompFlagOnlyTx(row, r) \/ new = UpdateCompEnabledTx(row, r)
           \/ new = UpdateCompSwStatusTx(row, r) \/ new = UpdateCompRoleTx(row, r)
           \/ new = BulkUpdateCompClassTx(row, r) \/ \E nid : new = [row EXCEPT !.nid = nid]
    PROVE  IsRow(new) /\ new.state = row.state
<1>1. ASSUME NEW flag, NEW enabled, NEW sw, NEW role, NEW sub, NEW nid, NEW class,
             new = [state |-> row.state, flag |-> flag, enabled |-> enabled, sw |-> sw,
                    role |-> role, sub |-> sub, nid |-> nid, class |-> class]
      PROVE  IsRow(new) /\ new.state = row.state
    BY <1>1 DEF IsRow
<1>2. CASE new = UpdateCompFlagOnlyTx(row, r)
    BY <1>1, <1>2 DEF UpdateCompFlagOnlyTx, IsRow
<1>3. CASE new = UpdateCompEnabledTx(row, r)
    BY <1>1, <1>3 DEF UpdateCompEnabledTx, IsRow
<1>4. CASE new = UpdateCompSwStatusTx(row, r)
    BY <1>1, <1>4 DEF UpdateCompSwStatusTx, IsRow
<1>5. CASE new = UpdateCompRoleTx(row, r)
    BY <1>1, <1>5 DEF UpdateCompRoleTx, IsRow
<1>6. CASE new = BulkUpdateCompClassTx(row, r)
    BY <1>1, <1>6 DEF BulkUpdateCompClassTx, IsRow
<1>7. CASE \E nid : new = [row EXCEPT !.nid = nid]
    BY <1>1, <1>7 DEF IsRow
<1> QED BY <1>2, <1>3, <1>4, <1>5, <1>6, <1>7

\* A bulk update's rows are those of the single ones.
LEMMA BulkRowIs ==
    ASSUME NEW row, NEW r, r.op \in Bulk
    PROVE  /\ r.op = "StateData" => BulkRow(r, row) = UpdateCompStatesTx(row, r)
           /\ r.op # "StateData" => BulkRow(r, row) \in
                  {UpdateCompFlagOnlyTx(row, r), UpdateCompEnabledTx(row, r),
                   UpdateCompSwStatusTx(row, r), UpdateCompRoleTx(row, r), BulkUpdateCompClassTx(row, r)}
BY DEF Bulk, BulkRow, UpdateCompFlagOnlyTx, BulkUpdateCompFlagOnlyTx, UpdateCompEnabledTx,
       BulkUpdateCompEnabledTx, UpdateCompSwStatusTx, BulkUpdateCompSwStatusTx, UpdateCompRoleTx,
       BulkUpdateCompRoleTx

\* An update selects what is in a start state of the new state.
LEMMA SelectedAllowed ==
    ASSUME NEW r, r.force \in BOOLEAN, ~r.force, NEW c, c \in UpdateCompStates(r)
    PROVE  Allowed(db[c].state, r.state)
<1>1. db[c].state \in StartStates(r)
    BY DEF UpdateCompStates, GetComponentIDsTx
<1>2. StartStates(r) \subseteq ValidStartStates(r.state)
    <2>1. CASE r.state = "Ready" /\ r.flag = "Warning"
        BY <2>1 DEF StartStates, ValidStartStates
    <2>2. CASE ~(r.state = "Ready" /\ r.flag = "Warning")
        BY <2>2 DEF StartStates, GetValidStartStateWForce
    <2> QED BY <2>1, <2>2
<1> QED BY <1>1, <1>2 DEF Allowed

PatchOps == {"StateData", "FlagOnly", "Enabled", "SoftwareStatus", "Role", "NID"}

\* The rows after an update of one component.
LEMMA SingleRows ==
    ASSUME RowsOK(db), NEW r, r.op \in PatchOps,
           r.op = "StateData" => r.force \in BOOLEAN
    PROVE  /\ RowsOK(Single(r).rows)
           /\ \A c \in Comps : \/ Single(r).rows[c].state = db[c].state
                               \/ /\ r.op = "StateData"
                                  /\ r.force \/ Allowed(db[c].state, Single(r).rows[c].state)
<1> DEFINE rows == Single(r).rows
<1>1. CASE r.op = "StateData"
    <2>1. rows = [c \in Comps |-> IF c \in UpdateCompStates(r) /\ db[c] # Absent
                                  THEN UpdateCompStatesTx(db[c], r) ELSE db[c]]
        BY <1>1 DEF Single, dbUpdateCompState, Updated, RowsOK
    <2> HIDE DEF rows
    <2>2. ASSUME NEW c \in Comps
          PROVE  /\ IsRow(rows[c])
                 /\ rows[c].state = db[c].state \/ r.force \/ Allowed(db[c].state, rows[c].state)
        <3>1. CASE c \in UpdateCompStates(r) /\ db[c] # Absent
            <4>1. rows[c] = UpdateCompStatesTx(db[c], r) /\ IsRow(db[c])
                BY <2>1, <3>1 DEF RowsOK
            <4>2. IsRow(rows[c]) /\ rows[c].state = r.state
                BY <4>1, UpdateState
            <4>3. r.force \/ Allowed(db[c].state, r.state)
                BY <1>1, <3>1, SelectedAllowed
            <4> QED BY <4>2, <4>3
        <3>2. CASE ~(c \in UpdateCompStates(r) /\ db[c] # Absent)
            BY <2>1, <3>2 DEF RowsOK
        <3> QED BY <3>1, <3>2
    <2> QED BY <1>1, <2>1, <2>2 DEF RowsOK, rows
<1>2. CASE r.op # "StateData"
    <2>1. \A c \in Comps : \/ rows[c] = db[c] \/ rows[c] = UpdateCompFlagOnlyTx(db[c], r)
                           \/ rows[c] = UpdateCompEnabledTx(db[c], r)
                           \/ rows[c] = UpdateCompSwStatusTx(db[c], r)
                           \/ rows[c] = UpdateCompRoleTx(db[c], r)
                           \/ rows[c] = UpdateCompNIDTx(db[c], r)
        <3>1. CASE r.op = "FlagOnly"
            BY <3>1 DEF Single, dbUpdateCompFlagOnly, Updated, RowsOK
        <3>2. CASE r.op = "Enabled"
            BY <3>2 DEF Single, dbUpdateCompEnabled, Updated, RowsOK
        <3>3. CASE r.op = "SoftwareStatus"
            BY <3>3 DEF Single, dbUpdateCompSwStatus, Updated, RowsOK
        <3>4. CASE r.op = "Role"
            BY <3>4 DEF Single, dbUpdateCompRole, Updated, RowsOK
        <3>5. CASE r.op = "NID"
            BY <3>5 DEF Single, dbUpdateCompSingleNID, Updated, RowsOK
        <3> QED BY <1>2, <3>1, <3>2, <3>3, <3>4, <3>5 DEF PatchOps
    <2>2. rows = [c \in Comps |-> rows[c]]
        <3>1. CASE r.op = "FlagOnly"
            BY <3>1 DEF Single, dbUpdateCompFlagOnly, Updated, RowsOK
        <3>2. CASE r.op = "Enabled"
            BY <3>2 DEF Single, dbUpdateCompEnabled, Updated, RowsOK
        <3>3. CASE r.op = "SoftwareStatus"
            BY <3>3 DEF Single, dbUpdateCompSwStatus, Updated, RowsOK
        <3>4. CASE r.op = "Role"
            BY <3>4 DEF Single, dbUpdateCompRole, Updated, RowsOK
        <3>5. CASE r.op = "NID"
            BY <3>5 DEF Single, dbUpdateCompSingleNID, Updated, RowsOK
        <3> QED BY <1>2, <3>1, <3>2, <3>3, <3>4, <3>5 DEF PatchOps
    <2> HIDE DEF rows
    <2>3. \A c \in Comps : IsRow(rows[c]) /\ rows[c].state = db[c].state
        <3> TAKE c \in Comps
        <3>1. IsRow(db[c])
            BY DEF RowsOK
        <3>2. \A new : \/ new = UpdateCompFlagOnlyTx(db[c], r) \/ new = UpdateCompEnabledTx(db[c], r)
                       \/ new = UpdateCompSwStatusTx(db[c], r) \/ new = UpdateCompRoleTx(db[c], r)
                       \/ new = UpdateCompNIDTx(db[c], r)
                       => IsRow(new) /\ new.state = db[c].state
            BY <3>1, UpdateKeepsState DEF UpdateCompNIDTx
        <3> QED BY <2>1, <3>1, <3>2
    <2> QED BY <2>2, <2>3 DEF RowsOK, rows
<1> QED BY <1>1, <1>2

\* The rows after the second statement of a bulk update.
LEMMA BulkRows ==
    ASSUME StateInv, NEW k \in Callers, call[k].pc = "write",
           NEW r, r = call[k].req, NEW rows,
           rows = [c \in Comps |-> IF c \in call[k].ids /\ db[c] # Absent
                                   THEN BulkRow(r, db[c]) ELSE db[c]]
    PROVE  /\ RowsOK(rows)
           /\ \A c \in Comps : \/ rows[c].state = db[c].state
                               \/ /\ r.op = "StateData"
                                  /\ r.force \/ \E s \in since[k][c] : Allowed(s, rows[c].state)
<1>1. Decided(k) /\ RowsOK(db)
    BY DEF StateInv, CallsOK
<1>2. rows = [c \in Comps |-> rows[c]]
    OBVIOUS
<1>3. ASSUME NEW c \in Comps
      PROVE  /\ IsRow(rows[c])
             /\ \/ rows[c].state = db[c].state
                \/ /\ r.op = "StateData"
                   /\ r.force \/ \E s \in since[k][c] : Allowed(s, rows[c].state)
    <2>1. IsRow(db[c])
        BY <1>1 DEF RowsOK
    <2>2. CASE c \in call[k].ids /\ db[c] # Absent /\ r.op = "StateData"
        <3>1. rows[c] = UpdateCompStatesTx(db[c], r)
            BY <1>1, <1>2, <2>2, BulkRowIs DEF Decided
        <3>2. IsRow(rows[c]) /\ rows[c].state = r.state
            BY <2>1, <3>1, UpdateState
        <3>3. r.force \/ \E s \in since[k][c] : Allowed(s, r.state)
            BY <1>1, <2>2 DEF Decided
        <3> QED BY <2>2, <3>2, <3>3
    <2>3. CASE c \in call[k].ids /\ db[c] # Absent /\ r.op # "StateData"
        <3>1. rows[c] = BulkRow(r, db[c]) /\ r.op \in Bulk
            BY <1>1, <1>2, <2>3 DEF Decided
        <3>2. rows[c] \in {UpdateCompFlagOnlyTx(db[c], r), UpdateCompEnabledTx(db[c], r),
                           UpdateCompSwStatusTx(db[c], r), UpdateCompRoleTx(db[c], r),
                           BulkUpdateCompClassTx(db[c], r)}
            BY <2>3, <3>1, BulkRowIs
        <3>3. ASSUME NEW new, \/ new = UpdateCompFlagOnlyTx(db[c], r) \/ new = UpdateCompEnabledTx(db[c], r)
                              \/ new = UpdateCompSwStatusTx(db[c], r) \/ new = UpdateCompRoleTx(db[c], r)
                              \/ new = BulkUpdateCompClassTx(db[c], r)
              PROVE  IsRow(new) /\ new.state = db[c].state
            <4> DEFINE old == db[c]
            <4> HIDE DEF old
            <4> QED BY <2>1, <3>3, UpdateKeepsState DEF old
        <3> QED BY <3>2, <3>3
    <2>4. CASE ~(c \in call[k].ids /\ db[c] # Absent)
        BY <1>2, <2>1, <2>4
    <2> QED BY <2>2, <2>3, <2>4
<1> QED BY <1>2, <1>3 DEF RowsOK

\* and after a bulk update of NIDs.
LEMMA NIDRows ==
    ASSUME RowsOK(db), NEW r, NEW rows,
           rows = [c \in Comps |-> IF c \in DOMAIN r.nids /\ db[c] # Absent
                                   THEN BulkUpdateCompNIDTx(db[c], r, c) ELSE db[c]]
    PROVE  RowsOK(rows) /\ \A c \in Comps : rows[c].state = db[c].state
<1>1. rows = [c \in Comps |-> rows[c]]
    OBVIOUS
<1>2. ASSUME NEW c \in Comps
      PROVE  IsRow(rows[c]) /\ rows[c].state = db[c].state
    <2>1. rows[c] = db[c] \/ \E nid : rows[c] = [db[c] EXCEPT !.nid = nid]
        BY <1>1 DEF BulkUpdateCompNIDTx
    <2> QED BY <2>1, UpdateKeepsState DEF RowsOK
<1> QED BY <1>1, <1>2 DEF RowsOK

\* Of several entries of a POST for one component there is a first.
LEMMA FirstExists ==
    ASSUME NEW T, T \subseteq Nat, T # {}
    PROVE  \E i \in T : \A j \in T : i <= j
<1>1. PICK i \in T : \A j \in T : ~(<<j, i>> \in OpToRel(<, Nat))
    BY NatLessThanWellFounded, WFMin
<1>2. \A j \in T : ~(j < i)
    BY <1>1 DEF OpToRel
<1> QED BY <1>2

\* The rows after a POST or PUT: what is there keeps most of its columns.
LEMMA InsertedRows ==
    ASSUME RowsOK(db), NEW list, DOMAIN list \subseteq Nat, \A i \in DOMAIN list : Entry(list[i])
    PROVE  /\ RowsOK(InsertComponentsTx(db, list))
           /\ \A c \in Comps : (\A i \in DOMAIN list : list[i].id # c) =>
                                   InsertComponentsTx(db, list)[c] = db[c]
<1> DEFINE rows    == InsertComponentsTx(db, list)
           mine(c) == {i \in DOMAIN list : list[i].id = c}
           new(c)  == list[CHOOSE i \in mine(c) : \A j \in mine(c) : i <= j].row
<1>1. rows = [c \in Comps |-> IF mine(c) = {} THEN db[c]
                              ELSE IF db[c] = Absent THEN new(c)
                              ELSE [db[c] EXCEPT !.state = new(c).state, !.flag = new(c).flag,
                                                 !.class = new(c).class]]
    BY DEF InsertComponentsTx, RowsOK
<1> HIDE DEF rows
<1>2. ASSUME NEW c \in Comps
      PROVE  IsRow(rows[c]) /\ (mine(c) = {} => rows[c] = db[c])
    <2>1. IsRow(db[c])
        BY DEF RowsOK
    <2>2. CASE mine(c) = {}
        BY <1>1, <2>1, <2>2
    <2>3. CASE mine(c) # {} /\ db[c] = Absent
        <3>1. \E i \in mine(c) : \A j \in mine(c) : i <= j
            BY <2>3, FirstExists
        <3> DEFINE first == CHOOSE i \in mine(c) : \A j \in mine(c) : i <= j
        <3>2. first \in mine(c)
            BY <3>1
        <3>3. rows[c] = list[first].row
            BY <1>1, <2>3
        <3> HIDE DEF first
        <3> QED BY <2>3, <3>2, <3>3 DEF Entry
    <2>4. CASE mine(c) # {} /\ db[c] # Absent
        <3>1. PICK state, flag, class : rows[c] = [db[c] EXCEPT !.state = state, !.flag = flag, !.class = class]
            BY <1>1, <2>4
        <3>2. rows[c] = [state |-> state, flag |-> flag, enabled |-> db[c].enabled, sw |-> db[c].sw,
                         role |-> db[c].role, sub |-> db[c].sub, nid |-> db[c].nid, class |-> class]
            BY <2>1, <3>1 DEF IsRow
        <3> QED BY <2>4, <3>2 DEF IsRow
    <2> QED BY <2>2, <2>3, <2>4
<1>3. rows = [c \in Comps |-> rows[c]]
    <2> DEFINE row(c) == IF mine(c) = {} THEN db[c]
                         ELSE IF db[c] = Absent THEN new(c)
                         ELSE [db[c] EXCEPT !.state = new(c).state, !.flag = new(c).flag,
                                            !.class = new(c).class]
    <2>1. rows = [c \in Comps |-> row(c)]
        BY <1>1
    <2> HIDE DEF row
    <2> QED BY <2>1
<1> QED BY <1>2, <1>3 DEF RowsOK, rows

-----------------------------------------------------------------------------
(* Each operation is a step of CompUpdates and keeps the invariant         *)

Step == Abstract!Next \/ UNCHANGED Abstract!vars

LEMMA ComponentPatchStep ==
    ASSUME StateInv, NEW k \in Callers, componentPatch(k)
    PROVE  Step /\ StateInv'
<1>1. PICK r \in mix : /\ r.op \in PatchOps
                       /\ Commits(k, Single(r).rows, Told(r, Single(r).ids), r.op = "StateData" /\ r.force)
    BY DEF componentPatch, PatchOps
<1>2. call[k] = Idle /\ UNCHANGED mix
    BY DEF componentPatch
<1>3. r.op = "StateData" => r.force \in BOOLEAN
    BY RequestsAssumption DEF StateInv
<1> DEFINE rows  == Single(r).rows
           tell  == Told(r, Single(r).ids)
           force == r.op = "StateData" /\ r.force
<1>4. /\ RowsOK(rows)
      /\ \A c \in Comps : force \/ rows[c].state = db[c].state \/ Allowed(db[c].state, rows[c].state)
    BY <1>1, <1>3, SingleRows DEF StateInv
<1>5. force \in BOOLEAN /\ Commits(k, rows, tell, force)
    BY <1>1
<1> HIDE DEF rows, tell, force
<1>6. Abstract!Direct
    BY <1>2, <1>4, <1>5, CommitsDirectly
<1>7. StateInv'
    BY <1>2, <1>4, <1>5, CommitsInv
<1> QED BY <1>6, <1>7 DEF Step, Abstract!Next

LEMMA BulkWriteStep ==
    ASSUME StateInv, NEW k \in Callers, BulkWrite(k)
    PROVE  Step /\ StateInv'
<1> DEFINE r     == call[k].req
           rows  == [c \in Comps |-> IF c \in call[k].ids /\ db[c] # Absent
                                     THEN BulkRow(r, db[c]) ELSE db[c]]
           tell  == Told(r, call[k].ids)
           force == r.op = "StateData" /\ r.force
<1>1. call[k].pc = "write" /\ UNCHANGED mix /\ Commits(k, rows, tell, force) /\ force \in BOOLEAN
    BY DEF BulkWrite, Updated, StateInv, RowsOK
<1>2. /\ RowsOK(rows)
      /\ \A c \in Comps : \/ force \/ rows[c].state = db[c].state
                          \/ \E s \in since[k][c] : Allowed(s, rows[c].state)
    BY <1>1, BulkRows
<1> HIDE DEF rows, tell, force
<1>3. Abstract!Write(k)
    BY <1>1, <1>2, CommitsWrites
<1>4. StateInv'
    BY <1>1, <1>2, CommitsInv
<1> QED BY <1>3, <1>4 DEF Step, Abstract!Next

LEMMA BulkNIDStep ==
    ASSUME StateInv, NEW k \in Callers, doCompBulkNIDPatch(k)
    PROVE  Step /\ StateInv'
<1>1. PICK r \in mix :
          Commits(k, [c \in Comps |-> IF c \in DOMAIN r.nids /\ db[c] # Absent
                                      THEN BulkUpdateCompNIDTx(db[c], r, c) ELSE db[c]], {}, FALSE)
    BY DEF doCompBulkNIDPatch, Updated, StateInv, RowsOK
<1>2. call[k] = Idle /\ UNCHANGED mix
    BY DEF doCompBulkNIDPatch
<1> DEFINE rows == [c \in Comps |-> IF c \in DOMAIN r.nids /\ db[c] # Absent
                                    THEN BulkUpdateCompNIDTx(db[c], r, c) ELSE db[c]]
<1>3. RowsOK(rows) /\ \A c \in Comps : rows[c].state = db[c].state
    BY NIDRows DEF StateInv
<1>4. Commits(k, rows, {}, FALSE)
    BY <1>1
<1> HIDE DEF rows
<1>5. Abstract!Direct
    BY <1>2, <1>3, <1>4, CommitsDirectly
<1>6. StateInv'
    BY <1>2, <1>3, <1>4, CommitsInv
<1> QED BY <1>5, <1>6 DEF Step, Abstract!Next

LEMMA UpsertWriteStep ==
    ASSUME StateInv, NEW k \in Callers, UpsertWrite(k)
    PROVE  Step /\ StateInv'
<1> DEFINE list == call[k].list
           rows == InsertComponentsTx(db, list)
<1>1. /\ call[k].pc = "upsert" /\ UNCHANGED mix
      /\ Commits(k, rows, call[k].tell, call[k].force)
    BY DEF UpsertWrite
<1>2. Inserts(k)
    BY <1>1 DEF StateInv, CallsOK
<1>3. /\ RowsOK(rows)
      /\ \A c \in Comps : (\A i \in DOMAIN list : list[i].id # c) => rows[c] = db[c]
    <2>1. DOMAIN list \subseteq Nat /\ \A i \in DOMAIN list : Entry(list[i])
        BY <1>2 DEF Inserts
    <2> HIDE DEF list
    <2> QED BY <2>1, InsertedRows DEF StateInv
<1> HIDE DEF rows
<1>4. \A c \in Comps : \/ call[k].force \/ rows[c].state = db[c].state
                       \/ \E s \in since[k][c] : Allowed(s, rows[c].state)
    <2> TAKE c \in Comps
    <2>1. CASE \E i \in DOMAIN list : list[i].id = c
        BY <1>2, <2>1 DEF Inserts, Allowed
    <2>2. CASE \A i \in DOMAIN list : list[i].id # c
        BY <1>3, <2>2
    <2> QED BY <2>1, <2>2
<1>5. Abstract!Write(k)
    BY <1>1, <1>2, <1>4, CommitsWrites DEF Inserts
<1>6. StateInv'
    BY <1>1, <1>3, CommitsInv
<1> QED BY <1>5, <1>6 DEF Step, Abstract!Next

LEMMA DeletesStep ==
    ASSUME StateInv, NEW k \in Callers, doComponentDelete(k) \/ doComponentsDeleteAll(k)
    PROVE  Step /\ StateInv'
<1>1. IsRow(Absent) /\ Absent.state = "none"
    BY DEF Absent, IsRow
<1>2. PICK rows : Deletes(k, rows) /\ rows = [c \in Comps |-> rows[c]]
                  /\ \A c \in Comps : rows[c] = db[c] \/ rows[c] = Absent
    BY DEF doComponentDelete, doComponentsDeleteAll, DeleteComponentByIDTx, DeleteComponentsAllTx,
           StateInv, RowsOK
<1>3. RowsOK(rows) /\ \A c \in Comps : rows[c].state = db[c].state \/ Allowed(db[c].state, rows[c].state)
    BY <1>1, <1>2 DEF StateInv, RowsOK, Allowed
<1>4. call[k] = Idle /\ UNCHANGED mix /\ Commits(k, rows, {}, FALSE)
    BY <1>2 DEF Deletes
<1>5. Abstract!Direct
    BY <1>3, <1>4, CommitsDirectly
<1>6. StateInv'
    BY <1>3, <1>4, CommitsInv
<1> QED BY <1>5, <1>6 DEF Step, Abstract!Next

\* What one handler does to its own call leaves the others as they are.
LEMMA OwnCallOnly ==
    ASSUME StateInv, NEW k \in Callers, NEW own, NEW seen, UNCHANGED <<db, mix>>,
           call' = [call EXCEPT ![k] = own], since' = [since EXCEPT ![k] = seen],
           seen = [c \in Comps |-> seen[c]],
           own.pc \in {"idle", "write", "upsert", "tell"},
           own.pc \in {"idle", "tell"} => seen = Nothing,
           own.pc = "write" => Decided(k)',
           own.pc = "upsert" => Inserts(k)'
    PROVE  StateInv'
<1>1. /\ call' = [j \in Callers |-> call'[j]] /\ since' = [j \in Callers |-> since'[j]]
      /\ call'[k] = own /\ since'[k] = seen
      /\ \A j \in Callers : j # k => call'[j] = call[j] /\ since'[j] = since[j]
    BY DEF StateInv, CallsOK
<1>2. ASSUME NEW j \in Callers
      PROVE  /\ since'[j] = [c \in Comps |-> since'[j][c]]
             /\ call'[j].pc \in {"idle", "write", "upsert", "tell"}
             /\ call'[j].pc \in {"idle", "tell"} => since'[j] = Nothing
             /\ call'[j].pc = "write" => Decided(j)'
             /\ call'[j].pc = "upsert" => Inserts(j)'
    <2>1. CASE j = k
        BY <1>1, <2>1
    <2>2. CASE j # k
        <3>1. call'[j] = call[j] /\ since'[j] = since[j]
            BY <1>1, <2>2
        <3>2. since[j] = [c \in Comps |-> since[j][c]]
            BY DEF StateInv, CallsOK
        <3>3. call[j].pc = "write" => Decided(j)'
            BY <3>1 DEF StateInv, CallsOK, Decided
        <3>4. call[j].pc = "upsert" => Inserts(j)'
            BY <3>1 DEF StateInv, CallsOK, Inserts
        <3> QED BY <3>1, <3>2, <3>3, <3>4 DEF StateInv, CallsOK
    <2> QED BY <2>1, <2>2
<1>3. since' = [j \in Callers |-> [c \in Comps |-> since'[j][c]]]
    BY <1>1, <1>2
<1>4. RowsOK(db)' /\ mix' \in Mixes
    BY DEF StateInv, RowsOK
<1>5. Nothing' = Nothing
    BY DEF Nothing
<1> QED BY <1>1, <1>2, <1>3, <1>4, <1>5 DEF StateInv, CallsOK

\* A read is one of CompUpdates.
LEMMA ReadsRead ==
    ASSUME NEW k \in Callers, NEW ids, Reads(k, ids), UNCHANGED <<db, forced>>
    PROVE  Abstract!Read(k)
<1>1. since' = [since EXCEPT ![k] = [c \in Comps |-> IF c \in ids \cap Comps THEN {db[c].state} ELSE {}]]
    BY DEF Reads
<1>2. ids \cap Comps \in SUBSET Comps
    OBVIOUS
<1>3. since' = [since EXCEPT ![k] = [c \in Comps |->
                   IF c \in ids \cap Comps THEN {[d \in Comps |-> db[d].state][c]} ELSE {}]]
    BY <1>1
<1> QED BY <1>2, <1>3 DEF Abstract!Read

LEMMA CompBulkPatchStep ==
    ASSUME StateInv, NEW k \in Callers, compBulkPatch(k)
    PROVE  Step /\ StateInv'
<1>1. PICK r \in mix : /\ r.op \in Bulk
                       /\ call' = [call EXCEPT ![k] = [pc |-> "write", req |-> r, ids |-> BulkSelected(r)]]
                       /\ Reads(k, BulkSelected(r))
    BY DEF compBulkPatch, Bulk
<1>2. UNCHANGED <<db, mix, forced>>
    BY DEF compBulkPatch
<1>3. r.op = "StateData" => r.force \in BOOLEAN
    BY RequestsAssumption DEF StateInv
<1> DEFINE ids  == BulkSelected(r)
           own  == [pc |-> "write", req |-> r, ids |-> ids]
           seen == [c \in Comps |-> IF c \in ids THEN {db[c].state} ELSE {}]
<1>11. since' = [since EXCEPT ![k] = seen]
    BY <1>1 DEF Reads
<1>4. call'[k] = own /\ since'[k] = seen
    BY <1>1, <1>11 DEF StateInv, CallsOK
<1>5. r.op = "StateData" /\ ~r.force => \A c \in ids : Allowed(db[c].state, r.state)
    BY <1>3, SelectedAllowed DEF BulkSelected
<1>6. own.pc = "write" /\ own.req = r /\ own.ids = ids
    OBVIOUS
<1>7. call' = [call EXCEPT ![k] = own]
    BY <1>1
<1> HIDE DEF ids, own
<1>8. Decided(k)'
    <2>1. call'[k].req = r /\ call'[k].ids = ids
        BY <1>4, <1>6
    <2>2. r.op = "StateData" => r.force \/ \A c \in ids \cap Comps :
              \E s \in since'[k][c] : Allowed(s, r.state)
        BY <1>3, <1>4, <1>5
    <2> QED BY <1>1, <1>3, <2>1, <2>2 DEF Decided, Allowed, ValidStartStates
<1>9. StateInv'
    <2> HIDE DEF seen
    <2>1. seen = [c \in Comps |-> seen[c]]
        BY DEF seen
    <2> QED BY <1>2, <1>6, <1>7, <1>8, <1>11, <2>1, OwnCallOnly
<1>10. Abstract!Read(k)
    BY <1>1, <1>2, ReadsRead
<1> QED BY <1>9, <1>10 DEF Step, Abstract!Next

LEMMA UpsertReadStep ==
    ASSUME StateInv, NEW k \in Callers, UpsertRead(k)
    PROVE  Step /\ StateInv'
<1> DEFINE given(r) == [i \in DOMAIN r.list |->
                           [id |-> r.list[i].id, row |-> Defaulted(r.list[i].row)]]
           list(r)  == UpsertComponents(db, given(r), r.force)
           ids(r)   == {list(r)[i].id : i \in DOMAIN list(r)}
<1> DEFINE telling(r) == IF r.op = "Post" THEN doComponentsPost(db, [r EXCEPT !.list = given(r)])
                      ELSE doComponentPut(db, [r EXCEPT !.list = given(r)])
<1>0. PICK r \in mix : /\ r.op \in {"Post", "Put"}
                       /\ call' = [call EXCEPT ![k] = [pc |-> "upsert", list |-> list(r),
                                                      force |-> r.force, tell |-> telling(r)]]
                       /\ Reads(k, ids(r))
    BY Zenon DEF UpsertRead
<1>2. UNCHANGED <<db, mix, forced>>
    BY DEF UpsertRead
<1>3. /\ r.force \in BOOLEAN
      /\ r.list = [i \in 1..Len(r.list) |-> r.list[i]] /\ Len(r.list) \in Nat
      /\ \A i \in 1..Len(r.list) : r.list[i].id \in Comps /\ IsRow(r.list[i].row)
    BY <1>0, RequestsAssumption DEF StateInv
<1>4. \A row : IsRow(row) => IsRow(Defaulted(row))
    <2> TAKE row
    <2> HAVE IsRow(row)
    <2>1. PICK role : Defaulted(row) = [row EXCEPT !.role = role]
        BY DEF Defaulted
    <2>2. Defaulted(row) = [state |-> row.state, flag |-> row.flag, enabled |-> row.enabled,
                            sw |-> row.sw, role |-> role, sub |-> row.sub, nid |-> row.nid,
                            class |-> row.class]
        BY <2>1 DEF IsRow
    <2> QED BY <2>2 DEF IsRow
<1>5. /\ DOMAIN given(r) = 1..Len(r.list)
      /\ \A i \in DOMAIN given(r) : Entry(given(r)[i])
    BY <1>3, <1>4 DEF Entry
<1> DEFINE g == given(r)
           l == list(r)
           own == [pc |-> "upsert", list |-> l, force |-> r.force, tell |-> telling(r)]
           seen == [c \in Comps |-> IF c \in {l[i].id : i \in DOMAIN l} THEN {db[c].state} ELSE {}]
<1>6. /\ DOMAIN l \subseteq DOMAIN g
      /\ \A i \in DOMAIN l : l[i] = g[i] /\ Wanted(db[g[i].id], g[i].row, r.force)
    <2> HIDE DEF given
    <2> QED BY DEF UpsertComponents
<1>7. /\ call' = [call EXCEPT ![k] = own] /\ since' = [since EXCEPT ![k] = seen]
      /\ own.pc = "upsert" /\ own.list = l /\ own.force = r.force
    BY <1>0 DEF Reads
<1>8. DOMAIN g = 1..Len(r.list) /\ \A i \in DOMAIN g : Entry(g[i])
    BY <1>5
<1>9. Abstract!Read(k)
    BY <1>0, <1>2, ReadsRead
<1> HIDE DEF given, list, telling, g, l, own
<1>10. call'[k] = own /\ since'[k] = seen
    BY <1>7 DEF StateInv, CallsOK
<1>11. Inserts(k)'
    <2>1. ASSUME ~r.force, NEW i \in DOMAIN l
          PROVE  "none" \in since'[k][l[i].id]
        <3>1. db[l[i].id] = Absent
            BY <1>6, <2>1 DEF Wanted
        <3>2. l[i].id \in Comps
            BY <1>6, <1>8 DEF Entry
        <3> QED BY <1>10, <3>1, <3>2 DEF Absent
    <2>2. \E n \in Nat : DOMAIN l \subseteq 1..n
        BY <1>3, <1>6, <1>8
    <2>3. \A i \in DOMAIN l : Entry(l[i])
        BY <1>6, <1>8
    <2>4. call'[k].list = l /\ call'[k].force = r.force
        BY <1>7, <1>10
    <2> QED BY <1>3, <2>1, <2>2, <2>3, <2>4 DEF Inserts, Entry, IsRow
<1>12. StateInv'
    <2> HIDE DEF seen
    <2>1. seen = [c \in Comps |-> seen[c]]
        BY DEF seen
    <2> QED BY <1>2, <1>7, <1>11, <2>1, OwnCallOnly
<1> QED BY <1>9, <1>12 DEF Step, Abstract!Next

LEMMA QueueSCNStep ==
    ASSUME StateInv, NEW k \in Callers, QueueSCN(k)
    PROVE  Step /\ StateInv'
<1>1. PICK t \in call[k].tell :
          call' = [call EXCEPT ![k] = IF call[k].tell = {t} THEN Idle
                                      ELSE [pc |-> "tell", tell |-> call[k].tell \ {t}]]
    BY DEF QueueSCN
<1>2. call[k].pc = "tell" /\ UNCHANGED <<db, mix, since, forced>>
    BY DEF QueueSCN
<1> DEFINE own == IF call[k].tell = {t} THEN Idle ELSE [pc |-> "tell", tell |-> call[k].tell \ {t}]
<1>3. own.pc \in {"idle", "tell"}
    BY <1>2 DEF Idle
<1>4. since[k] = Nothing /\ since' = [since EXCEPT ![k] = Nothing] /\ Nothing = [c \in Comps |-> Nothing[c]]
    BY <1>2 DEF StateInv, CallsOK, Nothing
<1>5. call' = [call EXCEPT ![k] = own]
    BY <1>1
<1> HIDE DEF own
<1>6. StateInv'
    BY <1>2, <1>3, <1>4, <1>5, OwnCallOnly
<1>7. UNCHANGED Abstract!vars
    BY <1>2 DEF Abstract!vars
<1> QED BY <1>6, <1>7 DEF Step

LEMMA CrashStep ==
    ASSUME StateInv, Crash
    PROVE  Step /\ StateInv'
<1>1. PICK dead \in SUBSET Busy :
          /\ call' = [k \in Callers |-> IF k \in dead THEN Idle ELSE call[k]]
          /\ since' = [k \in Callers |-> IF k \in dead THEN Nothing ELSE since[k]]
          /\ UNCHANGED <<db, mix, forced>>
    BY DEF Crash
<1>2. dead \in SUBSET Callers
    BY DEF Busy
<1>3. Abstract!Abandon
    <2>1. Nothing = Abstract!Nothing
        BY DEF Nothing, Abstract!Nothing
    <2> QED BY <1>1, <1>2, <2>1 DEF Abstract!Abandon
<1>4. ASSUME NEW j \in Callers
      PROVE  /\ since'[j] = [c \in Comps |-> since'[j][c]]
             /\ call'[j].pc \in {"idle", "write", "upsert", "tell"}
             /\ call'[j].pc \in {"idle", "tell"} => since'[j] = Nothing
             /\ call'[j].pc = "write" => Decided(j)'
             /\ call'[j].pc = "upsert" => Inserts(j)'
    <2>1. CASE j \in dead
        BY <1>1, <2>1 DEF Idle, Nothing
    <2>2. CASE j \notin dead
        <3>1. call'[j] = call[j] /\ since'[j] = since[j]
            BY <1>1, <2>2
        <3>2. since[j] = [c \in Comps |-> since[j][c]]
            BY DEF StateInv, CallsOK
        <3>3. call[j].pc = "write" => Decided(j)'
            BY <3>1 DEF StateInv, CallsOK, Decided
        <3>4. call[j].pc = "upsert" => Inserts(j)'
            BY <3>1 DEF StateInv, CallsOK, Inserts
        <3> QED BY <3>1, <3>2, <3>3, <3>4 DEF StateInv, CallsOK
    <2> QED BY <2>1, <2>2
<1>5. RowsOK(db)' /\ mix' \in Mixes /\ Nothing' = Nothing
    BY <1>1 DEF StateInv, RowsOK, Nothing
<1>6. StateInv'
    BY <1>1, <1>4, <1>5 DEF StateInv, CallsOK
<1> QED BY <1>3, <1>6 DEF Step, Abstract!Next

-----------------------------------------------------------------------------
(* CompState implements CompUpdates                                        *)

LEMMA InitInv ==
    ASSUME Init
    PROVE  StateInv /\ Abstract!Init
<1>1. IsRow(Absent)
    BY DEF Absent, IsRow
<1>2. IsRow(OnNode)
    BY DEF OnNode, IsRow
<1>3. db \in [Comps -> {Absent, OnNode}]
    BY DEF Init
<1>4. RowsOK(db)
    BY <1>1, <1>2, <1>3 DEF RowsOK
<1>5. CallsOK
    BY DEF Init, CallsOK, Idle, Nothing
<1>6. Nothing = Abstract!Nothing
    BY DEF Nothing, Abstract!Nothing
<1> QED BY <1>4, <1>5, <1>6 DEF Init, StateInv, Abstract!Init

\* Whatever the handlers do and however their steps interleave, it is a step that
\* CompUpdates allows or one that changes no state.
LEMMA EachStep ==
    ASSUME StateInv, [Next]_vars
    PROVE  [Abstract!Next]_(Abstract!vars) /\ StateInv'
<1>1. CASE Crash
    BY <1>1, CrashStep DEF Step
<1>2. ASSUME NEW k \in Callers,
             \/ componentPatch(k) \/ compBulkPatch(k) \/ BulkWrite(k) \/ doCompBulkNIDPatch(k)
             \/ UpsertRead(k) \/ UpsertWrite(k) \/ QueueSCN(k)
             \/ doComponentDelete(k) \/ doComponentsDeleteAll(k)
      PROVE  Step /\ StateInv'
    BY <1>2, ComponentPatchStep, CompBulkPatchStep, BulkWriteStep, BulkNIDStep, UpsertReadStep,
       UpsertWriteStep, QueueSCNStep, DeletesStep
<1>3. CASE UNCHANGED vars
    <2>1. UNCHANGED Abstract!vars
        BY <1>3 DEF vars, Abstract!vars
    <2>2. UNCHANGED <<db, call, mix, since>>
        BY <1>3 DEF vars
    <2>3. StateInv'
        BY <2>2 DEF StateInv, RowsOK, CallsOK, Decided, Inserts, Nothing
    <2> QED BY <2>1, <2>3
<1> QED BY <1>1, <1>2, <1>3 DEF Next, Step

\* The component updates of the HTTP handlers implement CompUpdates: the SELECT and
\* the UPDATE of a bulk PATCH and the read and the INSERT of a POST may be separated
\* by anything other calls do, yet no state changes but along the table of start
\* states, from one the component has had since, or by force
\* (hmsds-postgres.go:526-760).
THEOREM UpdatesPromiseHolds == Spec => UpdatesPromise
<1>1. Init => StateInv /\ Abstract!Init
    BY InitInv
<1>2. StateInv /\ [Next]_vars => StateInv'
    BY EachStep
<1>3. StateInv /\ [Next]_vars => [Abstract!Next]_(Abstract!vars)
    BY EachStep
<1> QED BY <1>1, <1>2, <1>3, PTL DEF Spec, UpdatesPromise, Abstract!Spec

-----------------------------------------------------------------------------
(* What subscribers are told                                               *)

Whats == {"state", "role", "sw", "enabled"}

\* The SCNs that k has still to queue.
Telling(k) == IF call[k].pc = "tell" THEN call[k].tell ELSE {}

\* What tell says of c is so in row new, and what it does not say of c is as it was in row
\* old, or has never been told.
Honest(c, old, new, tell) ==
    IF new = Absent THEN \A t \in tell : c \notin t.ids
    ELSE /\ \A t \in tell : c \in t.ids => t.val = Said(t.what, new)
         /\ \A w \in Whats : \/ \E t \in tell : c \in t.ids /\ t.what = w
                             \/ old # Absent /\ Said(w, new) = Said(w, old)
                             \/ old = Absent /\ w \in {"sw", "enabled"}

Settled(c, w) == told[c][w] = Said(w, db[c]) \/ (w \in {"sw", "enabled"} /\ told[c][w] = Unknown)

\* What is told of c, and is going to be, is true of its row.
CompTold(c) ==
    IF db[c] = Absent
    THEN told[c] = Untold /\ \A k \in Callers : \A t \in Telling(k) : c \notin t.ids
    ELSE /\ \A k \in Callers : \A t \in Telling(k) : c \in t.ids => t.val = Said(t.what, db[c])
         /\ \A w \in Whats : \/ \E k \in Callers : \E t \in Telling(k) : c \in t.ids /\ t.what = w
                             \/ Settled(c, w)

\* What an INSERT of list makes of row old of c.
Stored(c, old, list) ==
    LET mine == {i \in DOMAIN list : list[i].id = c} IN
    IF mine = {} THEN old
    ELSE LET new == list[CHOOSE i \in mine : \A j \in mine : i <= j].row IN
         IF old = Absent THEN new
         ELSE [old EXCEPT !.state = new.state, !.flag = new.flag, !.class = new.class]

\* Between its read and its write a call is still right about a component that no
\* other call has touched.
WriteOK(k) ==
    /\ call[k].ids \subseteq call[k].req.ids /\ call[k].ids \subseteq Comps
    /\ call[k].ids \subseteq Present \cup blurred
    /\ call[k].req.op = "StateData" => call[k].req.state # "none"
UpsertOK(k) ==
    /\ \A i \in DOMAIN call[k].list : call[k].list[i].row.state # "none"
    /\ \A t \in call[k].tell : t.ids \subseteq Ids(k)
    /\ \A c \in Comps \ blurred :
           Honest(c, db[c], Stored(c, db[c], call[k].list), call[k].tell)
CallTruth(k) ==
    /\ call[k].pc = "write" => WriteOK(k)
    /\ call[k].pc = "upsert" => UpsertOK(k)
    /\ call[k].pc \in {"tell", "upsert"} => \A t \in call[k].tell : t.what \in Whats

ToldShape ==
    /\ told = [c \in Comps |-> told[c]]
    /\ \A c \in Comps : told[c] = [w \in Whats |-> told[c][w]]
RealRows == \A c \in Comps : db[c] # Absent => db[c].state # "none"

TruthInv ==
    /\ ToldShape /\ RealRows
    /\ \A c \in Comps \ blurred : CompTold(c)
    /\ \A k \in Callers : CallTruth(k)

LEMMA IdsOf ==
    ASSUME NEW k \in Callers
    PROVE  /\ call[k].pc = "write" => Ids(k) = call[k].req.ids
           /\ call[k].pc = "upsert" => Ids(k) = {call[k].list[i].id : i \in DOMAIN call[k].list}
           /\ call[k].pc = "tell" => Ids(k) = UNION {t.ids : t \in call[k].tell}
  BY DEF Ids

LEMMA TellingIds ==
    ASSUME NEW k \in Callers, NEW t \in Telling(k)
    PROVE  t.ids \subseteq Ids(k)
  BY IdsOf DEF Telling

\* A commit leaves the truth told or to be told, if what its call tells is honest.
LEMMA CommitsTruth ==
    ASSUME StateInv, TruthInv, NEW k \in Callers, NEW rows, NEW tell, NEW force,
           Commits(k, rows, tell, force), call[k].pc # "tell",
           \A c \in Comps : rows[c] # Absent => rows[c].state # "none",
           \A t \in tell : t.what \in Whats, ToldShape',
           \A c \in Comps : \/ told'[c] = told[c] /\ (rows[c] = Absent => db[c] = Absent)
                            \/ told'[c] = Untold /\ rows[c] = Absent,
           \A c \in Comps \ blurred : (rows[c] # db[c] \/ \E t \in tell : c \in t.ids) =>
                                          Honest(c, db[c], rows[c], tell)
    PROVE  TruthInv'
<1> DEFINE touched == {c \in Comps : rows[c] # db[c]} \cup UNION {t.ids : t \in tell}
<1>1. /\ db' = rows
      /\ call' = [call EXCEPT ![k] = IF tell = {} THEN Idle ELSE [pc |-> "tell", tell |-> tell]]
      /\ blurred' = blurred \cup {c \in touched : \E j \in Callers \ {k} : c \in Ids(j)}
  BY DEF Commits
<1>2. /\ call'[k] = IF tell = {} THEN Idle ELSE [pc |-> "tell", tell |-> tell]
      /\ \A j \in Callers : j # k => call'[j] = call[j]
  BY <1>1 DEF StateInv, CallsOK
<1>3. Telling(k) = {} /\ Telling(k)' = tell /\ \A j \in Callers : j # k => Telling(j)' = Telling(j)
  BY <1>2 DEF Telling, Idle
<1>4. ASSUME NEW c \in Comps, c \notin blurred', c \in touched
      PROVE  \A j \in Callers \ {k} : c \notin Ids(j)
  BY <1>1, <1>4
<1>5. blurred \subseteq blurred'
  BY <1>1
<1> HIDE DEF touched
<1>6. ASSUME NEW c \in Comps, c \notin blurred'
      PROVE  CompTold(c)'
  <2>1. CompTold(c)
    BY <1>5, <1>6 DEF TruthInv
  <2>2. CASE c \notin touched
    <3>1. rows[c] = db[c] /\ \A t \in tell : c \notin t.ids
      BY <2>2 DEF touched
    <3>2. CASE db[c] = Absent
      <4>1. told'[c] = Untold
        BY <2>1, <3>2 DEF CompTold
      <4>2. \A j \in Callers : \A t \in Telling(j)' : c \notin t.ids
        BY <1>3, <2>1, <3>1, <3>2 DEF CompTold
      <4> QED
        BY <1>1, <3>1, <3>2, <4>1, <4>2 DEF CompTold
    <3>3. CASE db[c] # Absent
      <4>1. told'[c] = told[c]
        BY <3>1, <3>3
      <4>2. \A j \in Callers : \A t \in Telling(j)' : c \in t.ids => t.val = Said(t.what, db[c])
        BY <1>3, <2>1, <3>1, <3>3 DEF CompTold
      <4>3. ASSUME NEW w \in Whats
            PROVE  (\E j \in Callers : \E t \in Telling(j)' : c \in t.ids /\ t.what = w)
                   \/ Settled(c, w)
        BY <1>3, <2>1, <3>3 DEF CompTold
      <4> QED
        BY <1>1, <3>1, <3>3, <4>1, <4>2, <4>3 DEF CompTold, Settled
    <3> QED
      BY <3>2, <3>3
  <2>3. CASE c \in touched
    <3>1. \A j \in Callers : \A t \in Telling(j) : c \notin t.ids
      BY <1>3, <1>4, <1>6, <2>3, TellingIds
    <3>2. Honest(c, db[c], rows[c], tell)
      BY <1>5, <1>6, <2>3 DEF touched
    <3>3. CASE rows[c] = Absent
      <4>1. told'[c] = Untold
        BY <2>1, <3>3 DEF CompTold
      <4>2. \A j \in Callers : \A t \in Telling(j)' : c \notin t.ids
        BY <1>3, <3>1, <3>2, <3>3 DEF Honest
      <4> QED
        BY <1>1, <3>3, <4>1, <4>2 DEF CompTold
    <3>4. CASE rows[c] # Absent
      <4>1. told'[c] = told[c]
        BY <3>4
      <4>2. \A j \in Callers : \A t \in Telling(j)' : c \in t.ids => t.val = Said(t.what, rows[c])
        BY <1>3, <3>1, <3>2, <3>4 DEF Honest
      <4>3. ASSUME NEW w \in Whats
            PROVE  \/ \E j \in Callers : \E t \in Telling(j)' : c \in t.ids /\ t.what = w
                   \/ told[c][w] = Said(w, rows[c])
                   \/ w \in {"sw", "enabled"} /\ told[c][w] = Unknown
        <5>1. CASE \E t \in tell : c \in t.ids /\ t.what = w
          BY <1>3, <5>1
        <5>2. CASE db[c] # Absent /\ Said(w, rows[c]) = Said(w, db[c])
          BY <2>1, <3>1, <5>2 DEF CompTold, Settled
        <5>3. CASE db[c] = Absent /\ w \in {"sw", "enabled"}
          <6>1. told[c] = Untold
            BY <2>1, <5>3 DEF CompTold
          <6>2. Untold["sw"] = Unknown /\ Untold["enabled"] = Unknown
            BY DEF Untold
          <6> QED
            BY <5>3, <6>1, <6>2
        <5> QED
          BY <3>2, <3>4, <5>1, <5>2, <5>3 DEF Honest
      <4> QED
        BY <1>1, <3>4, <4>1, <4>2, <4>3 DEF CompTold, Settled
    <3> QED
      BY <3>3, <3>4
  <2> QED
    BY <2>2, <2>3
<1>7. ASSUME NEW j \in Callers
      PROVE  CallTruth(j)'
  <2>1. CASE j = k
    BY <1>2, <2>1 DEF CallTruth, Idle
  <2>2. CASE j # k
    <3>1. call'[j] = call[j] /\ CallTruth(j)
      BY <1>2, <2>2 DEF TruthInv
    <3>2. ASSUME NEW c \in Comps, c \notin blurred', c \in Ids(j)
          PROVE  rows[c] = db[c]
      BY <1>4, <2>2, <3>2 DEF touched
    <3>3. ASSUME call[j].pc = "write"
          PROVE  WriteOK(j)'
      <4>1. WriteOK(j) /\ Ids(j) = call[j].req.ids
        BY <3>1, <3>3, IdsOf DEF CallTruth
      <4>2. call[j].ids \subseteq Present' \cup blurred'
        BY <1>1, <1>5, <3>2, <4>1 DEF WriteOK, Present
      <4> QED
        BY <3>1, <4>1, <4>2 DEF WriteOK
    <3>4. ASSUME call[j].pc = "upsert"
          PROVE  UpsertOK(j)'
      <4>1. UpsertOK(j) /\ Ids(j) = {call[j].list[i].id : i \in DOMAIN call[j].list}
        BY <3>1, <3>4, IdsOf DEF CallTruth
      <4>2. Ids(j)' = Ids(j)
        BY <3>1 DEF Ids
      <4>3. ASSUME NEW c \in Comps, c \notin blurred'
            PROVE  Honest(c, rows[c], Stored(c, rows[c], call[j].list), call[j].tell)
        <5>1. CASE c \in Ids(j)
          BY <1>5, <3>2, <4>1, <4>3, <5>1 DEF UpsertOK
        <5>2. CASE c \notin Ids(j)
          <6>1. \A t \in call[j].tell : c \notin t.ids
            BY <4>1, <5>2 DEF UpsertOK
          <6>2. {i \in DOMAIN call[j].list : call[j].list[i].id = c} = {}
            BY <4>1, <5>2
          <6>3. Stored(c, rows[c], call[j].list) = rows[c]
            BY <6>2 DEF Stored
          <6> QED
            BY <6>1, <6>3 DEF Honest
        <5> QED
          BY <5>1, <5>2
      <4> QED
        BY <1>1, <3>1, <4>1, <4>2, <4>3 DEF UpsertOK
    <3> QED
      BY <3>1, <3>3, <3>4 DEF CallTruth
  <2> QED
    BY <2>1, <2>2
<1>8. RealRows'
  BY <1>1 DEF RealRows
<1> QED
  BY <1>6, <1>7, <1>8 DEF TruthInv

-----------------------------------------------------------------------------
(* PATCH                                                                   *)

\* new is row after the update r.
Changed(r, row, new) ==
    \/ r.op = "StateData"      /\ new = UpdateCompStatesTx(row, r) /\ r.state # "none"
    \/ r.op = "FlagOnly"       /\ new = UpdateCompFlagOnlyTx(row, r)
    \/ r.op = "Enabled"        /\ new = UpdateCompEnabledTx(row, r)
    \/ r.op = "SoftwareStatus" /\ new = UpdateCompSwStatusTx(row, r)
    \/ r.op = "Role"           /\ new = UpdateCompRoleTx(row, r)
    \/ r.op = "Class"          /\ new = BulkUpdateCompClassTx(row, r)
    \/ r.op \in {"NID", "BulkNID"} /\ \E nid : new = [row EXCEPT !.nid = nid]

\* What is said of a row, column by column.
LEMMA SaidOf ==
    ASSUME NEW row
    PROVE  /\ Said("state", row) = row.state /\ Said("role", row) = <<row.role, row.sub>>
           /\ Said("sw", row) = row.sw /\ Said("enabled", row) = row.enabled
  BY DEF Said

\* The columns that an update changes are those that it tells.
LEMMA ChangedColumns ==
    ASSUME NEW row, IsRow(row), NEW r, NEW new, Changed(r, row, new)
    PROVE  /\ new.state = IF r.op = "StateData" THEN r.state ELSE row.state
           /\ new.enabled = IF r.op = "Enabled" THEN r.enabled ELSE row.enabled
           /\ new.sw = IF r.op = "SoftwareStatus" THEN r.sw ELSE row.sw
           /\ new.role = IF r.op = "Role" THEN r.role ELSE row.role
           /\ new.sub = IF r.op = "Role" THEN r.sub ELSE row.sub
<1>1. CASE r.op = "StateData"
  <2>1. PICK flag : new = [row EXCEPT !.state = r.state, !.flag = flag]
    BY <1>1 DEF Changed, UpdateCompStatesTx
  <2> QED
    BY <1>1, <2>1 DEF IsRow
<1>2. CASE r.op = "FlagOnly"
  BY <1>2 DEF Changed, UpdateCompFlagOnlyTx, IsRow
<1>3. CASE r.op = "Enabled"
  BY <1>3 DEF Changed, UpdateCompEnabledTx, IsRow
<1>4. CASE r.op = "SoftwareStatus"
  BY <1>4 DEF Changed, UpdateCompSwStatusTx, IsRow
<1>5. CASE r.op = "Role"
  BY <1>5 DEF Changed, UpdateCompRoleTx, IsRow
<1>6. CASE r.op = "Class"
  BY <1>6 DEF Changed, BulkUpdateCompClassTx, IsRow
<1>7. CASE r.op \in {"NID", "BulkNID"}
  <2>1. PICK nid : new = [row EXCEPT !.nid = nid]
    BY <1>7 DEF Changed
  <2> QED
    BY <1>7, <2>1 DEF IsRow
<1> QED
  BY <1>1, <1>2, <1>3, <1>4, <1>5, <1>6, <1>7 DEF Changed

LEMMA ToldOf ==
    ASSUME NEW r, NEW ids, NEW t \in Told(r, ids)
    PROVE  /\ t.what \in Whats /\ t.ids = ids
           /\ \A c, row, new : IsRow(row) /\ Changed(r, row, new) => t.val = Said(t.what, new)
<1>1. \/ r.op = "StateData" /\ t = [what |-> "state", val |-> r.state, ids |-> ids]
      \/ r.op = "Enabled" /\ t = [what |-> "enabled", val |-> r.enabled, ids |-> ids]
      \/ r.op = "SoftwareStatus" /\ t = [what |-> "sw", val |-> r.sw, ids |-> ids]
      \/ r.op = "Role" /\ t = [what |-> "role", val |-> <<r.role, r.sub>>, ids |-> ids]
  BY DEF Told
<1>2. ASSUME NEW c, NEW row, NEW new, IsRow(row), Changed(r, row, new)
      PROVE  t.val = Said(t.what, new)
  <2>1. /\ r.op = "StateData" => new.state = r.state
        /\ r.op = "Enabled" => new.enabled = r.enabled
        /\ r.op = "SoftwareStatus" => new.sw = r.sw
        /\ r.op = "Role" => new.role = r.role /\ new.sub = r.sub
    BY <1>2, ChangedColumns
  <2>2. /\ Said("state", new) = new.state /\ Said("role", new) = <<new.role, new.sub>>
        /\ Said("sw", new) = new.sw /\ Said("enabled", new) = new.enabled
    BY SaidOf
  <2> QED
    BY <1>1, <2>1, <2>2
<1>3. t.what \in Whats /\ t.ids = ids
  BY <1>1 DEF Whats
<1> QED
  BY <1>2, <1>3

LEMMA ChangedHonest ==
    ASSUME NEW c, NEW row, IsRow(row), row.state # "none", NEW r, NEW new, Changed(r, row, new),
           NEW ids, c \in ids
    PROVE  new.state # "none" /\ Honest(c, row, new, Told(r, ids))
<1>0. /\ new.state = IF r.op = "StateData" THEN r.state ELSE row.state
      /\ new.enabled = IF r.op = "Enabled" THEN r.enabled ELSE row.enabled
      /\ new.sw = IF r.op = "SoftwareStatus" THEN r.sw ELSE row.sw
      /\ new.role = IF r.op = "Role" THEN r.role ELSE row.role
      /\ new.sub = IF r.op = "Role" THEN r.sub ELSE row.sub
  BY ChangedColumns
<1>1. new.state # "none"
  BY <1>0 DEF Changed
<1>2. row # Absent /\ new # Absent
  BY <1>1 DEF Absent
<1>3. \A t \in Told(r, ids) : t.val = Said(t.what, new)
  BY ToldOf
<1>4. ASSUME NEW w \in Whats
      PROVE  \/ \E t \in Told(r, ids) : c \in t.ids /\ t.what = w
             \/ Said(w, new) = Said(w, row)
  <2> DEFINE itsOwn == <<w, r.op>> \in {<<"state", "StateData">>, <<"enabled", "Enabled">>,
                                         <<"sw", "SoftwareStatus">>, <<"role", "Role">>}
  <2>1. CASE itsOwn
    BY <2>1 DEF Told
  <2>2. CASE ~itsOwn
    <3>1. w = "state" => new.state = row.state
      BY <1>0, <2>2
    <3>2. w = "enabled" => new.enabled = row.enabled
      BY <1>0, <2>2
    <3>3. w = "sw" => new.sw = row.sw
      BY <1>0, <2>2
    <3>4. w = "role" => new.role = row.role /\ new.sub = row.sub
      BY <1>0, <2>2
    <3> QED
      BY <3>1, <3>2, <3>3, <3>4, SaidOf DEF Whats
  <2> QED
    BY <2>1, <2>2
<1> QED
  BY <1>1, <1>2, <1>3, <1>4 DEF Honest

LEMMA PatchTruth ==
    ASSUME StateInv, TruthInv, NEW k \in Callers, NEW r, NEW ids, NEW rows, NEW force,
           Commits(k, rows, Told(r, ids), force), call[k].pc # "tell", UNCHANGED told,
           \A c \in Comps : rows[c] = db[c] \/ (c \in ids /\ db[c] # Absent /\ Changed(r, db[c], rows[c])),
           \A c \in Comps \ blurred : c \in ids => db[c] # Absent /\ Changed(r, db[c], rows[c])
    PROVE  TruthInv'
<1> DEFINE tell == Told(r, ids)
<1>1. \A c \in Comps : IsRow(db[c]) /\ (db[c] # Absent => db[c].state # "none")
  BY DEF StateInv, RowsOK, TruthInv, RealRows
<1>2. \A t \in tell : t.what \in Whats /\ t.ids = ids
  BY ToldOf
<1>3. Absent.state = "none"
  BY DEF Absent
<1>4. ASSUME NEW c \in Comps
      PROVE  (rows[c] # Absent => rows[c].state # "none") /\ (rows[c] = Absent => db[c] = Absent)
  BY <1>1, <1>3, ChangedHonest
<1>5. ASSUME NEW c \in Comps \ blurred, rows[c] # db[c] \/ \E t \in tell : c \in t.ids
      PROVE  Honest(c, db[c], rows[c], tell)
  BY <1>1, <1>2, <1>5, ChangedHonest
<1>6. ToldShape'
  BY DEF TruthInv, ToldShape
<1> HIDE DEF tell
<1>7. Commits(k, rows, tell, force)
  BY DEF tell
<1> QED
  BY <1>2, <1>4, <1>5, <1>6, <1>7, CommitsTruth

LEMMA SingleChanged ==
    ASSUME StateInv, NEW r, r.op \in PatchOps, r.op = "StateData" => r.state # "none", NEW c \in Comps
    PROVE  /\ Single(r).rows[c] = db[c] \/ (/\ c \in Single(r).ids /\ db[c] # Absent
                                            /\ Changed(r, db[c], Single(r).rows[c]))
           /\ c \in Single(r).ids => db[c] # Absent /\ Changed(r, db[c], Single(r).rows[c])
<1>1. CASE r.op = "StateData"
  BY <1>1 DEF Single, dbUpdateCompState, Updated, RowsOK, StateInv, Changed, UpdateCompStates,
              GetComponentIDsTx, Present
<1>2. CASE r.op = "FlagOnly"
  BY <1>2 DEF Single, dbUpdateCompFlagOnly, Updated, RowsOK, StateInv, Changed, Present
<1>3. CASE r.op = "Enabled"
  BY <1>3 DEF Single, dbUpdateCompEnabled, Updated, RowsOK, StateInv, Changed, Present
<1>4. CASE r.op = "SoftwareStatus"
  BY <1>4 DEF Single, dbUpdateCompSwStatus, Updated, RowsOK, StateInv, Changed, Present
<1>5. CASE r.op = "Role"
  BY <1>5 DEF Single, dbUpdateCompRole, Updated, RowsOK, StateInv, Changed, Present
<1>6. CASE r.op = "NID"
  BY <1>6 DEF Single, dbUpdateCompSingleNID, Updated, RowsOK, StateInv, Changed, Present,
              UpdateCompNIDTx
<1> QED
  BY <1>1, <1>2, <1>3, <1>4, <1>5, <1>6 DEF PatchOps

LEMMA RequestedState ==
    ASSUME StateInv, NEW r \in mix
    PROVE  r.op = "StateData" => r.state # "none"
  BY RequestsAssumption DEF StateInv, States

LEMMA ComponentPatchTruth ==
    ASSUME StateInv, TruthInv, NEW k \in Callers, componentPatch(k)
    PROVE  TruthInv'
<1>1. PICK r \in mix : /\ r.op \in PatchOps
                       /\ Commits(k, Single(r).rows, Told(r, Single(r).ids), r.op = "StateData" /\ r.force)
  BY DEF componentPatch, PatchOps
<1>2. call[k].pc # "tell" /\ UNCHANGED told
  BY DEF componentPatch, Idle
<1>3. \A c \in Comps :
          /\ Single(r).rows[c] = db[c] \/ (/\ c \in Single(r).ids /\ db[c] # Absent
                                           /\ Changed(r, db[c], Single(r).rows[c]))
          /\ c \in Single(r).ids => db[c] # Absent /\ Changed(r, db[c], Single(r).rows[c])
  BY <1>1, RequestedState, SingleChanged
<1> DEFINE force == r.op = "StateData" /\ r.force
<1>4. Commits(k, Single(r).rows, Told(r, Single(r).ids), force)
  BY <1>1
<1> HIDE DEF force
<1> QED
  BY <1>2, <1>3, <1>4, PatchTruth

LEMMA BulkChanged ==
    ASSUME NEW r, r.op \in Bulk, r.op = "StateData" => r.state # "none", NEW row
    PROVE  Changed(r, row, BulkRow(r, row))
  BY DEF Bulk, BulkRow, Changed, BulkUpdateCompFlagOnlyTx, UpdateCompFlagOnlyTx,
         BulkUpdateCompEnabledTx, UpdateCompEnabledTx, BulkUpdateCompSwStatusTx,
         UpdateCompSwStatusTx, BulkUpdateCompRoleTx, UpdateCompRoleTx

LEMMA BulkWriteTruth ==
    ASSUME StateInv, TruthInv, NEW k \in Callers, BulkWrite(k)
    PROVE  TruthInv'
<1> DEFINE r     == call[k].req
           ids   == call[k].ids
           rows  == [c \in Comps |-> IF c \in ids /\ db[c] # Absent
                                     THEN BulkRow(r, db[c]) ELSE db[c]]
           force == r.op = "StateData" /\ r.force
<1>1. call[k].pc = "write" /\ UNCHANGED told /\ Commits(k, rows, Told(r, ids), force)
  BY DEF BulkWrite, Updated, StateInv, RowsOK
<1>2. WriteOK(k) /\ Decided(k)
  BY <1>1 DEF TruthInv, CallTruth, StateInv, CallsOK
<1>3. r.op \in Bulk /\ (r.op = "StateData" => r.state # "none")
  BY <1>2 DEF WriteOK, Decided
<1>4. \A c \in Comps \ blurred : c \in ids => db[c] # Absent
  BY <1>2 DEF WriteOK, Present
<1>5. \A c \in Comps : IF c \in ids /\ db[c] # Absent THEN Changed(r, db[c], rows[c])
                                                    ELSE rows[c] = db[c]
  BY <1>3, BulkChanged
<1> HIDE DEF rows, force, r, ids
<1> QED
  BY <1>1, <1>4, <1>5, PatchTruth

LEMMA BulkNIDTruth ==
    ASSUME StateInv, TruthInv, NEW k \in Callers, doCompBulkNIDPatch(k)
    PROVE  TruthInv'
<1>1. PICK r \in mix :
          /\ r.op = "BulkNID"
          /\ Commits(k, [c \in Comps |-> IF c \in DOMAIN r.nids /\ db[c] # Absent
                                         THEN BulkUpdateCompNIDTx(db[c], r, c) ELSE db[c]], {}, FALSE)
  BY DEF doCompBulkNIDPatch, Updated, StateInv, RowsOK
<1>0. call[k] = Idle /\ UNCHANGED told
  BY DEF doCompBulkNIDPatch
<1>2. call[k].pc # "tell"
  BY <1>0 DEF Idle
<1> DEFINE rows == [c \in Comps |-> IF c \in DOMAIN r.nids /\ db[c] # Absent
                                    THEN BulkUpdateCompNIDTx(db[c], r, c) ELSE db[c]]
           ids  == DOMAIN r.nids \cap Present
           force == FALSE
<1>3. Told(r, ids) = {}
  BY <1>1 DEF Told
<1>4. Commits(k, rows, Told(r, ids), force)
  BY <1>1, <1>3
<1>5. \A c \in Comps : IF c \in ids THEN db[c] # Absent /\ Changed(r, db[c], rows[c])
                                    ELSE rows[c] = db[c]
  BY <1>1 DEF Present, Changed, BulkUpdateCompNIDTx
<1> HIDE DEF rows, ids, force
<1> QED
  BY <1>0, <1>2, <1>4, <1>5, PatchTruth

-----------------------------------------------------------------------------
(* POST, PUT and DELETE                                                    *)

LEMMA StoredIs ==
    ASSUME RowsOK(db), NEW list, NEW c \in Comps
    PROVE  InsertComponentsTx(db, list)[c] = Stored(c, db[c], list)
  BY DEF RowsOK, InsertComponentsTx, Stored

LEMMA UpsertWriteTruth ==
    ASSUME StateInv, TruthInv, NEW k \in Callers, UpsertWrite(k)
    PROVE  TruthInv'
<1> DEFINE list  == call[k].list
           tell  == call[k].tell
           force == call[k].force
           rows  == InsertComponentsTx(db, list)
<1>1. /\ call[k].pc = "upsert" /\ UNCHANGED told
      /\ Commits(k, rows, tell, force)
  BY DEF UpsertWrite
<1>2. UpsertOK(k) /\ Inserts(k) /\ \A t \in tell : t.what \in Whats
  BY <1>1 DEF TruthInv, CallTruth, StateInv, CallsOK
<1>3. \A c \in Comps : rows[c] = Stored(c, db[c], list)
  BY StoredIs DEF StateInv
<1>4. \A c \in Comps : IsRow(db[c]) /\ (db[c] # Absent => db[c].state # "none")
  BY DEF StateInv, RowsOK, TruthInv, RealRows
<1> HIDE DEF rows
<1>5. ASSUME NEW c \in Comps
      PROVE  (rows[c] # Absent => rows[c].state # "none") /\ (rows[c] = Absent => db[c] = Absent)
  <2> DEFINE mine == {i \in DOMAIN list : list[i].id = c}
  <2>1. CASE mine = {}
    BY <1>3, <1>4, <2>1 DEF Stored
  <2>2. CASE mine # {}
    <3>1. DOMAIN list \subseteq Nat
      BY <1>2 DEF Inserts
    <3>2. \E i \in mine : \A j \in mine : i <= j
      BY <2>2, <3>1, FirstExists
    <3> DEFINE first == CHOOSE i \in mine : \A j \in mine : i <= j
               new   == list[first].row
    <3>3. first \in mine
      BY <3>2
    <3>4. new.state # "none"
      BY <1>2, <3>3 DEF UpsertOK
    <3>5. rows[c] = IF db[c] = Absent THEN new
                    ELSE [db[c] EXCEPT !.state = new.state, !.flag = new.flag, !.class = new.class]
      BY <1>3, <2>2 DEF Stored
    <3> HIDE DEF first, new
    <3>6. rows[c].state = new.state
      BY <1>4, <3>5 DEF IsRow
    <3> QED
      BY <3>4, <3>6 DEF Absent
  <2> QED
    BY <2>1, <2>2
<1>6. \A c \in Comps \ blurred : Honest(c, db[c], rows[c], tell)
  BY <1>2, <1>3 DEF UpsertOK
<1>7. ToldShape'
  BY <1>1 DEF TruthInv, ToldShape
<1> HIDE DEF tell, force, list
<1> QED
  BY <1>1, <1>2, <1>5, <1>6, <1>7, CommitsTruth

LEMMA DeletesTruth ==
    ASSUME StateInv, TruthInv, NEW k \in Callers, doComponentDelete(k) \/ doComponentsDeleteAll(k)
    PROVE  TruthInv'
<1>1. PICK rows : Deletes(k, rows) /\ rows = [c \in Comps |-> rows[c]]
                  /\ \A c \in Comps : rows[c] = db[c] \/ rows[c] = Absent
  BY DEF doComponentDelete, doComponentsDeleteAll, DeleteComponentByIDTx, DeleteComponentsAllTx,
         StateInv, RowsOK
<1> DEFINE tell  == {}
           force == FALSE
<1>2. /\ call[k] = Idle /\ Commits(k, rows, tell, force)
      /\ told' = [c \in Comps |-> IF rows[c] = Absent THEN Untold ELSE told[c]]
  BY <1>1 DEF Deletes
<1>3. call[k].pc # "tell"
  BY <1>2 DEF Idle
<1>4. \A c \in Comps : rows[c] # Absent => rows[c].state # "none"
  BY <1>1 DEF TruthInv, RealRows
<1>5. Untold = [w \in Whats |-> Untold[w]]
  BY DEF Untold, Whats
<1>6. ToldShape'
  BY <1>2, <1>5 DEF TruthInv, ToldShape
<1>7. \A c \in Comps \ blurred : (rows[c] # db[c] \/ \E t \in tell : c \in t.ids) =>
                                     Honest(c, db[c], rows[c], tell)
  BY <1>1 DEF Honest
<1>8. \A t \in tell : t.what \in Whats
  OBVIOUS
<1>9. \A c \in Comps : \/ told'[c] = told[c] /\ (rows[c] = Absent => db[c] = Absent)
                       \/ told'[c] = Untold /\ rows[c] = Absent
  BY <1>2
<1> HIDE DEF tell, force
<1> QED
  BY <1>2, <1>3, <1>4, <1>6, <1>7, <1>8, <1>9, CommitsTruth

\* A call that reads keeps to itself.
LEMMA ReadTruth ==
    ASSUME StateInv, TruthInv, NEW k \in Callers, UNCHANGED <<db, told>>, blurred \subseteq blurred',
           NEW new, call' = [call EXCEPT ![k] = new], call[k].pc # "tell", new.pc # "tell",
           CallTruth(k)'
    PROVE  TruthInv'
<1>1. /\ call'[k] = new
      /\ \A j \in Callers : j # k => call'[j] = call[j]
  BY DEF StateInv, CallsOK
<1>2. \A j \in Callers : Telling(j)' = Telling(j)
  BY <1>1 DEF Telling
<1>3. \A c \in Comps \ blurred' : CompTold(c)'
  BY <1>2 DEF TruthInv, CompTold, Settled
<1>4. ASSUME NEW j \in Callers, j # k
      PROVE  CallTruth(j)'
  <2>1. call'[j] = call[j] /\ CallTruth(j)
    BY <1>1, <1>4 DEF TruthInv
  <2>2. call[j].pc = "write" => WriteOK(j)'
    BY <2>1 DEF CallTruth, WriteOK, Present
  <2>3. call[j].pc = "upsert" => UpsertOK(j)'
    <3>1. Ids(j)' = Ids(j)
      BY <2>1 DEF Ids
    <3> QED
      BY <2>1, <3>1 DEF CallTruth, UpsertOK
  <2> QED
    BY <2>1, <2>2, <2>3 DEF CallTruth
<1>5. ToldShape' /\ RealRows'
  BY DEF TruthInv, ToldShape, RealRows
<1> QED
  BY <1>3, <1>4, <1>5 DEF TruthInv

LEMMA CompBulkPatchTruth ==
    ASSUME StateInv, TruthInv, NEW k \in Callers, compBulkPatch(k)
    PROVE  TruthInv'
<1>1. PICK r \in mix : /\ r.op \in Bulk
                       /\ call' = [call EXCEPT ![k] = [pc |-> "write", req |-> r, ids |-> BulkSelected(r)]]
  BY DEF compBulkPatch, Bulk
<1>2. call[k] = Idle /\ UNCHANGED <<db, told, blurred>>
  BY DEF compBulkPatch
<1> DEFINE ids == BulkSelected(r)
           own == [pc |-> "write", req |-> r, ids |-> ids]
<1>3. ids \subseteq r.ids \cap Present
  BY <1>1 DEF Bulk, BulkSelected, GetComponentIDsTx, UpdateCompStates, BulkUpdateCompFlagOnly,
              BulkUpdateCompEnabled, BulkUpdateCompSwStatus, BulkUpdateCompRole, BulkUpdateCompClass
<1> HIDE DEF ids
<1>4. call'[k] = own
  BY <1>1 DEF StateInv, CallsOK, ids
<1>5. CallTruth(k)'
  BY <1>2, <1>3, <1>4, RequestedState DEF CallTruth, WriteOK, Present
<1>6. call[k].pc # "tell" /\ own.pc # "tell"
  BY <1>2 DEF Idle
<1>7. call' = [call EXCEPT ![k] = own]
  BY <1>1 DEF ids
<1> HIDE DEF own
<1> QED
  BY <1>2, <1>5, <1>6, <1>7, ReadTruth

LEMMA QueueSCNTruth ==
    ASSUME StateInv, TruthInv, NEW k \in Callers, QueueSCN(k)
    PROVE  TruthInv'
<1>1. PICK t \in call[k].tell :
         /\ told' = [c \in Comps |-> IF c \in t.ids THEN [told[c] EXCEPT ![t.what] = t.val]
                                     ELSE told[c]]
         /\ call' = [call EXCEPT ![k] = IF call[k].tell = {t} THEN Idle
                                        ELSE [pc |-> "tell", tell |-> call[k].tell \ {t}]]
  BY DEF QueueSCN
<1>2. call[k].pc = "tell" /\ UNCHANGED <<db, blurred>>
  BY DEF QueueSCN
<1>3. /\ call'[k] = IF call[k].tell = {t} THEN Idle
                    ELSE [pc |-> "tell", tell |-> call[k].tell \ {t}]
      /\ \A j \in Callers : j # k => call'[j] = call[j]
  BY <1>1 DEF StateInv, CallsOK
<1>4. /\ t \in Telling(k) /\ Telling(k)' = Telling(k) \ {t} /\ t.what \in Whats
      /\ \A j \in Callers : j # k => Telling(j)' = Telling(j)
  BY <1>2, <1>3 DEF Telling, Idle, TruthInv, CallTruth
<1>5. ASSUME NEW c \in Comps
      PROVE  /\ c \notin t.ids => told'[c] = told[c]
             /\ c \in t.ids => told'[c] = [w \in Whats |-> IF w = t.what THEN t.val ELSE told[c][w]]
  BY <1>1, <1>4 DEF TruthInv, ToldShape
<1>6. ToldShape'
  <2>1. told' = [c \in Comps |-> told'[c]]
    BY <1>1
  <2>2. \A c \in Comps : told'[c] = [w \in Whats |-> told'[c][w]]
    BY <1>5 DEF TruthInv, ToldShape
  <2> QED
    BY <2>1, <2>2 DEF ToldShape
<1>7. ASSUME NEW c \in Comps, c \notin blurred
      PROVE  CompTold(c)'
  <2>1. CompTold(c)
    BY <1>7 DEF TruthInv
  <2>2. CASE db[c] = Absent
    BY <1>2, <1>4, <1>5, <2>1, <2>2 DEF CompTold
  <2>3. CASE db[c] # Absent
    <3>1. \A j \in Callers : \A s \in Telling(j)' : c \in s.ids => s.val = Said(s.what, db[c])
      BY <1>4, <2>1, <2>3 DEF CompTold
    <3>2. ASSUME NEW w \in Whats
          PROVE  \/ \E j \in Callers : \E s \in Telling(j)' : c \in s.ids /\ s.what = w
                 \/ told'[c][w] = Said(w, db[c])
                 \/ w \in {"sw", "enabled"} /\ told'[c][w] = Unknown
      <4>1. CASE c \in t.ids /\ t.what = w
        BY <1>4, <1>5, <2>1, <2>3, <4>1 DEF CompTold
      <4>2. CASE ~(c \in t.ids /\ t.what = w)
        <5>1. told'[c][w] = told[c][w]
          BY <1>5, <4>2
        <5> QED
          BY <1>4, <2>1, <2>3, <4>2, <5>1 DEF CompTold, Settled
      <4> QED
        BY <4>1, <4>2
    <3> QED
      BY <1>2, <2>3, <3>1, <3>2 DEF CompTold, Settled
  <2> QED
    BY <2>2, <2>3
<1>8. ASSUME NEW j \in Callers
      PROVE  CallTruth(j)'
  <2>1. CASE j = k
    BY <1>2, <1>3, <2>1 DEF CallTruth, TruthInv, Idle
  <2>2. CASE j # k
    <3>1. call'[j] = call[j] /\ CallTruth(j)
      BY <1>3, <2>2 DEF TruthInv
    <3>2. Ids(j)' = Ids(j)
      BY <3>1 DEF Ids
    <3> QED
      BY <1>2, <3>1, <3>2 DEF CallTruth, WriteOK, UpsertOK, Present
  <2> QED
    BY <2>1, <2>2
<1> QED
  BY <1>2, <1>6, <1>7, <1>8 DEF TruthInv, RealRows

LEMMA CrashTruth ==
    ASSUME StateInv, TruthInv, Crash
    PROVE  TruthInv'
<1>1. PICK dead \in SUBSET Busy :
         /\ call' = [k \in Callers |-> IF k \in dead THEN Idle ELSE call[k]]
         /\ blurred' = blurred \cup UNION {Ids(k) : k \in dead}
         /\ UNCHANGED <<db, told>>
  BY DEF Crash
<1>2. \A j \in Callers : IF j \in dead THEN Telling(j)' = {} ELSE Telling(j)' = Telling(j)
  BY <1>1 DEF Telling, Idle
<1>3. \A j \in Callers : CallTruth(j)'
  <2> TAKE j \in Callers
  <2>1. CASE j \in dead
    BY <1>1, <2>1 DEF CallTruth, Idle
  <2>2. CASE j \notin dead
    <3>1. call'[j] = call[j] /\ CallTruth(j) /\ blurred \subseteq blurred'
      BY <1>1, <2>2 DEF TruthInv
    <3>2. Ids(j)' = Ids(j)
      BY <3>1 DEF Ids
    <3>3. call[j].pc = "write" => WriteOK(j)'
      BY <1>1, <3>1 DEF CallTruth, WriteOK, Present
    <3>4. call[j].pc = "upsert" => UpsertOK(j)'
      BY <1>1, <3>1, <3>2 DEF CallTruth, UpsertOK
    <3> QED
      BY <3>1, <3>3, <3>4 DEF CallTruth
  <2> QED
    BY <2>1, <2>2
<1>4. ASSUME NEW c \in Comps, c \notin blurred'
      PROVE  CompTold(c)'
  <2>1. CompTold(c) /\ \A j \in dead : c \notin Ids(j)
    BY <1>1, <1>4 DEF TruthInv
  <2>2. \A j \in dead : j \in Callers /\ \A t \in Telling(j) : c \notin t.ids
    BY <2>1, TellingIds DEF Busy
  <2> QED
    BY <1>1, <1>2, <2>1, <2>2 DEF CompTold, Settled
<1> QED
  BY <1>1, <1>3, <1>4 DEF TruthInv, ToldShape, RealRows

LEMMA InitTruth ==
    ASSUME Init
    PROVE  TruthInv
<1>1. \A j \in Callers : Telling(j) = {} /\ CallTruth(j)
  BY DEF Init, Telling, CallTruth, Idle
<1>2. \A c \in Comps : db[c] \in {Absent, OnNode}
                       /\ told[c] = IF db[c] = Absent THEN Untold ELSE AsIs(db[c])
  BY DEF Init
<1>3. \A row : \A w \in Whats : AsIs(row)[w] = Said(w, row)
  BY SaidOf DEF AsIs, Whats
<1>4. Untold = [w \in Whats |-> Untold[w]] /\ \A row : AsIs(row) = [w \in Whats |-> AsIs(row)[w]]
  BY DEF Untold, AsIs, Whats
<1>5. OnNode # Absent /\ OnNode.state # "none"
  BY DEF OnNode, Absent
<1>6. ToldShape /\ RealRows
  BY <1>2, <1>4, <1>5 DEF ToldShape, RealRows, Init
<1>7. \A c \in Comps : CompTold(c)
  BY <1>1, <1>2, <1>3 DEF CompTold, Settled
<1> QED
  BY <1>1, <1>6, <1>7 DEF TruthInv

\* The SCNs made of changes say these and nothing else.
LEMMA SCNsOf ==
    ASSUME NEW changes
    PROVE  /\ \A t \in SCNs(changes) : \A c \in t.ids :
                  \E x \in changes : x.id = c /\ x.what = t.what /\ x.val = t.val
           /\ \A t \in SCNs(changes) : \E x \in changes : x.what = t.what
           /\ \A x \in changes : \E t \in SCNs(changes) : t.what = x.what /\ x.id \in t.ids
<1> DEFINE kinds == {<<x.what, x.val>> : x \in changes}
           scn(y) == [what |-> y[1], val |-> y[2],
                      ids |-> {x.id : x \in {z \in changes : z.what = y[1] /\ z.val = y[2]}}]
<1>1. SCNs(changes) = {scn(y) : y \in kinds}
  BY DEF SCNs
<1>2. ASSUME NEW t \in SCNs(changes)
      PROVE  /\ \A c \in t.ids : \E x \in changes : x.id = c /\ x.what = t.what /\ x.val = t.val
             /\ \E x \in changes : x.what = t.what
  <2>1. PICK x \in changes : t = scn(<<x.what, x.val>>)
    BY <1>1
  <2> QED
    BY <2>1
<1>3. ASSUME NEW x \in changes
      PROVE  \E t \in SCNs(changes) : t.what = x.what /\ x.id \in t.ids
  <2>1. scn(<<x.what, x.val>>) \in SCNs(changes)
    BY <1>1
  <2> QED
    BY <2>1
<1> QED
  BY <1>2, <1>3

\* A list that has no component twice has at most one entry for each.
LEMMA Once ==
    ASSUME NEW n \in Nat, NEW list, DOMAIN list = 1..n, NEW c \in Comps, c \notin Twice(list)
    PROVE  \A i, j \in DOMAIN list : list[i].id = c /\ list[j].id = c => i = j
<1> SUFFICES ASSUME NEW i \in DOMAIN list, NEW j \in DOMAIN list,
                    list[i].id = c, list[j].id = c, i # j
             PROVE  FALSE
  OBVIOUS
<1> DEFINE mine == {m \in DOMAIN list : list[m].id = c}
<1>1. IsFiniteSet(mine)
  BY FS_Interval, FS_Subset
<1>2. Cardinality({i, j}) = 2 /\ IsFiniteSet({i, j})
  <2>1. IsFiniteSet({i}) /\ Cardinality({i}) = 1
    BY FS_Singleton
  <2>2. {i, j} = {i} \cup {j} /\ j \notin {i}
    OBVIOUS
  <2>3. /\ IsFiniteSet({i} \cup {j})
        /\ Cardinality({i} \cup {j}) = Cardinality({i}) + 1
    BY <2>1, <2>2, FS_AddElement
  <2> QED
    BY <2>1, <2>2, <2>3
<1>3. {i, j} \subseteq mine
  OBVIOUS
<1>4. Cardinality(mine) \in Nat /\ Cardinality({i, j}) <= Cardinality(mine)
  BY <1>1, <1>3, FS_Subset, FS_CardinalityType
<1>5. Cardinality(mine) > 1
  BY <1>2, <1>4
<1> QED
  BY <1>5 DEF Twice

\* The request q with the list g, what it inserts and what it tells.
Asked(q, g, list, tell) ==
    /\ q.list = g /\ q.force \in BOOLEAN
    /\ \E n \in Nat : DOMAIN g = 1..n
    /\ \A i \in DOMAIN g : Entry(g[i]) /\ g[i].row.state # "none"
    /\ list = UpsertComponents(db, g, q.force)
    /\ tell \in {doComponentsPost(db, q), {t \in doComponentsPost(db, q) : t.what # "enabled"}}

\* What a POST or PUT decides from the rows it has read is the truth about every component
\* that its list has once.
LEMMA PostHonest ==
    ASSUME RowsOK(db), RealRows, NEW q, NEW g, NEW list, NEW tell, Asked(q, g, list, tell)
    PROVE  /\ \A t \in tell : t.what \in Whats /\ t.ids \subseteq {list[i].id : i \in DOMAIN list}
           /\ \A c \in Comps : c \notin Twice(g) => Honest(c, db[c], Stored(c, db[c], list), tell)
<1>0. PICK n \in Nat : DOMAIN g = 1..n
  BY DEF Asked
<1> USE DEF Asked
<1> DEFINE post    == doComponentsPost(db, q)
           entries == {g[i] : i \in DOMAIN g}
           of(e)   == {[id |-> e.id, what |-> w, val |-> Said(w, e.row)] : w \in ChangesOf(db, q, e.id)}
           changes == UNION {of(e) : e \in entries}
<1>1. post = SCNs(changes)
  BY DEF doComponentsPost
<1>2. \A x \in changes : \E i \in DOMAIN g : /\ x.id = g[i].id /\ x.what \in ChangesOf(db, q, g[i].id)
                                             /\ x.val = Said(x.what, g[i].row)
  OBVIOUS
<1>3. \A i \in DOMAIN g : \A w \in ChangesOf(db, q, g[i].id) :
          \E x \in changes : x.id = g[i].id /\ x.what = w
  <2> TAKE i \in DOMAIN g
  <2> TAKE w \in ChangesOf(db, q, g[i].id)
  <2>1. [id |-> g[i].id, what |-> w, val |-> Said(w, g[i].row)] \in of(g[i]) /\ g[i] \in entries
    OBVIOUS
  <2> QED
    BY <2>1
<1>4. /\ DOMAIN list = {i \in DOMAIN g : Wanted(db[g[i].id], g[i].row, q.force)}
      /\ \A i \in DOMAIN list : list[i] = g[i]
  BY DEF UpsertComponents
<1>5. \A id : ChangesOf(db, q, id) # {} => id \in {list[i].id : i \in DOMAIN list}
  BY <1>4 DEF ChangesOf
<1>6. \A id : ChangesOf(db, q, id) \subseteq Whats
  BY DEF ChangesOf, ChangeMap, Whats
<1> HIDE DEF post, changes, entries, of
<1>7. \A t \in post : t.what \in Whats /\ t.ids \subseteq {list[i].id : i \in DOMAIN list}
  BY <1>1, <1>2, <1>5, <1>6, SCNsOf
<1>8. /\ \A t \in tell : t \in post
      /\ \A t \in post : t.what # "enabled" => t \in tell
  BY DEF post
<1>9. ASSUME NEW c \in Comps, c \notin Twice(g)
      PROVE  Honest(c, db[c], Stored(c, db[c], list), tell)
  <2> DEFINE stored == Stored(c, db[c], list)
             mine   == {i \in DOMAIN list : list[i].id = c}
  <2>1. \A i, j \in DOMAIN g : g[i].id = c /\ g[j].id = c => i = j
    BY <1>0, <1>9, Once
  <2>2. CASE mine = {}
    <3>1. \A t \in tell : c \notin t.ids
      BY <1>7, <1>8, <2>2
    <3>2. stored = db[c]
      BY <2>2 DEF Stored
    <3> QED
      BY <3>1, <3>2 DEF Honest
  <2>3. CASE mine # {}
    <3>1. PICK i \in mine : TRUE
      BY <2>3
    <3> DEFINE new == g[i].row
    <3>2. mine = {i} /\ i \in DOMAIN g /\ g[i].id = c /\ list[i] = g[i] /\ i \in Nat
      BY <1>4, <2>1, <3>1
    <3>3. (CHOOSE m \in mine : \A j \in mine : m <= j) = i
      BY <3>2
    <3> DEFINE first == list[CHOOSE m \in mine : \A j \in mine : m <= j].row
    <3>12. stored = IF db[c] = Absent THEN first
                    ELSE [db[c] EXCEPT !.state = first.state, !.flag = first.flag, !.class = first.class]
      BY <2>3 DEF Stored
    <3>13. first = new
      BY <3>2, <3>3
    <3> HIDE DEF first
    <3>4. stored = IF db[c] = Absent THEN new
                   ELSE [db[c] EXCEPT !.state = new.state, !.flag = new.flag, !.class = new.class]
      BY <3>12, <3>13
    <3>5. ChangesOf(db, q, c) = ChangeMap(db[c], new, q.force)
      <4>1. {j \in DOMAIN q.list : q.list[j].id = c /\ Wanted(db[c], q.list[j].row, q.force)} = {i}
        BY <1>4, <2>1, <3>1, <3>2
      <4>2. (CHOOSE m \in {i} : \A j \in {i} : j <= m) = i
        BY <3>2
      <4> QED
        BY <4>1, <4>2 DEF ChangesOf
    <3>6. \A t \in post : c \in t.ids => /\ t.what \in ChangeMap(db[c], new, q.force)
                                         /\ t.val = Said(t.what, new)
      <4> TAKE t \in post
      <4> HAVE c \in t.ids
      <4>1. PICK x \in changes : x.id = c /\ x.what = t.what /\ x.val = t.val
        BY <1>1, SCNsOf
      <4>2. PICK j \in DOMAIN g : /\ x.id = g[j].id /\ x.what \in ChangesOf(db, q, g[j].id)
                                  /\ x.val = Said(x.what, g[j].row)
        BY <1>2
      <4>3. j = i
        BY <2>1, <3>2, <4>1, <4>2
      <4> QED
        BY <3>2, <3>5, <4>1, <4>2, <4>3
    <3>7. \A w \in ChangeMap(db[c], new, q.force) : \E t \in post : c \in t.ids /\ t.what = w
      <4> TAKE w \in ChangeMap(db[c], new, q.force)
      <4>1. PICK x \in changes : x.id = c /\ x.what = w
        BY <1>3, <3>2, <3>5
      <4> QED
        BY <1>1, <4>1, SCNsOf
    <3>8. new.state # "none" /\ IsRow(db[c]) /\ (db[c] # Absent => db[c].state # "none")
      BY <3>2 DEF RowsOK, RealRows
    <3>9. Wanted(db[c], new, q.force)
      BY <1>4, <3>1, <3>2
    <3> HIDE DEF new, stored, mine
    <3>10. CASE db[c] = Absent
      <4>1. stored = new /\ new # Absent
        BY <3>4, <3>8, <3>10 DEF Absent
      <4>2. {"state", "role"} \subseteq ChangeMap(db[c], new, q.force)
        BY <3>10 DEF ChangeMap
      <4>3. \A w \in {"state", "role"} : \E t \in tell : c \in t.ids /\ t.what = w
        BY <1>8, <3>7, <4>2
      <4> QED
        BY <1>8, <3>6, <3>10, <4>1, <4>3 DEF Honest, stored, Whats
    <3>11. CASE db[c] # Absent
      <4>1. /\ stored.state = new.state /\ stored.role = db[c].role /\ stored.sub = db[c].sub
            /\ stored.sw = db[c].sw /\ stored.enabled = db[c].enabled
        BY <3>4, <3>8, <3>11 DEF IsRow
      <4>2. stored # Absent
        BY <3>8, <4>1 DEF Absent
      <4>3. ChangeMap(db[c], new, q.force) = IF db[c].state # new.state THEN {"state"} ELSE {}
        BY <3>9, <3>11 DEF ChangeMap, Wanted
      <4>4. \A t \in tell : c \in t.ids => t.val = Said(t.what, stored)
        <5> TAKE t \in tell
        <5> HAVE c \in t.ids
        <5>1. t.what = "state" /\ t.val = Said("state", new)
          BY <1>8, <3>6, <4>3
        <5> QED
          BY <4>1, <5>1, SaidOf
      <4>5. ASSUME NEW w \in Whats
            PROVE  (\E t \in tell : c \in t.ids /\ t.what = w) \/ Said(w, stored) = Said(w, db[c])
        <5>1. CASE w = "state" /\ db[c].state # new.state
          BY <1>8, <3>7, <4>3, <5>1
        <5>2. CASE w # "state" \/ db[c].state = new.state
          <6>1. w = "state" => stored.state = db[c].state
            BY <4>1, <5>2
          <6>2. /\ Said("state", stored) = stored.state /\ Said("sw", stored) = stored.sw
                /\ Said("enabled", stored) = stored.enabled
                /\ Said("role", stored) = <<stored.role, stored.sub>>
            BY SaidOf
          <6>3. /\ Said("state", db[c]) = db[c].state /\ Said("sw", db[c]) = db[c].sw
                /\ Said("enabled", db[c]) = db[c].enabled
                /\ Said("role", db[c]) = <<db[c].role, db[c].sub>>
            BY SaidOf
          <6> QED
            BY <4>1, <6>1, <6>2, <6>3 DEF Whats
        <5> QED
          BY <5>1, <5>2
      <4> QED
        BY <3>11, <4>2, <4>4, <4>5 DEF Honest, stored
    <3> QED
      BY <3>10, <3>11
  <2> QED
    BY <2>2, <2>3
<1> QED
  BY <1>7, <1>8, <1>9

LEMMA UpsertReadTruth ==
    ASSUME StateInv, TruthInv, NEW k \in Callers, UpsertRead(k)
    PROVE  TruthInv'
<1> DEFINE given(r) == [i \in DOMAIN r.list |->
                           [id |-> r.list[i].id, row |-> Defaulted(r.list[i].row)]]
           list(r)  == UpsertComponents(db, given(r), r.force)
           asked(r) == [r EXCEPT !.list = given(r)]
           tell(r)  == IF r.op = "Post" THEN doComponentsPost(db, asked(r))
                       ELSE doComponentPut(db, asked(r))
<1>1. PICK r \in mix : /\ r.op \in {"Post", "Put"}
                       /\ call' = [call EXCEPT ![k] = [pc |-> "upsert", list |-> list(r),
                                                      force |-> r.force, tell |-> tell(r)]]
                       /\ blurred' = blurred \cup Twice(r.list)
  BY Zenon DEF UpsertRead
<1>2. call[k] = Idle /\ UNCHANGED <<db, told>>
  BY DEF UpsertRead
<1>3. /\ r.force \in BOOLEAN /\ {"list", "force"} \subseteq DOMAIN r
      /\ r.list = [i \in 1..Len(r.list) |-> r.list[i]] /\ Len(r.list) \in Nat
      /\ \A i \in 1..Len(r.list) : /\ r.list[i].id \in Comps /\ IsRow(r.list[i].row)
                                   /\ r.list[i].row.state \in States
  BY <1>1, RequestsAssumption DEF StateInv
<1>4. \A row : IsRow(row) => IsRow(Defaulted(row)) /\ Defaulted(row).state = row.state
  <2> TAKE row
  <2> HAVE IsRow(row)
  <2>1. PICK role : Defaulted(row) = [row EXCEPT !.role = role]
    BY DEF Defaulted
  <2>2. Defaulted(row) = [state |-> row.state, flag |-> row.flag, enabled |-> row.enabled,
                          sw |-> row.sw, role |-> role, sub |-> row.sub, nid |-> row.nid,
                          class |-> row.class]
    BY <2>1 DEF IsRow
  <2> QED
    BY <2>2 DEF IsRow
<1> DEFINE g   == given(r)
           l   == list(r)
           q   == asked(r)
           s   == tell(r)
           own == [pc |-> "upsert", list |-> l, force |-> r.force, tell |-> s]
           n   == Len(r.list)
<1>5. /\ DOMAIN g = 1..n /\ \A i \in DOMAIN g : Entry(g[i]) /\ g[i].row.state # "none"
      /\ \A i \in DOMAIN g : g[i].id = r.list[i].id
  BY <1>3, <1>4 DEF Entry, States
<1>6. l = UpsertComponents(db, g, q.force) /\ q.list = g /\ q.force = r.force
  BY <1>3
<1>7. s \in {doComponentsPost(db, q), {t \in doComponentsPost(db, q) : t.what # "enabled"}}
  BY DEF doComponentPut
<1>8. call' = [call EXCEPT ![k] = own] /\ own.pc = "upsert" /\ own.list = l /\ own.tell = s
  BY <1>1
<1>9. Twice(g) = Twice(r.list)
  BY <1>3, <1>5 DEF Twice
<1> HIDE DEF given, list, asked, tell, g, l, q, s, own, n
<1>10. /\ \A t \in s : t.what \in Whats /\ t.ids \subseteq {l[i].id : i \in DOMAIN l}
       /\ \A c \in Comps : c \notin Twice(g) => Honest(c, db[c], Stored(c, db[c], l), s)
  <2>1. q.force \in BOOLEAN /\ n \in Nat /\ RowsOK(db) /\ RealRows
    BY <1>3, <1>6 DEF n, StateInv, TruthInv
  <2>2. Asked(q, g, l, s)
    BY <1>5, <1>6, <1>7, <2>1 DEF Asked
  <2> QED
    BY <2>1, <2>2, PostHonest
<1>11. call'[k] = own
  BY <1>8 DEF StateInv, CallsOK
<1>12. Ids(k)' = {l[i].id : i \in DOMAIN l}
  BY <1>8, <1>11 DEF Ids
<1>13. \A i \in DOMAIN l : l[i].row.state # "none"
  BY <1>5, <1>6 DEF UpsertComponents
<1>14. CallTruth(k)'
  <2>1. UpsertOK(k)'
    BY <1>1, <1>2, <1>8, <1>9, <1>10, <1>11, <1>12, <1>13 DEF UpsertOK
  <2> QED
    BY <1>8, <1>10, <1>11, <2>1 DEF CallTruth
<1>15. call[k].pc # "tell" /\ own.pc # "tell" /\ blurred \subseteq blurred'
  BY <1>1, <1>2, <1>8 DEF Idle
<1> QED
  BY <1>2, <1>8, <1>14, <1>15, ReadTruth

-----------------------------------------------------------------------------
LEMMA StepTruth ==
    ASSUME StateInv, TruthInv, [Next]_vars
    PROVE  TruthInv'
<1>1. ASSUME NEW k \in Callers,
             \/ componentPatch(k) \/ compBulkPatch(k) \/ BulkWrite(k) \/ doCompBulkNIDPatch(k)
             \/ UpsertRead(k) \/ UpsertWrite(k) \/ QueueSCN(k)
             \/ doComponentDelete(k) \/ doComponentsDeleteAll(k)
      PROVE  TruthInv'
  BY <1>1, ComponentPatchTruth, CompBulkPatchTruth, BulkWriteTruth, BulkNIDTruth, UpsertReadTruth,
     UpsertWriteTruth, QueueSCNTruth, DeletesTruth
<1>2. CASE UNCHANGED vars
  BY <1>2 DEF vars, TruthInv, ToldShape, RealRows, CompTold, Telling, Settled, CallTruth, WriteOK,
              UpsertOK, Ids, Present
<1> QED
  BY <1>1, <1>2, CrashTruth DEF Next

\* When no call is in progress, subscribers have been told the truth about every component,
\* except those of which calls overlapped, a call died, or a POST had two entries.  What
\* to tell is decided before the write, in UpsertComponents and the BulkUpdateComp*
\* functions, from rows that nothing locks (hmsds-postgres.go:526-760).
THEOREM QuietTellsTruthHolds == Spec => []QuietTellsTruth
<1>1. Init => StateInv /\ TruthInv
  BY InitInv, InitTruth
<1>2. StateInv /\ TruthInv /\ [Next]_vars => StateInv' /\ TruthInv'
  BY EachStep, StepTruth
<1>3. TruthInv => QuietTellsTruth
  <2> SUFFICES ASSUME TruthInv, Quiet, NEW c \in Present \ blurred
               PROVE  /\ told[c].state = db[c].state
                      /\ told[c].role = <<db[c].role, db[c].sub>>
                      /\ told[c].sw \in {Unknown, db[c].sw}
                      /\ told[c].enabled \in {Unknown, db[c].enabled}
    BY DEF QuietTellsTruth
  <2>1. \A k \in Callers : Telling(k) = {}
    BY DEF Quiet, Busy, Telling, Idle
  <2>2. c \in Comps /\ db[c] # Absent /\ CompTold(c)
    BY DEF Present, TruthInv
  <2>3. \A w \in Whats : Settled(c, w)
    BY <2>1, <2>2 DEF CompTold
  <2>4. Settled(c, "state") /\ Settled(c, "role") /\ Settled(c, "sw") /\ Settled(c, "enabled")
    BY <2>3 DEF Whats
  <2> QED
    BY <2>4, SaidOf DEF Settled
<1> QED
  BY <1>1, <1>2, <1>3, PTL DEF Spec
=============================================================================
