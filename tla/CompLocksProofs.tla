-------------------------- MODULE CompLocksProofs --------------------------
(***************************************************************************)
(* Theorems about CompLocks and CompLocksTx, for every set of components,  *)
(* every set of durations, every number of transactions and every bound.   *)
(*                                                                         *)
(* When calls do not overlap, LockAgreement is inductive together with     *)
(* TypeOK: no auxiliary state is needed, because each call looks at the    *)
(* reservations before it touches the flags.  When they do overlap it is   *)
(* lost, and what is left has to say what a transaction in progress still  *)
(* knows: only a create, which locks what it reads, knows anything.        *)
(***************************************************************************)
EXTENDS CompLocksTx, FiniteSetTheorems, TLAPS

IInv == TypeOK /\ LockAgreement

LEMMA InitIInv == Init => IInv
  BY DEF Init, IInv, TypeOK, LockAgreement, Reserved, NoResv

LEMMA InsertKeeps ==
    ASSUME IInv, NEW S \in SUBSET Comps, NEW dur \in Durations \cup {0},
           NEW rigid \in BOOLEAN, InsertCompReservations(S, dur, rigid)
    PROVE  IInv'
<1> DEFINE inserted == Granted(S, dur, rigid)
<1>0. inserted \subseteq {c \in S \cap present : Reservable(c, dur) /\ ~Reserved(c)}
  BY DEF Granted
<1>1. /\ resv' = [c \in Comps |-> IF c \in inserted
                                  THEN [gen |-> nextGen, exp |-> Expiry(dur)]
                                  ELSE resv[c]]
      /\ nextGen' = nextGen + 1
      /\ UNCHANGED <<present, locked, disabled, now>>
  BY DEF InsertCompReservations, Install, rows
<1>2. dur \in Nat /\ Expiry(dur) \in Nat
  BY DurationAssumption DEF Expiry, Never, IInv, TypeOK
<1>3. TypeOK'
  BY <1>1, <1>2 DEF IInv, TypeOK, NoResv
<1>4. ASSUME NEW c \in Comps, Reserved(c)'
      PROVE  /\ c \in present' /\ c \notin disabled'
             /\ (resv[c].exp = Never <=> c \in locked)'
  <2>1. CASE c \in inserted
    <3>1. Reservable(c, dur) /\ c \in present
      BY <1>0, <2>1
    <3>2. resv'[c].exp = Expiry(dur)
      BY <1>1, <2>1
    <3>3. Expiry(dur) = Never <=> dur = 0
      BY <1>2 DEF Expiry, Never, IInv, TypeOK
    <3> QED
      BY <1>1, <3>1, <3>2, <3>3 DEF Reservable
  <2>2. CASE c \notin inserted
    BY <1>1, <1>4, <2>2 DEF IInv, LockAgreement, Reserved
  <2> QED
    BY <2>1, <2>2
<1> QED
  BY <1>3, <1>4 DEF IInv, LockAgreement

\* Removing reservations, with the flags untouched, disturbs nothing.
LEMMA DropKeeps ==
    ASSUME IInv, NEW ids \in SUBSET Comps, Drop(ids),
           UNCHANGED <<rows, nextGen, now>>
    PROVE  IInv'
<1>1. TypeOK'
  BY DEF IInv, TypeOK, Drop, NoResv, rows
<1>2. LockAgreement'
  BY DEF IInv, TypeOK, LockAgreement, Drop, NoResv, Reserved, rows
<1> QED
  BY <1>1, <1>2 DEF IInv

LEMMA RenewKeeps ==
    ASSUME IInv, NEW K \in SUBSET Keys, NEW dur \in Durations,
           NEW rigid \in BOOLEAN, UpdateCompReservations(K, dur, rigid)
    PROVE  IInv'
<1> DEFINE renewed == {c \in Owned(K) : resv[c].exp # Never}
<1>1. /\ resv' = [c \in Comps |-> IF c \in renewed
                                  THEN [gen |-> resv[c].gen, exp |-> now + dur]
                                  ELSE resv[c]]
      /\ UNCHANGED <<present, locked, disabled, nextGen, now>>
  BY DEF UpdateCompReservations, rows
<1>2. now + dur \in Nat /\ now + dur # Never
  BY DurationAssumption DEF IInv, TypeOK, Never
<1>3. \A c \in renewed : Reserved(c) /\ resv[c].exp # Never
  BY DEF Owned
<1>4. TypeOK'
  BY <1>1, <1>2, <1>3 DEF IInv, TypeOK, NoResv, Reserved
<1>5. LockAgreement'
  BY <1>1, <1>2, <1>3 DEF IInv, TypeOK, LockAgreement, Reserved
<1> QED
  BY <1>4, <1>5 DEF IInv

LEMMA LockKeeps ==
    ASSUME IInv, NEW S \in SUBSET Comps, NEW on \in BOOLEAN,
           NEW rigid \in BOOLEAN, Lock(S, on, rigid)
    PROVE  IInv'
  BY DEF IInv, TypeOK, LockAgreement, Lock, Flip, Reserved, NoResv

LEMMA AdminKeeps ==
    ASSUME IInv, NEW S \in SUBSET Comps,
           Disable(S) \/ Repair(S)
    PROVE  IInv'
<1>1. CASE Disable(S)
  BY <1>1 DEF IInv, TypeOK, LockAgreement, Disable, Drop, NoResv, Reserved
<1>2. CASE Repair(S)
  BY <1>2 DEF IInv, TypeOK, LockAgreement, Repair, NoResv, Reserved
<1> QED
  BY <1>1, <1>2

LEMMA DeleteComponentsKeeps ==
    ASSUME IInv, NEW S \in SUBSET Comps, DeleteComponents(S)
    PROVE  IInv'
  BY DEF IInv, TypeOK, LockAgreement, DeleteComponents, Drop, NoResv, Reserved

LEMMA InsertComponentKeeps ==
    ASSUME IInv, NEW c \in Comps, NEW l \in BOOLEAN, NEW d \in BOOLEAN,
           InsertComponent(c, l, d)
    PROVE  IInv'
  BY DEF IInv, TypeOK, LockAgreement, InsertComponent, Flip, Reserved, NoResv

LEMMA NextKeeps == IInv /\ [Next]_vars => IInv'
<1> SUFFICES ASSUME IInv, [Next]_vars
             PROVE  IInv'
  OBVIOUS
<1>1. CASE KeyCall
  <2>1. PICK K \in SUBSET Keys, rigid \in BOOLEAN :
           \/ DeleteCompReservations(K, rigid)
           \/ \E dur \in Durations : UpdateCompReservations(K, dur, rigid)
    BY <1>1 DEF KeyCall
  <2>2. CASE DeleteCompReservations(K, rigid)
    BY <2>2, DropKeeps DEF DeleteCompReservations, Owned
  <2>3. CASE \E dur \in Durations : UpdateCompReservations(K, dur, rigid)
    BY <2>3, RenewKeeps
  <2> QED
    BY <2>1, <2>2, <2>3
<1>2. CASE FilterCall
  <2>1. PICK S \in SUBSET Comps, rigid \in BOOLEAN :
           \/ \E dur \in Durations \cup {0} : InsertCompReservations(S, dur, rigid)
           \/ DeleteCompReservationsForce(S, rigid)
           \/ \E on \in BOOLEAN : Lock(S, on, rigid)
    BY <1>2 DEF FilterCall
  <2>2. CASE \E dur \in Durations \cup {0} : InsertCompReservations(S, dur, rigid)
    BY <2>2, InsertKeeps
  <2>3. CASE DeleteCompReservationsForce(S, rigid)
    <3> DEFINE removed == {c \in S \cap present : Reserved(c)}
    <3>1. Drop(removed) /\ UNCHANGED <<rows, nextGen, now>>
      BY <2>3 DEF DeleteCompReservationsForce
    <3> QED
      BY <3>1, DropKeeps
  <2>4. CASE \E on \in BOOLEAN : Lock(S, on, rigid)
    BY <2>4, LockKeeps
  <2> QED
    BY <2>1, <2>2, <2>3, <2>4
<1>3. CASE AdminCall
  BY <1>3, AdminKeeps DEF AdminCall
<1>4. CASE RowCall
  <2>1. CASE \E c \in Comps, l, d \in BOOLEAN : InsertComponent(c, l, d)
    BY <2>1, InsertComponentKeeps
  <2>2. CASE \E S \in {{c} : c \in Comps} \cup {Comps} : DeleteComponents(S)
    BY <2>2, DeleteComponentsKeeps
  <2> QED
    BY <1>4, <2>1, <2>2 DEF RowCall
<1>5. CASE DeleteCompReservationsExpired
  BY <1>5, DropKeeps DEF DeleteCompReservationsExpired
<1>6. CASE Tick
  BY <1>6 DEF Tick, IInv, TypeOK, LockAgreement, Reserved, rows
<1>7. CASE UNCHANGED vars
  BY <1>7 DEF vars, IInv, TypeOK, LockAgreement, Reserved
<1> QED
  BY <1>1, <1>2, <1>3, <1>4, <1>5, <1>6, <1>7 DEF Next

\* Flags and reservation rows are well formed in every reachable state, and
\* every reservation carries a key that InsertCompReservationsTx handed out.
THEOREM TypeCorrect == Spec => []TypeOK
<1>1. IInv => TypeOK
  BY DEF IInv
<1> QED
  BY InitIInv, NextKeeps, <1>1, PTL DEF Spec

\* With calls that do not overlap, a reserved component is never disabled and
\* is locked exactly when its reservation does not expire: the rule the create
\* call checks survives every later lock, unlock, disable, repair and renewal.
THEOREM LockAgreementHolds == Spec => []LockAgreement
<1>1. IInv => LockAgreement
  BY DEF IInv
<1> QED
  BY InitIInv, NextKeeps, <1>1, PTL DEF Spec

\* What a step may do with an existing reservation: keep it, end it, or renew it
\* if it expires.
Kept ==
    \A c \in Comps : Reserved(c) =>
        \/ resv'[c] \in {resv[c], NoResv}
        \/ resv'[c].gen = resv[c].gen /\ resv[c].exp # Never

LEMMA NextKeepsReservations ==
    ASSUME TypeOK, Next
    PROVE  Kept
<1>1. ASSUME NEW ids \in SUBSET Comps, Drop(ids)
      PROVE  Kept
  BY <1>1 DEF Kept, Drop, Reserved, NoResv
<1>2. CASE KeyCall
  <2>1. PICK K \in SUBSET Keys, rigid \in BOOLEAN :
           \/ DeleteCompReservations(K, rigid)
           \/ \E dur \in Durations : UpdateCompReservations(K, dur, rigid)
    BY <1>2 DEF KeyCall
  <2>2. CASE DeleteCompReservations(K, rigid)
    BY <2>2, <1>1 DEF DeleteCompReservations, Owned
  <2>3. CASE \E dur \in Durations : UpdateCompReservations(K, dur, rigid)
    BY <2>3 DEF Kept, UpdateCompReservations
  <2> QED
    BY <2>1, <2>2, <2>3
<1>3. CASE FilterCall
  <2>1. PICK S \in SUBSET Comps, rigid \in BOOLEAN :
           \/ \E dur \in Durations \cup {0} : InsertCompReservations(S, dur, rigid)
           \/ DeleteCompReservationsForce(S, rigid)
           \/ \E on \in BOOLEAN : Lock(S, on, rigid)
    BY <1>3 DEF FilterCall
  <2>2. CASE \E dur \in Durations \cup {0} : InsertCompReservations(S, dur, rigid)
    BY <2>2 DEF Kept, InsertCompReservations, Install, Granted
  <2>3. CASE DeleteCompReservationsForce(S, rigid)
    <3> DEFINE removed == {c \in S \cap present : Reserved(c)}
    <3>1. Drop(removed)
      BY <2>3 DEF DeleteCompReservationsForce
    <3> QED
      BY <3>1, <1>1
  <2>4. CASE \E on \in BOOLEAN : Lock(S, on, rigid)
    BY <2>4 DEF Kept, TypeOK, Lock
  <2> QED
    BY <2>1, <2>2, <2>3, <2>4
<1>4. CASE AdminCall
  <2>1. PICK S \in SUBSET Comps : Disable(S) \/ Repair(S)
    BY <1>4 DEF AdminCall
  <2>2. CASE Disable(S)
    BY <2>2, <1>1 DEF Disable
  <2>3. CASE Repair(S)
    BY <2>3 DEF Kept, TypeOK, Repair
  <2> QED
    BY <2>1, <2>2, <2>3
<1>5. CASE RowCall
  <2>1. CASE \E c \in Comps, l, d \in BOOLEAN : InsertComponent(c, l, d)
    BY <2>1 DEF Kept, InsertComponent
  <2>2. CASE \E S \in {{c} : c \in Comps} \cup {Comps} : DeleteComponents(S)
    <3>1. PICK S \in SUBSET Comps : DeleteComponents(S)
      BY <2>2
    <3> QED
      BY <3>1, <1>1 DEF DeleteComponents
  <2> QED
    BY <1>5, <2>1, <2>2 DEF RowCall
<1>6. CASE DeleteCompReservationsExpired
  BY <1>6, <1>1 DEF DeleteCompReservationsExpired
<1>7. CASE Tick
  BY <1>7 DEF Kept, Tick
<1> QED
  BY <1>2, <1>3, <1>4, <1>5, <1>6, <1>7 DEF Next

\* A reservation passes to another key only through a moment without one, and one
\* that never expires stays as it is: the insert does nothing on conflict and the
\* renewal leaves rows without an expiration alone.
THEOREM HeldAsGrantedHolds == Spec => HeldAsGranted
<1> DEFINE Same == \A c \in Comps : Reserved(c) /\ Reserved(c)' =>
                       /\ resv'[c].gen = resv[c].gen
                       /\ resv[c].exp = Never => resv'[c] = resv[c]
<1>1. Kept => Same
  BY DEF Kept, Reserved, NoResv
<1>2. TypeOK /\ [Next]_vars => [Same]_vars
  BY <1>1, NextKeepsReservations
<1> QED
  BY TypeCorrect, <1>2, PTL DEF Spec, HeldAsGranted

-----------------------------------------------------------------------------
(* Calls that overlap: CompLocksTx.                                        *)

Calls == {"create", "lock", "unlock", "disable", "repair", "remove"}

TxShape ==
    tx \in [Txs -> [at : {"idle", "selected", "checked", "swept"}, call : {"none"} \cup Calls,
                    rigid : BOOLEAN, dur : Durations \cup {0}, rows : SUBSET Comps, ids : SUBSET Comps,
                    already : SUBSET Comps, swept : SUBSET Comps]]

\* The foreign key: a reservation has its component.
Housed == \A c \in Comps : Reserved(c) => c \in present

\* A create still finds what it has checked and locked.
CreateOK(t) ==
    /\ tx[t].ids \subseteq tx[t].rows /\ tx[t].rows \subseteq present
    /\ tx[t].rigid => tx[t].ids = tx[t].rows
    /\ \A c \in tx[t].ids : Reservable(c, tx[t].dur)

CallsOK ==
    \A t \in Txs : /\ tx[t].at = "idle" => tx[t].call = "none"
                   /\ tx[t].call = "create" => CreateOK(t)
                   /\ tx[t].call = "repair" => tx[t].swept = {}

\* Every create in progress has a key left.
Creating == {t \in Txs : tx[t].call = "create"}
KeysLeft == nextGen + Cardinality(Creating) <= MaxGen + 1

TableOK == TypeOK /\ Housed
TxInv == TableOK /\ TxShape /\ CallsOK /\ KeysLeft

LEMMA RelaxedInit == Init => TableOK
  BY DEF Init, TableOK, TypeOK, Housed, Reserved, NoResv

LEMMA DropKeepsTable ==
    ASSUME TableOK, NEW ids \in SUBSET Comps, Drop(ids),
           UNCHANGED <<present, nextGen, now>>,
           locked' \subseteq present, disabled' \subseteq present
    PROVE  TableOK'
<1>1. TypeOK'
  BY DEF TableOK, TypeOK, Drop, NoResv
<1>2. Housed'
  BY DEF TableOK, TypeOK, Housed, Drop, NoResv, Reserved
<1> QED
  BY <1>1, <1>2 DEF TableOK

LEMMA FlagsKeepTable ==
    ASSUME TableOK, UNCHANGED <<present, resv, nextGen, now>>,
           locked' \subseteq present, disabled' \subseteq present
    PROVE  TableOK'
  BY DEF TableOK, TypeOK, Housed, Reserved

LEMMA RelaxedKeeps ==
    ASSUME TableOK, [Next \/ Unchecked]_vars
    PROVE  TableOK'
<1> USE DEF TableOK
<1>1. CASE KeyCall
  <2>1. PICK K \in SUBSET Keys, rigid \in BOOLEAN :
           \/ DeleteCompReservations(K, rigid)
           \/ \E dur \in Durations : UpdateCompReservations(K, dur, rigid)
    BY <1>1 DEF KeyCall
  <2>2. CASE DeleteCompReservations(K, rigid)
    BY <2>2, DropKeepsTable DEF DeleteCompReservations, Owned, TypeOK, rows
  <2>3. CASE \E dur \in Durations : UpdateCompReservations(K, dur, rigid)
    <3>1. PICK dur \in Durations : UpdateCompReservations(K, dur, rigid)
      BY <2>3
    <3>2. now + dur \in Nat
      BY DurationAssumption DEF TypeOK
    <3> DEFINE renewed == {c \in Owned(K) : resv[c].exp # Never}
    <3>3. /\ resv' = [c \in Comps |-> IF c \in renewed
                                      THEN [gen |-> resv[c].gen, exp |-> now + dur]
                                      ELSE resv[c]]
          /\ UNCHANGED <<present, locked, disabled, nextGen, now>>
      BY <3>1 DEF UpdateCompReservations, rows
    <3>4. \A c \in renewed : Reserved(c)
      BY DEF Owned
    <3>5. TypeOK'
      BY <3>2, <3>3, <3>4 DEF TypeOK, NoResv, Reserved
    <3>6. Housed'
      BY <3>3, <3>4 DEF Housed, Reserved
    <3> QED
      BY <3>5, <3>6
  <2> QED
    BY <2>1, <2>2, <2>3
<1>2. CASE FilterCall
  <2>1. PICK S \in SUBSET Comps, rigid \in BOOLEAN :
           \/ \E dur \in Durations \cup {0} : InsertCompReservations(S, dur, rigid)
           \/ DeleteCompReservationsForce(S, rigid)
           \/ \E on \in BOOLEAN : Lock(S, on, rigid)
    BY <1>2 DEF FilterCall
  <2>2. CASE \E dur \in Durations \cup {0} : InsertCompReservations(S, dur, rigid)
    <3>1. PICK dur \in Durations \cup {0} : InsertCompReservations(S, dur, rigid)
      BY <2>2
    <3> DEFINE inserted == Granted(S, dur, rigid)
    <3>2. inserted \subseteq present
      BY DEF Granted
    <3>3. /\ resv' = [c \in Comps |-> IF c \in inserted
                                      THEN [gen |-> nextGen, exp |-> Expiry(dur)]
                                      ELSE resv[c]]
          /\ nextGen' = nextGen + 1
          /\ UNCHANGED <<present, locked, disabled, now>>
      BY <3>1 DEF InsertCompReservations, Install, rows
    <3>4. Expiry(dur) \in Nat
      BY DurationAssumption DEF Expiry, Never, TypeOK
    <3>5. TypeOK'
      BY <3>3, <3>4 DEF TypeOK, NoResv
    <3>6. Housed'
      BY <3>2, <3>3 DEF Housed, Reserved
    <3> QED
      BY <3>5, <3>6
  <2>3. CASE DeleteCompReservationsForce(S, rigid)
    <3> DEFINE removed == {c \in S \cap present : Reserved(c)}
    <3>1. Drop(removed) /\ UNCHANGED <<rows, nextGen, now>>
      BY <2>3 DEF DeleteCompReservationsForce
    <3> QED
      BY <3>1, DropKeepsTable DEF rows, TypeOK
  <2>4. CASE \E on \in BOOLEAN : Lock(S, on, rigid)
    BY <2>4, FlagsKeepTable DEF Lock, Flip, TypeOK
  <2> QED
    BY <2>1, <2>2, <2>3, <2>4
<1>3. CASE AdminCall
  <2>1. PICK S \in SUBSET Comps : Disable(S) \/ Repair(S)
    BY <1>3 DEF AdminCall
  <2>2. CASE Disable(S)
    BY <2>2, DropKeepsTable DEF Disable, TypeOK
  <2>3. CASE Repair(S)
    BY <2>3, FlagsKeepTable DEF Repair, TypeOK
  <2> QED
    BY <2>1, <2>2, <2>3
<1>4. CASE RowCall
  <2>1. CASE \E c \in Comps, l, d \in BOOLEAN : InsertComponent(c, l, d)
    BY <2>1 DEF TypeOK, Housed, InsertComponent, Flip, Reserved, NoResv
  <2>2. CASE \E S \in {{c} : c \in Comps} \cup {Comps} : DeleteComponents(S)
    <3>1. PICK S \in {{c} : c \in Comps} \cup {Comps} : DeleteComponents(S)
      BY <2>2
    <3>2. TypeOK'
      BY <3>1 DEF TypeOK, DeleteComponents, Drop, NoResv
    <3>3. Housed'
      BY <3>1 DEF TypeOK, Housed, DeleteComponents, Drop, NoResv, Reserved
    <3> QED
      BY <3>2, <3>3
  <2> QED
    BY <1>4, <2>1, <2>2 DEF RowCall
<1>5. CASE DeleteCompReservationsExpired
  BY <1>5, DropKeepsTable DEF DeleteCompReservationsExpired, TypeOK, rows
<1>6. CASE Tick
  BY <1>6 DEF Tick, TypeOK, Housed, Reserved, rows
<1>7. CASE Unchecked
  <2>1. PICK S \in SUBSET present :
           \/ \E on \in BOOLEAN : LockUnchecked(S, on)
           \/ \E swept \in SUBSET Comps : DisableUnchecked(S, swept)
    BY <1>7 DEF Unchecked
  <2>2. CASE \E on \in BOOLEAN : LockUnchecked(S, on)
    BY <2>2, FlagsKeepTable DEF LockUnchecked, Flip, TypeOK
  <2>3. CASE \E swept \in SUBSET Comps : DisableUnchecked(S, swept)
    BY <2>3, DropKeepsTable DEF DisableUnchecked, TypeOK
  <2> QED
    BY <2>1, <2>2, <2>3
<1>8. CASE UNCHANGED vars
  BY <1>8 DEF vars, TypeOK, Housed, Reserved
<1> QED
  BY <1>1, <1>2, <1>3, <1>4, <1>5, <1>6, <1>7, <1>8 DEF Next

-----------------------------------------------------------------------------
(* The steps of a transaction                                              *)

\* The rows that the transactions of T hold are as they were.
Untouched(T) ==
    \A u \in T : \A c \in tx[u].rows :
        /\ c \in present => c \in present'
        /\ c \in locked <=> c \in locked'
        /\ c \in disabled <=> c \in disabled'

LEMMA CreatingIsFinite ==
    ASSUME TRUE
    PROVE  IsFiniteSet(Creating) /\ Cardinality(Creating) \in Nat
  BY TxsAssumption, FS_Subset, FS_CardinalityType DEF Creating

\* A transaction that ends, with or without a commit: a create may have used its key.
LEMMA EndKeeps ==
    ASSUME TxInv, TableOK', NEW t \in Txs, End(t), Untouched(Txs \ {t}),
           \/ nextGen' = nextGen
           \/ tx[t].call = "create" /\ nextGen' = nextGen + 1
    PROVE  TxInv'
<1>1. /\ tx' = [tx EXCEPT ![t] = Idle]
      /\ tx'[t] = Idle /\ \A u \in Txs \ {t} : tx'[u] = tx[u]
  BY DEF End, TxInv, TxShape
<1>2. TxShape'
  BY <1>1 DEF TxInv, TxShape, Idle
<1>3. CallsOK'
  <2> SUFFICES ASSUME NEW u \in Txs
               PROVE  (/\ tx[u].at = "idle" => tx[u].call = "none"
                       /\ tx[u].call = "create" => CreateOK(u)
                       /\ tx[u].call = "repair" => tx[u].swept = {})'
    BY DEF CallsOK
  <2>1. CASE u = t
    BY <1>1, <2>1 DEF Idle
  <2>2. CASE u # t
    <3>1. tx'[u] = tx[u]
      BY <1>1, <2>2
    <3>2. tx[u].call = "create" => CreateOK(u)'
      BY <2>2, <3>1 DEF TxInv, CallsOK, CreateOK, Untouched, Reservable
    <3> QED
      BY <3>1, <3>2 DEF TxInv, CallsOK
  <2> QED
    BY <2>1, <2>2
<1>4. KeysLeft'
  <2>1. Creating' = Creating \ {t}
    BY <1>1 DEF Creating, Idle
  <2>2. IsFiniteSet(Creating) /\ Cardinality(Creating) \in Nat
    BY CreatingIsFinite
  <2>3. Cardinality(Creating') = IF t \in Creating THEN Cardinality(Creating) - 1
                                                   ELSE Cardinality(Creating)
    BY <2>1, <2>2, FS_RemoveElement
  <2>4. nextGen' = nextGen + 1 => t \in Creating
    BY DEF Creating, TxInv, TableOK, TypeOK
  <2> QED
    BY <2>2, <2>3, <2>4, BoundAssumption DEF KeysLeft, TxInv, TableOK, TypeOK
<1> QED
  BY <1>2, <1>3, <1>4 DEF TxInv

LEMMA RollbackKeeps ==
    ASSUME TxInv, NEW t \in Txs, Rollback(t)
    PROVE  TxInv' /\ UNCHANGED vars
<1>1. End(t) /\ UNCHANGED vars
  BY DEF Rollback
<1>2. TableOK' /\ Untouched(Txs \ {t}) /\ nextGen' = nextGen
  BY <1>1, RelaxedKeeps DEF vars, Untouched, TxInv
<1> QED
  BY <1>1, <1>2, EndKeeps

\* A transaction that begins: a create has its rows, which are as it wants them, and a
\* key is left for it.
LEMMA BeginKeeps ==
    ASSUME TxInv, UNCHANGED vars, NEW t \in Txs,
           NEW call \in Calls, NEW rigid \in BOOLEAN, NEW dur \in Durations \cup {0},
           NEW held \in SUBSET Comps, NEW ids \in SUBSET Comps, NEW already \in SUBSET Comps,
           Begin(t, call, rigid, dur, held, ids, already),
           call = "create" => /\ ids \subseteq held /\ held \subseteq present
                              /\ rigid => ids = held
                              /\ \A c \in ids : Reservable(c, dur)
                              /\ nextGen + Cardinality(Creating) <= MaxGen
    PROVE  TxInv'
<1> DEFINE new == [at |-> "selected", call |-> call, rigid |-> rigid, dur |-> dur,
                   rows |-> held, ids |-> ids, already |-> already, swept |-> {}]
<1>1. /\ tx' = [tx EXCEPT ![t] = new] /\ tx[t].at = "idle"
      /\ tx'[t] = new /\ \A u \in Txs \ {t} : tx'[u] = tx[u]
  BY DEF Begin, Running, TxInv, TxShape
<1>2. TxShape'
  BY <1>1 DEF TxInv, TxShape
<1>3. TableOK'
  BY RelaxedKeeps DEF TxInv
<1>4. CallsOK'
  <2> SUFFICES ASSUME NEW u \in Txs
               PROVE  (/\ tx[u].at = "idle" => tx[u].call = "none"
                       /\ tx[u].call = "create" => CreateOK(u)
                       /\ tx[u].call = "repair" => tx[u].swept = {})'
    BY DEF CallsOK
  <2>1. CASE u = t
    <3>1. tx'[u] = new
      BY <1>1, <2>1
    <3>2. call = "create" => CreateOK(u)'
      BY <3>1 DEF CreateOK, Reservable, vars
    <3> QED
      BY <3>1, <3>2
  <2>2. CASE u # t
    BY <1>1, <2>2 DEF TxInv, CallsOK, CreateOK, Reservable, vars
  <2> QED
    BY <2>1, <2>2
<1>5. KeysLeft'
  <2>1. IsFiniteSet(Creating) /\ Cardinality(Creating) \in Nat
    BY CreatingIsFinite
  <2>2. t \notin Creating
    BY <1>1 DEF Creating, TxInv, CallsOK
  <2>3. CASE call = "create"
    <3>1. Creating' = Creating \cup {t}
      BY <1>1, <2>3 DEF Creating
    <3>2. Cardinality(Creating') = Cardinality(Creating) + 1
      BY <2>1, <2>2, <3>1, FS_AddElement
    <3> QED
      BY <2>1, <2>3, <3>2, BoundAssumption DEF KeysLeft, vars, TxInv, TableOK, TypeOK
  <2>4. CASE call # "create"
    <3>1. Creating' = Creating
      BY <1>1, <2>2, <2>4 DEF Creating
    <3> QED
      BY <3>1 DEF KeysLeft, vars, TxInv
  <2> QED
    BY <2>3, <2>4
<1> QED
  BY <1>2, <1>3, <1>4, <1>5 DEF TxInv

LEMMA BeginCallKeeps ==
    ASSUME TxInv, NEW t \in Txs, BeginCall(t)
    PROVE  TxInv' /\ UNCHANGED vars
<1>1. PICK S \in SUBSET Comps, rigid \in BOOLEAN :
         \/ \E dur \in Durations \cup {0} : CreateSelect(t, S, dur, rigid)
         \/ \E on \in BOOLEAN : LockSelect(t, S, on, rigid)
         \/ \E disable \in BOOLEAN : FlagSelect(t, S, disable, rigid)
         \/ RemoveSelect(t, S, rigid)
  BY DEF BeginCall
<1> DEFINE affected == S \cap present
<1>2. CASE \E dur \in Durations \cup {0} : CreateSelect(t, S, dur, rigid)
  <2>1. PICK dur \in Durations \cup {0} : CreateSelect(t, S, dur, rigid)
    BY <1>2
  <2> DEFINE ok == {c \in affected : Reservable(c, dur)}
  <2>2. /\ rigid => ok = affected
        /\ nextGen + Cardinality(Creating) <= MaxGen
        /\ Begin(t, "create", rigid, dur, affected, ok, {})
        /\ UNCHANGED vars
    BY <2>1 DEF CreateSelect, Creating
  <2>3. dur \in Durations \cup {0} /\ affected \in SUBSET Comps /\ ok \in SUBSET Comps /\ "create" \in Calls
    BY DurationAssumption DEF Calls
  <2>4. /\ ok \subseteq affected /\ affected \subseteq present
        /\ \A c \in ok : Reservable(c, dur)
    OBVIOUS
  <2> HIDE DEF affected, ok
  <2> QED
    BY <2>2, <2>3, <2>4, BeginKeeps
<1>3. CASE \E on \in BOOLEAN : LockSelect(t, S, on, rigid)
  <2>1. PICK on \in BOOLEAN : LockSelect(t, S, on, rigid)
    BY <1>3
  <2> DEFINE call == IF on THEN "lock" ELSE "unlock"
  <2> DEFINE lockable == {c \in affected : c \notin disabled /\ (c \in locked) # on}
  <2>2. Begin(t, call, rigid, 0, {}, lockable, {}) /\ UNCHANGED vars
    BY <2>1 DEF LockSelect
  <2>3. call \in Calls /\ call # "create" /\ lockable \in SUBSET Comps
    BY DEF Calls
  <2> HIDE DEF call, lockable
  <2> QED
    BY <2>2, <2>3, BeginKeeps
<1>4. CASE \E disable \in BOOLEAN : FlagSelect(t, S, disable, rigid)
  <2>1. PICK disable \in BOOLEAN : FlagSelect(t, S, disable, rigid)
    BY <1>4
  <2> DEFINE call == IF disable THEN "disable" ELSE "repair"
  <2> DEFINE already == {c \in affected : (c \in disabled) = disable}
  <2>2. Begin(t, call, rigid, 0, {}, affected, already) /\ UNCHANGED vars
    BY <2>1 DEF FlagSelect
  <2>3. call \in Calls /\ call # "create" /\ already \in SUBSET Comps /\ affected \in SUBSET Comps
    BY DEF Calls
  <2> HIDE DEF call, already, affected
  <2> QED
    BY <2>2, <2>3, BeginKeeps
<1>5. CASE RemoveSelect(t, S, rigid)
  <2>1. Begin(t, "remove", rigid, 0, {}, affected, {}) /\ UNCHANGED vars
    BY <1>5 DEF RemoveSelect
  <2>2. "remove" \in Calls /\ affected \in SUBSET Comps
    BY DEF Calls
  <2> HIDE DEF affected
  <2> QED
    BY <2>1, <2>2, BeginKeeps
<1> QED
  BY <1>1, <1>2, <1>3, <1>4, <1>5

\* What a step must not do: the bodies of the two action properties.
CreationStep ==
    \A c \in Comps : ~Reserved(c) /\ Reserved(c)' =>
        /\ c \in present'
        /\ c \notin disabled'
        /\ resv'[c].exp = Never <=> c \in locked'

RigidStep ==
    \A t \in Txs : tx[t].call = "create" /\ tx[t].rigid /\ tx'[t].call # "create" =>
        \/ resv' = resv
        \/ \A c \in tx[t].rows : ~Reserved(c) /\ resv'[c].gen = nextGen

Allowed == [Next \/ Unchecked]_vars /\ TxInv' /\ CreationStep /\ RigidStep

\* Only the INSERT of a create makes a reservation.
LEMMA NothingMade ==
    ASSUME TxInv,
           \/ resv' = resv
           \/ \E ids \in SUBSET Comps : Drop(ids),
           \/ resv' = resv
           \/ \A u \in Txs : tx'[u] = tx[u] \/ tx[u].call # "create"
    PROVE  CreationStep /\ RigidStep
<1>1. CreationStep
  BY DEF CreationStep, Drop, Reserved, NoResv
<1>2. RigidStep
  BY DEF RigidStep
<1> QED
  BY <1>1, <1>2

\* A step that commits nothing.
LEMMA MoveKeeps ==
    ASSUME TxInv, UNCHANGED vars, NEW t \in Txs, TxShape', tx'[t].at # "idle",
           tx'[t].call = tx[t].call, tx[t].call \notin {"create", "repair"},
           \A u \in Txs \ {t} : tx'[u] = tx[u]
    PROVE  TxInv'
<1>1. TableOK'
  BY RelaxedKeeps DEF TxInv
<1>2. CallsOK'
  <2> SUFFICES ASSUME NEW u \in Txs
               PROVE  (/\ tx[u].at = "idle" => tx[u].call = "none"
                       /\ tx[u].call = "create" => CreateOK(u)
                       /\ tx[u].call = "repair" => tx[u].swept = {})'
    BY DEF CallsOK
  <2>1. CASE u = t
    BY <2>1
  <2>2. CASE u # t
    BY <2>2 DEF TxInv, CallsOK, CreateOK, Reservable, vars
  <2> QED
    BY <2>1, <2>2
<1>3. KeysLeft'
  <2>1. \A u \in Txs : tx'[u].call = "create" <=> tx[u].call = "create"
    OBVIOUS
  <2>2. Creating' = Creating
    BY <2>1 DEF Creating
  <2> QED
    BY <2>2 DEF KeysLeft, vars, TxInv
<1> QED
  BY <1>1, <1>2, <1>3 DEF TxInv

\* A step that leaves every call where it is.
LEMMA StayKeeps ==
    ASSUME TxInv, TableOK', UNCHANGED <<tx, nextGen>>, Untouched(Txs)
    PROVE  TxInv'
<1>1. CallsOK'
  BY DEF TxInv, CallsOK, CreateOK, Untouched, Reservable
<1>2. TxShape' /\ KeysLeft'
  BY DEF TxInv, TxShape, KeysLeft, Creating
<1> QED
  BY <1>1, <1>2 DEF TxInv

LEMMA RollbackAllowed ==
    ASSUME TxInv, NEW t \in Txs, Rollback(t)
    PROVE  Allowed
<1>1. TxInv' /\ UNCHANGED vars
  BY RollbackKeeps
<1> QED
  BY <1>1, NothingMade DEF Allowed, vars

LEMMA CreateInsertAllowed ==
    ASSUME TxInv, NEW t \in Txs, CreateInsert(t)
    PROVE  Allowed
<1> DEFINE ids == tx[t].ids
<1> DEFINE inserted == ids \ ReservedOf(ids)
<1> DEFINE dur == tx[t].dur
<1>1. tx[t].call = "create" /\ CreateOK(t)
  BY DEF CreateInsert, TxInv, CallsOK
<1>2. CASE inserted = {} \/ (tx[t].rigid /\ inserted # ids)
  BY <1>2, RollbackAllowed DEF CreateInsert
<1>3. CASE ~(inserted = {} \/ (tx[t].rigid /\ inserted # ids))
  <2>0. dur \in Durations \cup {0}
    BY DEF TxInv, TxShape
  <2>1. /\ Install(inserted, Expiry(dur)) /\ nextGen' = nextGen + 1
        /\ End(t) /\ UNCHANGED <<rows, now>>
    BY <1>3 DEF CreateInsert
  <2>2. /\ ids \subseteq present /\ ids \subseteq Comps
        /\ \A c \in ids : Reservable(c, dur)
    BY <1>1 DEF CreateOK, TxInv, TableOK, TypeOK
  <2>3. nextGen <= MaxGen
    <3>1. IsFiniteSet(Creating) /\ Cardinality(Creating) \in Nat /\ t \in Creating
      BY <1>1, CreatingIsFinite DEF Creating
    <3>2. Cardinality(Creating) # 0
      BY <3>1, FS_EmptySet
    <3> QED
      BY <3>1, <3>2, BoundAssumption DEF TxInv, KeysLeft, TableOK, TypeOK
  <2>4. Next
    <3>1. Granted(inserted, dur, FALSE) = inserted
      BY <2>2 DEF Granted, ReservedOf
    <3>2. InsertCompReservations(inserted, dur, FALSE)
      BY <1>3, <2>1, <2>3, <3>1 DEF InsertCompReservations
    <3> QED
      BY <2>0, <2>2, <3>2 DEF Next, FilterCall
  <2>5. TxInv'
    <3>1. TableOK'
      BY <2>4, RelaxedKeeps DEF TxInv
    <3>2. Untouched(Txs \ {t})
      BY <2>1 DEF Untouched, rows
    <3> QED
      BY <1>1, <2>1, <3>1, <3>2, EndKeeps
  <2>6. CreationStep
    <3> SUFFICES ASSUME NEW c \in Comps, ~Reserved(c), Reserved(c)'
                 PROVE  /\ c \in present'
                        /\ c \notin disabled'
                        /\ resv'[c].exp = Never <=> c \in locked'
      BY DEF CreationStep
    <3>1. c \in inserted /\ resv'[c].exp = Expiry(dur)
      BY <2>1 DEF Install, Reserved
    <3>2. Expiry(dur) = Never <=> dur = 0
      <4> HIDE DEF dur
      <4>1. dur \in Nat
        BY <2>0, DurationAssumption
      <4>2. now \in Nat
        BY DEF TxInv, TableOK, TypeOK
      <4> QED
        BY <4>1, <4>2 DEF Expiry, Never
    <3> QED
      BY <2>1, <2>2, <3>1, <3>2 DEF Reservable, rows
  <2>7. RigidStep
    <3> SUFFICES ASSUME NEW u \in Txs, tx[u].call = "create", tx[u].rigid,
                        tx'[u].call # "create"
                 PROVE  \A c \in tx[u].rows : ~Reserved(c) /\ resv'[c].gen = nextGen
      BY DEF RigidStep
    <3>1. u = t
      BY <2>1 DEF End, TxInv, TxShape
    <3>2. inserted = tx[t].rows
      BY <1>1, <1>3, <3>1 DEF CreateOK
    <3> QED
      BY <2>1, <2>2, <3>1, <3>2 DEF Install, ReservedOf
  <2> QED
    BY <2>4, <2>5, <2>6, <2>7 DEF Allowed
<1> QED
  BY <1>2, <1>3

LEMMA LockCheckAllowed ==
    ASSUME TxInv, NEW t \in Txs, LockCheck(t)
    PROVE  Allowed
<1> DEFINE ids == tx[t].ids
<1> DEFINE free == ids \ ReservedOf(ids)
<1>1. CASE free = {} \/ (tx[t].rigid /\ free # ids)
  BY <1>1, RollbackAllowed DEF LockCheck
<1>2. CASE ~(free = {} \/ (tx[t].rigid /\ free # ids))
  <2>1. /\ tx' = [tx EXCEPT ![t].at = "checked", ![t].ids = free]
        /\ UNCHANGED vars /\ tx[t].call \in LockCalls
    BY <1>2 DEF LockCheck
  <2>2. free \in SUBSET Comps
    BY DEF TxInv, TxShape
  <2> HIDE DEF free
  <2>3. /\ TxShape' /\ tx'[t].at # "idle" /\ tx'[t].call = tx[t].call
        /\ \A u \in Txs \ {t} : tx'[u] = tx[u]
    BY <2>1, <2>2 DEF TxInv, TxShape
  <2>4. tx[t].call \notin {"create", "repair"}
    BY <2>1 DEF LockCalls
  <2>5. TxInv'
    BY <2>1, <2>3, <2>4, MoveKeeps
  <2>6. CreationStep /\ RigidStep
    BY <2>1, <2>3, <2>4, NothingMade DEF vars
  <2> QED
    BY <2>1, <2>5, <2>6 DEF Allowed
<1> QED
  BY <1>1, <1>2

LEMMA LockUpdateAllowed ==
    ASSUME TxInv, NEW t \in Txs, LockUpdate(t)
    PROVE  Allowed
<1> DEFINE updated == tx[t].ids \cap present
<1>1. CASE tx[t].rigid /\ updated # tx[t].ids
  BY <1>1, RollbackAllowed DEF LockUpdate
<1>2. CASE ~(tx[t].rigid /\ updated # tx[t].ids)
  <2>1. /\ RowsFree(t, updated) /\ locked' = Flip(locked, updated, Want(t)) /\ End(t)
        /\ UNCHANGED <<present, disabled, resv, nextGen, now>>
    BY <1>2 DEF LockUpdate
  <2>2. LockUnchecked(updated, Want(t)) /\ Want(t) \in BOOLEAN
    BY <2>1 DEF LockUnchecked, Want
  <2>3. Unchecked
    BY <2>2 DEF Unchecked
  <2>4. TableOK'
    BY <2>3, RelaxedKeeps DEF TxInv
  <2>5. Untouched(Txs \ {t})
    BY <2>1 DEF Untouched, RowsFree, Flip
  <2>6. TxInv'
    BY <2>1, <2>4, <2>5, EndKeeps
  <2>7. CreationStep /\ RigidStep
    BY <2>1, NothingMade
  <2> QED
    BY <2>3, <2>6, <2>7 DEF Allowed
<1> QED
  BY <1>1, <1>2

LEMMA DisableSweepAllowed ==
    ASSUME TxInv, NEW t \in Txs, DisableSweep(t)
    PROVE  Allowed
<1> DEFINE swept == ReservedOf(tx[t].ids)
<1>1. /\ tx' = [tx EXCEPT ![t].at = "swept", ![t].swept = swept]
      /\ UNCHANGED vars /\ tx[t].call = "disable"
  BY DEF DisableSweep
<1>2. swept \in SUBSET Comps
  BY DEF TxInv, TxShape, ReservedOf
<1> HIDE DEF swept
<1>3. /\ TxShape' /\ tx'[t].at # "idle" /\ tx'[t].call = tx[t].call
      /\ \A u \in Txs \ {t} : tx'[u] = tx[u]
  BY <1>1, <1>2 DEF TxInv, TxShape
<1>4. TxInv'
  BY <1>1, <1>3, MoveKeeps
<1>5. CreationStep /\ RigidStep
  BY <1>1, <1>3, NothingMade DEF vars
<1> QED
  BY <1>1, <1>4, <1>5 DEF Allowed

LEMMA FlagUpdateAllowed ==
    ASSUME TxInv, NEW t \in Txs, FlagUpdate(t)
    PROVE  Allowed
<1> DEFINE disable == tx[t].call = "disable"
<1> DEFINE updated == tx[t].ids \cap present
<1>0. tx[t].call \in {"disable", "repair"}
  BY DEF FlagUpdate
<1>1. CASE tx[t].rigid /\ ~(tx[t].ids \subseteq updated \cup tx[t].already)
  BY <1>1, RollbackAllowed DEF FlagUpdate
<1>2. CASE ~(tx[t].rigid /\ ~(tx[t].ids \subseteq updated \cup tx[t].already))
  <2>1. /\ RowsFree(t, updated) /\ disabled' = Flip(disabled, updated, disable)
        /\ Drop(tx[t].swept) /\ End(t)
        /\ UNCHANGED <<present, locked, nextGen, now>>
    BY <1>2 DEF FlagUpdate
  <2>2. tx[t].swept \in SUBSET Comps
    BY DEF TxInv, TxShape
  <2>3. [Next \/ Unchecked]_vars
    <3>1. CASE disable
      <4>1. DisableUnchecked(updated, tx[t].swept)
        BY <2>1, <3>1 DEF DisableUnchecked, Flip
      <4> QED
        BY <2>2, <4>1 DEF Unchecked
    <3>2. CASE ~disable
      <4>1. tx[t].swept = {}
        BY <1>0, <3>2 DEF TxInv, CallsOK
      <4>2. resv' = resv
        BY <2>1, <4>1 DEF Drop, TxInv, TableOK, TypeOK
      <4>3. disabled' = disabled \ updated
        BY <2>1, <3>2 DEF Flip
      <4>4. CASE updated = {}
        BY <2>1, <4>2, <4>3, <4>4 DEF vars
      <4>5. CASE updated # {}
        <5>1. updated \in SUBSET Comps /\ updated \cap present = updated
          BY DEF TxInv, TableOK, TypeOK
        <5>2. Repair(updated)
          BY <2>1, <4>2, <4>3, <4>5, <5>1 DEF Repair
        <5> QED
          BY <5>1, <5>2 DEF Next, AdminCall
      <4> QED
        BY <4>4, <4>5
    <3> QED
      BY <3>1, <3>2
  <2>4. TableOK'
    BY <2>3, RelaxedKeeps DEF TxInv
  <2>5. Untouched(Txs \ {t})
    BY <2>1 DEF Untouched, RowsFree, Flip
  <2>6. TxInv'
    BY <2>1, <2>4, <2>5, EndKeeps
  <2>7. \A u \in Txs : tx'[u] = tx[u] \/ tx[u].call # "create"
    BY <1>0, <2>1 DEF End, TxInv, TxShape
  <2>8. CreationStep /\ RigidStep
    BY <2>1, <2>2, <2>7, NothingMade
  <2> QED
    BY <2>3, <2>6, <2>8 DEF Allowed
<1> QED
  BY <1>1, <1>2

LEMMA RemoveDeleteAllowed ==
    ASSUME TxInv, NEW t \in Txs, RemoveDelete(t)
    PROVE  Allowed
<1> DEFINE removed == ReservedOf(tx[t].ids)
<1>1. CASE tx[t].rigid /\ removed # tx[t].ids
  BY <1>1, RollbackAllowed DEF RemoveDelete
<1>2. CASE ~(tx[t].rigid /\ removed # tx[t].ids)
  <2>1. /\ tx[t].call = "remove"
        /\ Drop(removed) /\ End(t) /\ UNCHANGED <<rows, nextGen, now>>
    BY <1>2 DEF RemoveDelete
  <2>2. /\ removed \in SUBSET Comps /\ removed \subseteq present
        /\ {c \in removed : Reserved(c)} = removed
    BY DEF ReservedOf, TxInv, TxShape, TableOK, Housed
  <2>3. [Next \/ Unchecked]_vars
    <3>1. CASE removed = {}
      <4>1. resv' = resv
        BY <2>1, <3>1 DEF Drop, TxInv, TableOK, TypeOK
      <4> QED
        BY <2>1, <4>1 DEF vars, rows
    <3>2. CASE removed # {}
      <4>1. removed \cap present = removed
        BY <2>2
      <4>2. DeleteCompReservationsForce(removed, FALSE)
        BY <2>1, <2>2, <3>2, <4>1 DEF DeleteCompReservationsForce
      <4> QED
        BY <2>2, <4>2 DEF Next, FilterCall
    <3> QED
      BY <3>1, <3>2
  <2>4. TableOK'
    BY <2>3, RelaxedKeeps DEF TxInv
  <2>5. Untouched(Txs \ {t})
    BY <2>1 DEF Untouched, rows
  <2>6. TxInv'
    BY <2>1, <2>4, <2>5, EndKeeps
  <2>7. \A u \in Txs : tx'[u] = tx[u] \/ tx[u].call # "create"
    BY <2>1 DEF End, TxInv, TxShape
  <2>8. CreationStep /\ RigidStep
    BY <2>1, <2>2, <2>7, NothingMade
  <2> QED
    BY <2>3, <2>6, <2>8 DEF Allowed
<1> QED
  BY <1>1, <1>2

\* A call of one statement leaves the rows alone that transactions hold.
LEMMA OneStatementAllowed ==
    ASSUME TxInv, OneStatement \/ Reap
    PROVE  Allowed
<1>0. UNCHANGED tx
  BY DEF OneStatement, Reap
<1>1. CASE \E K \in SUBSET Keys, rigid \in BOOLEAN :
              \/ DeleteCompReservations(K, rigid)
              \/ \E dur \in Durations : UpdateCompReservations(K, dur, rigid)
  <2>1. Next
    BY <1>1 DEF Next, KeyCall
  <2>2. TableOK'
    BY <2>1, RelaxedKeeps DEF TxInv
  <2>3. UNCHANGED <<rows, nextGen>> /\ \A c \in Comps : Reserved(c)' => Reserved(c)
    BY <1>1 DEF DeleteCompReservations, UpdateCompReservations, Drop, Owned, Reserved, NoResv
  <2>4. TxInv'
    BY <1>0, <2>2, <2>3, StayKeeps DEF Untouched, rows
  <2>5. CreationStep /\ RigidStep
    BY <1>0, <2>3 DEF CreationStep, RigidStep
  <2> QED
    BY <2>1, <2>4, <2>5 DEF Allowed
<1>2. CASE \E c \in Comps, l, d \in BOOLEAN : InsertComponent(c, l, d)
  <2>1. Next
    BY <1>2 DEF Next, RowCall
  <2>2. TableOK'
    BY <2>1, RelaxedKeeps DEF TxInv
  <2>3. PICK c \in Comps, l \in BOOLEAN, d \in BOOLEAN : InsertComponent(c, l, d)
    BY <1>2
  <2>4. \A u \in Txs : c \notin tx[u].rows \/ tx[u].call # "create"
    BY <2>3 DEF TxInv, CallsOK, CreateOK, InsertComponent
  <2>5. CallsOK'
    <3> SUFFICES ASSUME NEW u \in Txs, tx[u].call = "create"
                 PROVE  CreateOK(u)'
      BY <1>0 DEF TxInv, CallsOK
    <3>1. CreateOK(u) /\ c \notin tx[u].rows
      BY <2>4 DEF TxInv, CallsOK
    <3> QED
      BY <1>0, <2>3, <3>1 DEF CreateOK, Reservable, InsertComponent, Flip
  <2>6. TxInv'
    BY <1>0, <2>2, <2>3, <2>5 DEF TxInv, TxShape, KeysLeft, Creating, InsertComponent
  <2>7. CreationStep /\ RigidStep
    BY <1>0, <2>3, NothingMade DEF InsertComponent
  <2> QED
    BY <2>1, <2>6, <2>7 DEF Allowed
<1>3. CASE \E S \in {{c} : c \in Comps} \cup {Comps} : NobodyHolds(S) /\ DeleteComponents(S)
  <2>1. Next
    BY <1>3 DEF Next, RowCall
  <2>2. TableOK'
    BY <2>1, RelaxedKeeps DEF TxInv
  <2>3. PICK S \in {{c} : c \in Comps} \cup {Comps} : NobodyHolds(S) /\ DeleteComponents(S)
    BY <1>3
  <2>4. Untouched(Txs)
    BY <2>3 DEF Untouched, NobodyHolds, DeleteComponents
  <2>5. TxInv'
    BY <1>0, <2>2, <2>3, <2>4, StayKeeps DEF DeleteComponents
  <2>6. S \cap present \in SUBSET Comps
    BY DEF TxInv, TableOK, TypeOK
  <2>7. CreationStep /\ RigidStep
    BY <1>0, <2>3, <2>6, NothingMade DEF DeleteComponents
  <2> QED
    BY <2>1, <2>5, <2>7 DEF Allowed
<1>4. CASE Tick \/ DeleteCompReservationsExpired
  <2>1. Next
    BY <1>4 DEF Next
  <2>2. TableOK'
    BY <2>1, RelaxedKeeps DEF TxInv
  <2>3. UNCHANGED <<rows, nextGen>> /\ \A c \in Comps : Reserved(c)' => Reserved(c)
    BY <1>4 DEF Tick, DeleteCompReservationsExpired, Drop, Reserved, NoResv
  <2>4. TxInv'
    BY <1>0, <2>2, <2>3, StayKeeps DEF Untouched, rows
  <2>5. CreationStep /\ RigidStep
    BY <1>0, <2>3 DEF CreationStep, RigidStep
  <2> QED
    BY <2>1, <2>4, <2>5 DEF Allowed
<1> QED
  BY <1>1, <1>2, <1>3, <1>4 DEF OneStatement, Reap

LEMMA TxStepAllowed ==
    ASSUME TxInv, [TxNext]_txVars
    PROVE  Allowed
<1>1. ASSUME NEW t \in Txs, BeginCall(t)
      PROVE  Allowed
  <2>1. TxInv' /\ UNCHANGED vars
    BY <1>1, BeginCallKeeps
  <2> QED
    BY <2>1, NothingMade DEF Allowed, vars
<1>2. ASSUME NEW t \in Txs, Continue(t)
      PROVE  Allowed
  BY <1>2, CreateInsertAllowed, LockCheckAllowed, LockUpdateAllowed, DisableSweepAllowed,
     FlagUpdateAllowed, RemoveDeleteAllowed DEF Continue
<1>3. ASSUME NEW t \in Txs, DeadlockVictim(t) \/ ConnectionLost(t)
      PROVE  Allowed
  BY <1>3, RollbackAllowed DEF DeadlockVictim, ConnectionLost
<1>4. CASE OneStatement \/ Reap
  BY <1>4, OneStatementAllowed
<1>5. CASE UNCHANGED txVars
  <2>1. TableOK'
    BY <1>5, RelaxedKeeps DEF TxInv, txVars
  <2>2. TxInv'
    BY <1>5, <2>1, StayKeeps DEF Untouched, txVars, vars
  <2>3. CreationStep /\ RigidStep
    BY <1>5, NothingMade DEF txVars, vars
  <2> QED
    BY <1>5, <2>2, <2>3 DEF Allowed, txVars
<1> QED
  BY <1>1, <1>2, <1>3, <1>4, <1>5 DEF TxNext

LEMMA TxInitial == TxInit => TxInv
<1> SUFFICES ASSUME TxInit PROVE TxInv
  OBVIOUS
<1>1. TableOK
  BY RelaxedInit DEF TxInit
<1>2. TxShape
  BY DEF TxInit, TxShape, Idle
<1>3. CallsOK
  BY DEF TxInit, CallsOK, Idle
<1>4. KeysLeft
  <2>1. Creating = {}
    BY DEF TxInit, Creating, Idle
  <2>2. Cardinality(Creating) = 0
    BY <2>1, FS_EmptySet
  <2> QED
    BY <2>2, BoundAssumption DEF KeysLeft, TxInit, Init
<1> QED
  BY <1>1, <1>2, <1>3, <1>4 DEF TxInv

LEMMA TxAlwaysAllowed == TxSpec => []TxInv /\ [][Allowed]_txVars
<1>1. TxInit => TxInv
  BY TxInitial
<1>2. TxInv /\ [TxNext]_txVars => TxInv' /\ Allowed
  BY TxStepAllowed DEF Allowed
<1> QED
  BY <1>1, <1>2, PTL DEF TxSpec

\* Overlapping calls implement the calls that do not overlap, once lock and unlock may
\* miss a reservation and disable may leave one behind: every statement that commits is
\* one call, or one unchecked change of flags, and every other statement changes nothing
\* that is committed.
THEOREM TxImplementsRelaxed == TxSpec => RelaxedSpec
<1>1. TxInit => Init
  BY DEF TxInit
<1>2. Allowed => [Next \/ Unchecked]_vars
  BY DEF Allowed
<1>3. UNCHANGED txVars => UNCHANGED vars
  BY DEF txVars
<1> QED
  BY <1>1, <1>2, <1>3, TxAlwaysAllowed, PTL DEF TxSpec, RelaxedSpec

\* At the moment a reservation appears, its component exists, takes reservations and is
\* locked exactly when the reservation has no duration: the rows the create has locked
\* FOR UPDATE have kept what insertCompReservationsHelper checked.
THEOREM CreationRespectsFlagsHolds == TxSpec => CreationRespectsFlags
<1>1. Allowed => (\A c \in Comps : ~Reserved(c) /\ Reserved(c)' =>
                    /\ c \in present'
                    /\ c \notin disabled'
                    /\ resv'[c].exp = Never <=> c \in locked')
  BY DEF Allowed, CreationStep
<1> QED
  BY <1>1, TxAlwaysAllowed, PTL DEF CreationRespectsFlags

\* A rigid create that ends has reserved every component it selected, under one key
\* generation, or changed nothing.
THEOREM RigidCreateAllOrNothingHolds == TxSpec => RigidCreateAllOrNothing
<1>1. Allowed => (\A t \in Txs : tx[t].call = "create" /\ tx[t].rigid /\ tx'[t].call # "create" =>
                    \/ resv' = resv
                    \/ \A c \in tx[t].rows : ~Reserved(c) /\ resv'[c].gen = nextGen)
  BY DEF Allowed, RigidStep
<1> QED
  BY <1>1, TxAlwaysAllowed, PTL DEF RigidCreateAllOrNothing
=============================================================================
