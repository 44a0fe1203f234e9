----------------------------- MODULE CompLocksTx -----------------------------
(***************************************************************************)
(* The lock and reservation calls as the database transactions they are.   *)
(* Begin asks for no isolation level, so PostgreSQL runs them READ         *)
(* COMMITTED: each statement sees what is committed when it runs, a        *)
(* statement that writes or locks a row waits for the transaction that     *)
(* holds it, and only the reservation create locks what it reads (SELECT   *)
(* ... FOR UPDATE on the component rows).                                  *)
(*                                                                         *)
(* A call of several statements keeps its progress in tx; its last         *)
(* statement and its commit are one step, since the rows it writes are     *)
(* locked in between.  Calls of one statement are the actions of           *)
(* CompLocks.  A statement locks all its rows in one step.                 *)
(***************************************************************************)
EXTENDS CompLocks

CONSTANT Txs        \* transaction slots: calls in progress at a time

ASSUME TxsAssumption == IsFiniteSet(Txs)

VARIABLE tx         \* transaction -> the call it is in and how far it got

txVars == <<vars, tx>>

\* at:      the statement that ran last
\* call:    the database call
\* rows:    component rows the transaction holds FOR UPDATE
\* ids:     components the call is going to change
\* already: components that had reservation_disabled as wanted when read
\* swept:   components whose reservations it has deleted, uncommitted
Idle == [at |-> "idle", call |-> "none", rigid |-> FALSE, dur |-> 0,
         rows |-> {}, ids |-> {}, already |-> {}, swept |-> {}]

Running(t) == tx[t].at # "idle"
End(t) == tx' = [tx EXCEPT ![t] = Idle]

\* Nobody but t holds any of these component rows, or reservation rows.
RowsFree(t, ids) == \A u \in Txs \ {t} : ids \cap tx[u].rows = {}
ResvFree(t, ids) == \A u \in Txs \ {t} : ids \cap tx[u].swept = {}

ReservedOf(ids) == {c \in ids : Reserved(c)}

Begin(t, call, rigid, dur, held, ids, already) ==
    /\ ~Running(t)
    /\ tx' = [tx EXCEPT ![t] =
                 [at |-> "selected", call |-> call, rigid |-> rigid, dur |-> dur,
                  rows |-> held, ids |-> ids, already |-> already, swept |-> {}]]

\* t fails or gives up: every error path of the calls rolls back.
Rollback(t) == End(t) /\ UNCHANGED vars

-----------------------------------------------------------------------------
(* Create: SELECT ... FOR UPDATE, check the flags, INSERT ... ON CONFLICT  *)

\* Variant: the SELECT without FOR UPDATE.
CreateSelectUnlocked(t, S, dur, rigid) ==
    LET affected == S \cap present
        ok       == {c \in affected : Reservable(c, dur)}
    IN  /\ ok # {}
        /\ rigid => ok = affected
        /\ nextGen + Cardinality({u \in Txs : tx[u].call = "create"}) <= MaxGen
        /\ Begin(t, "create", rigid, dur, {}, ok, {})
        /\ UNCHANGED vars

CreateSelect(t, S, dur, rigid) ==
    LET affected == S \cap present
        ok       == {c \in affected : Reservable(c, dur)}
    IN  /\ ok # {}
        /\ rigid => ok = affected
        /\ RowsFree(t, affected)
        /\ nextGen + Cardinality({u \in Txs : tx[u].call = "create"}) <= MaxGen
        /\ Begin(t, "create", rigid, dur, affected, ok, {})
        /\ UNCHANGED vars

\* Variant: a rigid call keeps what it could insert.
CreateInsertPartly(t) ==
    LET inserted == tx[t].ids \ ReservedOf(tx[t].ids)
    IN  /\ tx[t].call = "create"
        /\ ResvFree(t, ReservedOf(tx[t].ids))
        /\ Install(inserted, Expiry(tx[t].dur))
        /\ nextGen' = nextGen + 1
        /\ End(t)
        /\ UNCHANGED <<rows, now>>

\* A conflicting row that is being deleted makes the INSERT wait for the end of
\* that transaction; a committed one is skipped, and a rigid call rolls back.
CreateInsert(t) ==
    LET ids      == tx[t].ids
        inserted == ids \ ReservedOf(ids)
    IN  /\ tx[t].call = "create"
        /\ ResvFree(t, ReservedOf(ids))
        /\ IF inserted = {} \/ (tx[t].rigid /\ inserted # ids)
           THEN Rollback(t)
           ELSE /\ Install(inserted, Expiry(tx[t].dur))
                /\ nextGen' = nextGen + 1
                /\ End(t)
                /\ UNCHANGED <<rows, now>>

-----------------------------------------------------------------------------
(* Lock and unlock: SELECT components, SELECT reservations, UPDATE          *)

LockCalls == {"lock", "unlock"}
Want(t) == tx[t].call = "lock"

LockSelect(t, S, on, rigid) ==
    LET affected == S \cap present
        lockable == {c \in affected : c \notin disabled /\ (c \in locked) # on}
    IN  /\ lockable # {}
        /\ rigid => lockable = affected
        /\ Begin(t, IF on THEN "lock" ELSE "unlock", rigid, 0, {}, lockable, {})
        /\ UNCHANGED vars

\* Variant: a reservation found makes the call return without a rollback.
LockCheckLeak(t) ==
    LET ids == tx[t].ids
    IN  /\ tx[t].call \in LockCalls /\ tx[t].at = "selected"
        /\ ReservedOf(ids) = {}
        /\ tx' = [tx EXCEPT ![t].at = "checked"]
        /\ UNCHANGED vars

LockCheck(t) ==
    LET ids  == tx[t].ids
        free == ids \ ReservedOf(ids)
    IN  /\ tx[t].call \in LockCalls /\ tx[t].at = "selected"
        /\ IF free = {} \/ (tx[t].rigid /\ free # ids)
           THEN Rollback(t)
           ELSE /\ tx' = [tx EXCEPT ![t].at = "checked", ![t].ids = free]
                /\ UNCHANGED vars

\* The UPDATE selects by id only: rows deleted meanwhile are missed, rows that
\* changed meanwhile are not looked at again.
LockUpdate(t) ==
    LET updated == tx[t].ids \cap present
    IN  /\ tx[t].call \in LockCalls /\ tx[t].at = "checked"
        /\ RowsFree(t, updated)
        /\ IF tx[t].rigid /\ updated # tx[t].ids
           THEN Rollback(t)
           ELSE /\ locked' = Flip(locked, updated, Want(t))
                /\ End(t)
                /\ UNCHANGED <<present, disabled, resv, nextGen, now>>

-----------------------------------------------------------------------------
(* Disable and repair: SELECT components, DELETE reservations (disable      *)
(* only), UPDATE components                                                *)

FlagSelect(t, S, disable, rigid) ==
    LET affected == S \cap present
    IN  /\ affected # {}
        /\ Begin(t, IF disable THEN "disable" ELSE "repair", rigid, 0, {}, affected,
                 {c \in affected : (c \in disabled) = disable})
        /\ UNCHANGED vars

\* Components without a reservation make a rigid delete report "not found",
\* which the caller tolerates: the rows found are deleted all the same.
DisableSweep(t) ==
    /\ tx[t].call = "disable" /\ tx[t].at = "selected"
    /\ ResvFree(t, ReservedOf(tx[t].ids))
    /\ tx' = [tx EXCEPT ![t].at = "swept", ![t].swept = ReservedOf(tx[t].ids)]
    /\ UNCHANGED vars

FlagUpdate(t) ==
    LET disable == tx[t].call = "disable"
        updated == tx[t].ids \cap present
    IN  /\ <<tx[t].call, tx[t].at>> \in {<<"disable", "swept">>, <<"repair", "selected">>}
        /\ RowsFree(t, updated)
        /\ IF tx[t].rigid /\ ~(tx[t].ids \subseteq updated \cup tx[t].already)
           THEN Rollback(t)
           ELSE /\ disabled' = Flip(disabled, updated, disable)
                /\ Drop(tx[t].swept)
                /\ End(t)
                /\ UNCHANGED <<present, locked, nextGen, now>>

-----------------------------------------------------------------------------
(* Forced removal: SELECT components, DELETE reservations                   *)

RemoveSelect(t, S, rigid) ==
    /\ S \cap present # {}
    /\ Begin(t, "remove", rigid, 0, {}, S \cap present, {})
    /\ UNCHANGED vars

RemoveDelete(t) ==
    LET removed == ReservedOf(tx[t].ids)
    IN  /\ tx[t].call = "remove"
        /\ ResvFree(t, removed)
        /\ IF tx[t].rigid /\ removed # tx[t].ids
           THEN Rollback(t)
           ELSE /\ Drop(removed)
                /\ End(t)
                /\ UNCHANGED <<rows, nextGen, now>>

-----------------------------------------------------------------------------
(* Calls of one statement: they wait for rows a transaction in progress     *)
(* holds, and otherwise are atomic.                                        *)

NobodySweeps(ids) == \A u \in Txs : ids \cap tx[u].swept = {}
NobodyHolds(ids)  == \A u \in Txs : ids \cap tx[u].rows = {}

OneStatement ==
    /\ \/ \E K \in SUBSET Keys, rigid \in BOOLEAN :
            /\ NobodySweeps(Owned(K))
            /\ \/ DeleteCompReservations(K, rigid)
               \/ \E dur \in Durations : UpdateCompReservations(K, dur, rigid)
       \/ \E c \in Comps, l, d \in BOOLEAN : InsertComponent(c, l, d)
       \/ \E S \in {{c} : c \in Comps} \cup {Comps} :
            /\ NobodyHolds(S) /\ NobodySweeps(S)
            /\ DeleteComponents(S)
       \/ Tick
    /\ UNCHANGED tx

Reap ==
    /\ NobodySweeps({c \in Comps : Expired(c)})
    /\ DeleteCompReservationsExpired
    /\ UNCHANGED tx

-----------------------------------------------------------------------------
(* Transactions that do not reach their commit                             *)

\* The statement t runs next needs a row u holds.
WaitsFor(t, u) ==
    /\ t # u
    /\ LET needRows == IF tx[t].at \in {"checked", "swept"} \/ tx[t].call = "repair"
                       THEN tx[t].ids \cap present ELSE {}
           needResv == IF tx[t].call \in {"create", "remove"} \/
                          (tx[t].call = "disable" /\ tx[t].at = "selected")
                       THEN ReservedOf(tx[t].ids) ELSE {}
       IN  needRows \cap tx[u].rows # {} \/ needResv \cap tx[u].swept # {}

\* PostgreSQL finds the cycle and aborts one transaction of it.
DeadlockVictim(t) ==
    /\ \E W \in SUBSET Txs :
        /\ t \in W
        /\ \A u \in W : \E v, w \in W : WaitsFor(u, v) /\ WaitsFor(w, u)
    /\ Rollback(t)

\* The connection, or the process that runs the call, goes away.
ConnectionLost(t) == Running(t) /\ Rollback(t)

-----------------------------------------------------------------------------
TxInit == Init /\ tx = [t \in Txs |-> Idle]

BeginCall(t) ==
    \E S \in SUBSET Comps, rigid \in BOOLEAN :
        \/ \E dur \in Durations \cup {0} : CreateSelect(t, S, dur, rigid)
        \/ \E on \in BOOLEAN : LockSelect(t, S, on, rigid)
        \/ \E disable \in BOOLEAN : FlagSelect(t, S, disable, rigid)
        \/ RemoveSelect(t, S, rigid)

Continue(t) ==
    \/ CreateInsert(t)
    \/ LockCheck(t)
    \/ LockUpdate(t)
    \/ DisableSweep(t)
    \/ FlagUpdate(t)
    \/ RemoveDelete(t)

TxNext ==
    \/ \E t \in Txs : \/ BeginCall(t)
                      \/ Continue(t)
                      \/ DeadlockVictim(t)
                      \/ ConnectionLost(t)
    \/ OneStatement
    \/ Reap

TxSpec == TxInit /\ [][TxNext]_txVars

\* A call in progress runs on; row locks are granted in the order they were
\* asked for, so a transaction that waits is not overtaken for ever.
TxFairSpec ==
    /\ TxSpec
    /\ WF_txVars(Reap)
    /\ \A t \in Txs : SF_txVars(Continue(t)) /\ WF_txVars(DeadlockVictim(t))
-----------------------------------------------------------------------------
(* Properties                                                              *)

\* At the moment a reservation appears, the flags committed for its component
\* are those insertCompReservationsHelper checked, whatever other calls did since
\* its SELECT: the component exists, takes reservations, and is locked exactly
\* when the reservation has no duration.
CreationRespectsFlags ==
    [][\A c \in Comps : ~Reserved(c) /\ Reserved(c)' =>
          /\ c \in present'
          /\ c \notin disabled'
          /\ resv'[c].exp = Never <=> c \in locked']_txVars

\* A rigid create that ends has reserved every component it selected, under one
\* generation of keys, or changed nothing, even when a competing create has taken
\* some of the components between its SELECT and its INSERT or a call is aborted.
RigidCreateAllOrNothing ==
    [][\A t \in Txs : tx[t].call = "create" /\ tx[t].rigid /\ tx'[t].call # "create" =>
          \/ resv' = resv
          \/ \A c \in tx[t].rows : ~Reserved(c) /\ resv'[c].gen = nextGen]_txVars

\* A call never hangs: whatever rows it waits for, it ends, by its commit, by an
\* error path or as the victim of a deadlock (create against disable).
CallsEnd == \A t \in Txs : Running(t) ~> ~Running(t)

\* internal/hmsds/hmsds-postgres.go:4826, "Components can't be (un)locked if there
\* are any reservations": a reservation has a duration exactly if its component
\* is not locked, at every moment and not only when it is made.
ReservationMatchesLock ==
    \A c \in Comps : Reserved(c) => (resv[c].exp = Never <=> c \in locked)
=============================================================================
