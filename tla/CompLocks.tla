------------------------------ MODULE CompLocks ------------------------------
(***************************************************************************)
(* Component locks and reservations as the /locks API defines them, one    *)
(* action per database API call and each call atomic.  This is the         *)
(* behaviour the lock code has when calls do not overlap, and the          *)
(* specification that CompLocksTx, where the calls are transactions that   *)
(* interleave, is compared with.                                           *)
(*                                                                         *)
(* A component row carries two flags (locked, reservation_disabled); the   *)
(* reservations table holds at most one row per component, deleted with    *)
(* the component.  A reservation made without a duration never expires.    *)
(***************************************************************************)
EXTENDS Naturals, FiniteSets

CONSTANTS
    Comps,      \* the xnames a components row may exist for
    Durations,  \* the ReservationDuration values clients ask for, in ticks
    MaxNow,     \* bound of the clock
    MaxGen      \* bound of the number of keys handed out

ASSUME CompsAssumption    == IsFiniteSet(Comps)
ASSUME DurationAssumption == Durations \subseteq Nat \ {0}
ASSUME BoundAssumption    == MaxNow \in Nat /\ MaxGen \in Nat

VARIABLES
    present,    \* components that have a row
    locked,     \* rows with locked = true
    disabled,   \* rows with reservation_disabled = true
    resv,       \* the reservations table: component -> reservation or NoResv
    nextGen,    \* the next reservation key: a key is <<component, generation>>
    now         \* the clock, in ticks

rows == <<present, locked, disabled>>
vars == <<present, locked, disabled, resv, nextGen, now>>

Never  == 0                         \* expiration_timestamp IS NULL
NoResv == [gen |-> 0, exp |-> 0]    \* no row in the reservations table

Reserved(c) == resv[c].gen # 0
Expired(c)  == Reserved(c) /\ resv[c].exp # Never /\ now >= resv[c].exp

\* Every key that can have been handed out.  The random part of a key is fresh
\* for every row inserted; a generation stands for it.
Keys == Comps \X (1 .. nextGen - 1)

\* The reservation rows whose key is in K.
Owned(K) == {c \in Comps : Reserved(c) /\ <<c, resv[c].gen>> \in K}

\* Every key of K finds its own row.
AllFound(K) == \A k \in K : resv[k[1]].gen = k[2]

Install(ids, e) ==
    resv' = [c \in Comps |-> IF c \in ids THEN [gen |-> nextGen, exp |-> e]
                                          ELSE resv[c]]
Drop(ids) ==
    resv' = [c \in Comps |-> IF c \in ids THEN NoResv ELSE resv[c]]

-----------------------------------------------------------------------------
(* Reservations                                                            *)

\* Variant: reservation_disabled is not looked at.
ReservableWhenDisabled(c, dur) == dur = 0 <=> c \in locked

\* A reservation without a duration needs the lock, one with a duration needs
\* the absence of the lock, and none is made while reservations are disabled.
Reservable(c, dur) == c \notin disabled /\ (dur = 0 <=> c \in locked)

Expiry(dur) == IF dur = 0 THEN Never ELSE now + dur

\* Variant: the insert overwrites the row it conflicts with.
GrantedAnyway(S, dur, rigid) ==
    LET affected == S \cap present
        ok       == {c \in affected : Reservable(c, dur)}
    IN  IF rigid /\ ok # affected THEN {} ELSE ok

\* What a call gets: the filter selects S; rigid refuses the whole call if one
\* component cannot be reserved, flexible reserves those that can.
Granted(S, dur, rigid) ==
    LET affected == S \cap present
        ok       == {c \in affected : Reservable(c, dur) /\ ~Reserved(c)}
    IN  IF rigid /\ ok # affected THEN {} ELSE ok

\* POST /locks/reservations (dur = 0) and /locks/service/reservations (dur > 0).
InsertCompReservations(S, dur, rigid) ==
    /\ Granted(S, dur, rigid) # {}
    /\ nextGen <= MaxGen
    /\ Install(Granted(S, dur, rigid), Expiry(dur))
    /\ nextGen' = nextGen + 1
    /\ UNCHANGED <<rows, now>>

\* POST /locks/reservations/release and /locks/service/reservations/release.
DeleteCompReservations(K, rigid) ==
    /\ Owned(K) # {}
    /\ rigid => AllFound(K)
    /\ Drop(Owned(K))
    /\ UNCHANGED <<rows, nextGen, now>>

\* POST /locks/reservations/remove: no key needed.
DeleteCompReservationsForce(S, rigid) ==
    LET affected == S \cap present
        removed  == {c \in affected : Reserved(c)}
    IN  /\ removed # {}
        /\ rigid => removed = affected
        /\ Drop(removed)
        /\ UNCHANGED <<rows, nextGen, now>>

\* POST /locks/service/reservations/renew: only rows that expire are updated;
\* whether they have expired already is not asked.
UpdateCompReservations(K, dur, rigid) ==
    LET renewed == {c \in Owned(K) : resv[c].exp # Never}
    IN  /\ renewed # {}
        /\ rigid => AllFound(K) /\ \A k \in K : k[1] \in renewed
        /\ resv' = [c \in Comps |-> IF c \in renewed
                                    THEN [gen |-> resv[c].gen, exp |-> now + dur]
                                    ELSE resv[c]]
        /\ UNCHANGED <<rows, nextGen, now>>

\* Variant: the comparison is strict.
ReapLate ==
    LET expired == {c \in Comps : Expired(c) /\ now > resv[c].exp}
    IN  /\ expired # {}
        /\ Drop(expired)
        /\ UNCHANGED <<rows, nextGen, now>>

\* The clean-up thread: one DELETE of every row whose time has come.
DeleteCompReservationsExpired ==
    LET expired == {c \in Comps : Expired(c)}
    IN  /\ expired # {}
        /\ Drop(expired)
        /\ UNCHANGED <<rows, nextGen, now>>

-----------------------------------------------------------------------------
(* Locks                                                                   *)

Flip(set, ids, on) == IF on THEN set \cup ids ELSE set \ ids

\* POST /locks/lock (on) and /locks/unlock: refused for a component whose
\* reservations are disabled, that is already so, or that is reserved.
Lock(S, on, rigid) ==
    LET affected == S \cap present
        lockable == {c \in affected : c \notin disabled /\ (c \in locked) # on}
        free     == {c \in lockable : ~Reserved(c)}
    IN  /\ free # {}
        /\ rigid => free = affected
        /\ locked' = Flip(locked, free, on)
        /\ UNCHANGED <<present, disabled, resv, nextGen, now>>

\* POST /locks/disable: the reservations of S are removed, then S is flagged.
Disable(S) ==
    LET affected == S \cap present
    IN  /\ affected # {}
        /\ Drop(affected)
        /\ disabled' = disabled \cup affected
        /\ UNCHANGED <<present, locked, nextGen, now>>

\* POST /locks/repair
Repair(S) ==
    LET affected == S \cap present
    IN  /\ affected # {}
        /\ disabled' = disabled \ affected
        /\ UNCHANGED <<present, locked, resv, nextGen, now>>

-----------------------------------------------------------------------------
(* Component rows come and go                                              *)

\* A new row takes its flags from the request.
InsertComponent(c, isLocked, isDisabled) ==
    /\ c \notin present
    /\ present' = present \cup {c}
    /\ locked' = Flip(locked, {c}, isLocked)
    /\ disabled' = Flip(disabled, {c}, isDisabled)
    /\ UNCHANGED <<resv, nextGen, now>>

\* One row, or all of them; the foreign key deletes the reservations with them.
DeleteComponents(S) ==
    /\ S \cap present # {}
    /\ present' = present \ S
    /\ locked' = locked \ S
    /\ disabled' = disabled \ S
    /\ Drop(S \cap present)
    /\ UNCHANGED <<nextGen, now>>

Tick ==
    /\ now < MaxNow
    /\ now' = now + 1
    /\ UNCHANGED <<rows, resv, nextGen>>

-----------------------------------------------------------------------------
Init ==
    /\ present = Comps
    /\ locked = {}
    /\ disabled = {}
    /\ resv = [c \in Comps |-> NoResv]
    /\ nextGen = 1
    /\ now = 0

KeyCall ==
    \E K \in SUBSET Keys, rigid \in BOOLEAN :
        \/ DeleteCompReservations(K, rigid)
        \/ \E dur \in Durations : UpdateCompReservations(K, dur, rigid)

FilterCall ==
    \E S \in SUBSET Comps, rigid \in BOOLEAN :
        \/ \E dur \in Durations \cup {0} : InsertCompReservations(S, dur, rigid)
        \/ DeleteCompReservationsForce(S, rigid)
        \/ \E on \in BOOLEAN : Lock(S, on, rigid)

AdminCall == \E S \in SUBSET Comps : Disable(S) \/ Repair(S)

RowCall ==
    \/ \E c \in Comps, l, d \in BOOLEAN : InsertComponent(c, l, d)
    \/ \E S \in {{c} : c \in Comps} \cup {Comps} : DeleteComponents(S)

Next == KeyCall \/ FilterCall \/ AdminCall \/ RowCall
            \/ DeleteCompReservationsExpired \/ Tick

Spec == Init /\ [][Next]_vars

\* What is left of the specification when calls overlap (see CompLocksTx): lock
\* and unlock may find a reservation their check did not see, and disable may
\* leave one behind; every other call is still atomic.
LockUnchecked(S, on) ==
    /\ locked' = Flip(locked, S, on)
    /\ UNCHANGED <<present, disabled, resv, nextGen, now>>

DisableUnchecked(S, swept) ==
    /\ disabled' = disabled \cup S
    /\ Drop(swept)
    /\ UNCHANGED <<present, locked, nextGen, now>>

Unchecked ==
    \E S \in SUBSET present :
        \/ \E on \in BOOLEAN : LockUnchecked(S, on)
        \/ \E swept \in SUBSET Comps : DisableUnchecked(S, swept)

RelaxedSpec == Init /\ [][Next \/ Unchecked]_vars

\* The clean-up thread loops for ever; no client is obliged to call.
FairSpec == Spec /\ WF_vars(DeleteCompReservationsExpired)
-----------------------------------------------------------------------------
(* Properties                                                              *)

\* Flags and reservations belong to existing rows, and every reservation
\* carries a key that has been handed out (InsertCompReservationsTx makes it).
TypeOK ==
    /\ present \subseteq Comps
    /\ locked \subseteq present
    /\ disabled \subseteq present
    /\ nextGen \in Nat \ {0}
    /\ now \in Nat
    /\ resv \in [Comps -> [gen : Nat, exp : Nat]]
    /\ \A c \in Comps : /\ resv[c].gen < nextGen
                        /\ resv[c].gen = 0 => resv[c] = NoResv

\* A reserved component exists, takes reservations, and is locked exactly when
\* its reservation never expires: the rule of insertCompReservationsHelper
\* ("to create reservations without a duration, the component must be locked",
\* and the converse), which locking, unlocking, disabling, renewing, deleting
\* and re-adding components must all keep true afterwards.
LockAgreement ==
    \A c \in Comps : Reserved(c) =>
        /\ c \in present
        /\ c \notin disabled
        /\ resv[c].exp = Never <=> c \in locked

\* A reservation passes from one key to another only through a moment without
\* a reservation, even once it has expired: the insert does nothing on conflict;
\* and one that never expires (an administrator's) is never turned into one that
\* does: it can only be given up or taken away.
HeldAsGranted ==
    [][\A c \in Comps : Reserved(c) /\ Reserved(c)' =>
          /\ resv'[c].gen = resv[c].gen
          /\ resv[c].exp = Never => resv'[c] = resv[c]]_vars

\* A reservation whose time has come does not stay: the clean-up thread deletes
\* it unless its owner renews it first (expiry is inclusive, NOW() >= expiration).
ExpiredIsReaped ==
    \A c \in Comps : Expired(c) ~> ~Expired(c)
=============================================================================
