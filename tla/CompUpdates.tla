---------------------------- MODULE CompUpdates ----------------------------
(***************************************************************************)
(* What the updates of component states promise, however many run at once: *)
(* a call that is one statement moves a component along the table of start *)
(* states; a call that reads first and writes later moves a component only *)
(* if the table allows it from some state the component has had since the  *)
(* call read.  Nothing but a forced call is free of the table.             *)
(***************************************************************************)
CONSTANTS
    Comps,               \* components
    Callers,             \* handlers in progress
    Allowed(_, _)        \* Allowed(from, to): the table of start states

VARIABLES
    st,         \* component -> state, one of them for "not in the table"
    since,      \* caller -> component -> states since the caller has read
    forced      \* whether the last write was forced

vars == <<st, since, forced>>

Nothing == [c \in Comps |-> {}]

\* Every caller that has read witnesses the states that others write.
Witnessed(new) ==
    [k \in Callers |->
        [c \in Comps |-> IF since[k][c] = {} THEN {} ELSE since[k][c] \cup {new[c]}]]

Init == since = [k \in Callers |-> Nothing]

\* A call that is one statement.
Direct ==
    /\ forced' \in BOOLEAN
    /\ \A c \in Comps : forced' \/ st'[c] = st[c] \/ Allowed(st[c], st'[c])
    /\ since' = Witnessed(st')

\* A call reads the components it is about.
Read(k) ==
    /\ \E S \in SUBSET Comps :
           since' = [since EXCEPT ![k] = [c \in Comps |-> IF c \in S THEN {st[c]} ELSE {}]]
    /\ UNCHANGED <<st, forced>>

\* It writes what it has decided from that.
Write(k) ==
    /\ forced' \in BOOLEAN
    /\ \A c \in Comps :
           forced' \/ st'[c] = st[c] \/ \E s \in since[k][c] : Allowed(s, st'[c])
    /\ since' = [Witnessed(st') EXCEPT ![k] = Nothing]

\* It finds nothing to write, fails, or dies with its instance.
Abandon ==
    /\ \E gone \in SUBSET Callers :
           since' = [k \in Callers |-> IF k \in gone THEN Nothing ELSE since[k]]
    /\ UNCHANGED <<st, forced>>

Next == Direct \/ Abandon \/ \E k \in Callers : Read(k) \/ Write(k)

Spec == Init /\ [][Next]_vars
=============================================================================
