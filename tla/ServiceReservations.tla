------------------------- MODULE ServiceReservations -------------------------
(***************************************************************************)
(* The service-reservations client library (FAS, CAPMC and others link it) *)
(* against the reservation table.  Every client has the application's      *)
(* calls, at most one at a time, and the renewal goroutine; both talk HTTP *)
(* to the server, and both read and write the library's reservedMap.       *)
(*                                                                         *)
(* A request may be executed late, or again (retryablehttp repeats it when *)
(* the answer is lost), or after its caller gave up (the 40 s context).    *)
(* An answer is applied to the map as it is when the answer arrives.       *)
(* Clocks of clients and server agree.  The calls used here are atomic in  *)
(* the server (CompLocksTx), so they are the actions of CompLocks; flags   *)
(* stay as they are, the components are not locked.                        *)
(***************************************************************************)
EXTENDS CompLocks

CONSTANTS
    Clients,    \* processes that use the library
    Term,       \* defaultTermMinutes, in ticks
    Window,     \* DefaultExpirationWindow, in ticks
    Rigid,      \* the processing models in use: TRUE rigid, FALSE flexible
    Lossy,      \* whether answers are lost and calls time out
    Restarts,   \* whether clients restart
    Prompt,     \* whether all calls and a renewal round fit between two ticks
    MaxLate     \* bound of the abandoned requests still on their way

ASSUME TermAssumption == Term \in Nat

VARIABLES
    map,        \* client -> component -> the entry of reservedMap, or NoResv
    call,       \* client -> thread -> the call in progress
    late,       \* abandoned requests the server may still execute
    saved,      \* client -> the entries it kept (Status()) for Reacquire
    ran,        \* client -> the renewal loop went round since the last tick
    revoked     \* history: keys released, or removed by an administrator

server  == vars
client  == <<map, saved, ran>>
srVars  == <<server, map, call, late, saved, ran, revoked>>

Threads == {"app", "loop"}
NoEntries == [c \in Comps |-> NoResv]
Known(f) == {c \in Comps : f[c].gen # 0}

\* at: idle | sent | replied, and for the loop also scan (between the check of
\* its keys and the renewal).  entries: the keys a request carries.
NoCall == [at |-> "idle", op |-> "none", rigid |-> FALSE, comps |-> {},
           entries |-> NoEntries, reply |-> NoEntries]

Request(op, rigid, comps, entries) ==
    [at |-> "sent", op |-> op, rigid |-> rigid, comps |-> comps,
     entries |-> [c \in Comps |-> IF c \in comps THEN entries[c] ELSE NoResv],
     reply |-> NoEntries]

Put(a, th, r) == call' = [call EXCEPT ![a][th] = r]

\* A call ends; after the check the loop goes on to look at its entries.
Return(a, th) == Put(a, th, IF th = "loop" /\ call[a][th].op = "check"
                            THEN [NoCall EXCEPT !.at = "scan"] ELSE NoCall)

-----------------------------------------------------------------------------
(* The application's calls                                                 *)

Send(a, r) ==
    /\ call[a]["app"].at = "idle"
    /\ Put(a, "app", r)
    /\ UNCHANGED <<server, client, late, revoked>>

\* Aquire (rigid) and FlexAquire
Aquire(a, S, rigid) ==
    /\ S # {}
    /\ Send(a, Request("acquire", rigid, S, NoEntries))

\* Release and FlexRelease ask for what the map holds, always flexible.
Release(a, S) ==
    /\ S # {} /\ S \subseteq Known(map[a])
    /\ Send(a, Request("release", FALSE, S, map[a]))

\* Reacquire renews reservations the application remembers.
Reacquire(a, rigid) ==
    /\ Known(saved[a]) # {}
    /\ Send(a, Request("renew", rigid, Known(saved[a]), saved[a]))

\* Variant: a renewal also counts the new term locally, from the answer's arrival.
AppliedRenewed(a, r, th) ==
    [c \in Comps |->
        IF r.op = "renew" /\ r.reply[c] # NoResv /\ map[a][c] # NoResv
        THEN [map[a][c] EXCEPT !.exp = now + Term] ELSE
        IF r.op \in {"acquire", "check"} /\ r.reply[c] # NoResv
        THEN r.reply[c] ELSE map[a][c]]

\* What each answer does to the map.  The entries are found by xname, not by key.
AppliedTo(a, r, th, c) ==
    IF c \notin r.comps THEN map[a][c] ELSE
    CASE r.op = "acquire" ->
            IF (r.rigid /\ Known(r.reply) # r.comps) \/ r.reply[c] = NoResv
            THEN map[a][c] ELSE r.reply[c]
      [] r.op = "release" ->
            IF r.reply[c] = NoResv THEN map[a][c] ELSE NoResv
      [] r.op = "renew" /\ th = "app" ->
            IF r.reply[c] = NoResv THEN map[a][c] ELSE r.entries[c]
      [] r.op = "renew" /\ th = "loop" ->
            IF r.reply[c] = NoResv THEN NoResv ELSE map[a][c]
      [] r.op = "check" ->
            IF r.reply[c] = NoResv \/ map[a][c] = NoResv
            THEN NoResv ELSE [map[a][c] EXCEPT !.exp = r.reply[c].exp]

Applied(a, r, th) == [c \in Comps |-> AppliedTo(a, r, th, c)]

Receive(a, th) ==
    /\ call[a][th].at = "replied"
    /\ map' = [map EXCEPT ![a] = Applied(a, call[a][th], th)]
    /\ Return(a, th)
    /\ UNCHANGED <<server, late, saved, ran, revoked>>

-----------------------------------------------------------------------------
(* The renewal goroutine                                                   *)

Idling(a, th) == call[a][th].at = "idle"

\* update() asks the server about every key of the map.
LoopCheck(a) ==
    /\ Idling(a, "loop")
    /\ Known(map[a]) # {}
    /\ Prompt => ~ran[a]
    /\ Put(a, "loop", Request("check", FALSE, Known(map[a]), map[a]))
    /\ UNCHANGED <<server, client, late, revoked>>

\* An empty map: nothing to do until the next round.
LoopNothing(a) ==
    /\ Prompt /\ ~ran[a]
    /\ Idling(a, "loop")
    /\ Known(map[a]) = {}
    /\ ran' = [ran EXCEPT ![a] = TRUE]
    /\ UNCHANGED <<server, map, call, late, saved, revoked>>

\* Variant: the window is not used.
DueWhenExpired(e) == e.exp < now

Due(e) == e.exp < now + Window

\* Entries that have expired by their recorded expiration are dropped; the
\* others are renewed once they come within the window.
LoopScan(a) ==
    LET expired    == {c \in Known(map[a]) : map[a][c].exp < now}
        candidates == {c \in Known(map[a]) \ expired : Due(map[a][c])}
    IN  /\ call[a]["loop"].at = "scan"
        /\ map' = [map EXCEPT ![a] =
                     [c \in Comps |-> IF c \in expired THEN NoResv ELSE @[c]]]
        /\ Put(a, "loop", IF candidates = {} THEN NoCall
                          ELSE Request("renew", FALSE, candidates, map[a]))
        /\ ran' = [ran EXCEPT ![a] = Prompt]
        /\ UNCHANGED <<server, late, saved, revoked>>

-----------------------------------------------------------------------------
(* The server                                                              *)

KeysOf(r) == {<<c, r.entries[c].gen>> : c \in r.comps}
Found(r) == IF r.rigid /\ Owned(KeysOf(r)) # r.comps THEN {} ELSE Owned(KeysOf(r))

\* The rows the answer to r reports as successes, as they are or will be.
Answer(r) ==
    LET granted == Granted(r.comps, Term, r.rigid)
    IN  [c \in Comps |->
            IF r.op = "acquire"
            THEN IF c \in granted THEN [gen |-> nextGen, exp |-> now + Term] ELSE NoResv
            ELSE IF c \in Found(r) THEN resv[c] ELSE NoResv]

\* What executing r does to the table.
Execute(r) ==
    /\ \/ Known(Answer(r)) = {} /\ UNCHANGED server
       \/ r.op = "acquire" /\ InsertCompReservations(r.comps, Term, r.rigid)
       \/ r.op = "release" /\ DeleteCompReservations(KeysOf(r), FALSE)
       \/ r.op = "renew" /\ UpdateCompReservations(KeysOf(r), Term, r.rigid)
       \/ r.op = "check" /\ UNCHANGED server
    /\ revoked' = IF r.op = "release"
                  THEN revoked \cup {<<c, resv[c].gen>> : c \in Found(r)} ELSE revoked

Serve(a, th) ==
    /\ call[a][th].at = "sent"
    /\ Execute(call[a][th])
    /\ Put(a, th, [call[a][th] EXCEPT !.at = "replied", !.reply = Answer(call[a][th])])
    /\ UNCHANGED <<client, late>>

Reap ==
    /\ DeleteCompReservationsExpired
    /\ UNCHANGED <<call, late, client, revoked>>

\* An administrator removes reservations without their keys.
AdminRemove(c) ==
    /\ DeleteCompReservationsForce({c}, FALSE)
    /\ revoked' = revoked \cup {<<c, resv[c].gen>>}
    /\ UNCHANGED <<call, late, client>>

-----------------------------------------------------------------------------
(* What the network and the processes may do                               *)

\* The answer is lost and the HTTP client sends the request again.
Retry(a, th) ==
    /\ Lossy /\ call[a][th].at = "replied"
    /\ Put(a, th, [call[a][th] EXCEPT !.at = "sent", !.reply = NoEntries])
    /\ UNCHANGED <<server, client, late, revoked>>

\* The call returns an error: the request, if not executed, may still arrive (a
\* check changes nothing when it does).
TimeOut(a, th) ==
    /\ Lossy /\ call[a][th].at \in {"sent", "replied"}
    /\ \/ UNCHANGED late
       \/ /\ call[a][th].at = "sent" /\ call[a][th].op # "check"
          /\ Cardinality(late) < MaxLate
          /\ late' = late \cup {call[a][th]}
    /\ Return(a, th)
    /\ UNCHANGED <<server, client, revoked>>

Arrive(r) ==
    /\ r \in late
    /\ Execute(r)
    /\ late' = late \ {r}
    /\ UNCHANGED <<call, client>>

\* The process restarts; it remembers the reservations it had written down.
Restart(a) ==
    /\ Restarts /\ Known(map[a]) # {}
    /\ saved' = [saved EXCEPT ![a] = map[a]]
    /\ map' = [map EXCEPT ![a] = NoEntries]
    /\ call' = [call EXCEPT ![a] = [th \in Threads |-> NoCall]]
    /\ UNCHANGED <<server, late, ran, revoked>>

Clock ==
    /\ Prompt => \A a \in Clients : ran[a] /\ \A th \in Threads : Idling(a, th)
    /\ Tick
    /\ ran' = [a \in Clients |-> FALSE]
    /\ UNCHANGED <<map, call, late, saved, revoked>>

-----------------------------------------------------------------------------
SRInit ==
    /\ Init
    /\ map = [a \in Clients |-> NoEntries]
    /\ saved = [a \in Clients |-> NoEntries]
    /\ call = [a \in Clients |-> [th \in Threads |-> NoCall]]
    /\ ran = [a \in Clients |-> FALSE]
    /\ late = {}
    /\ revoked = {}

AppCall(a) ==
    \/ \E S \in SUBSET Comps, rigid \in Rigid : Aquire(a, S, rigid)
    \/ \E S \in SUBSET Comps : Release(a, S)
    \/ \E rigid \in Rigid : Reacquire(a, rigid)

Loop(a) == LoopCheck(a) \/ LoopNothing(a) \/ LoopScan(a)

SRNext ==
    \/ \E a \in Clients : AppCall(a) \/ Loop(a) \/ Restart(a)
    \/ \E a \in Clients, th \in Threads :
          Receive(a, th) \/ Serve(a, th) \/ Retry(a, th) \/ TimeOut(a, th)
    \/ \E r \in late : Arrive(r)
    \/ \E c \in Comps : AdminRemove(c)
    \/ Reap
    \/ Clock

SRSpec == SRInit /\ [][SRNext]_srVars

-----------------------------------------------------------------------------
(* Properties                                                              *)

Holds(a, c) == map[a][c].gen # 0

\* An entry that has not expired by its recorded expiration, whose key was neither
\* released nor removed by force, is backed by the server's reservation, which
\* lasts at least as long, whatever answers were lost, late, repeated or applied
\* to a map that has changed since the request.
UnexpiredEntryIsBacked ==
    \A a \in Clients, c \in Comps :
        Holds(a, c) /\ now < map[a][c].exp /\ <<c, map[a][c].gen>> \notin revoked =>
            resv[c].gen = map[a][c].gen /\ map[a][c].exp <= resv[c].exp

\* Two clients never hold unexpired entries for one component, unless one of the
\* keys was released or removed by force: what the reservation is for.
MutualExclusion ==
    \A a, b \in Clients, c \in Comps :
        a # b /\ Holds(a, c) /\ Holds(b, c) /\ now < map[a][c].exp /\ now < map[b][c].exp =>
            \/ <<c, map[a][c].gen>> \in revoked
            \/ <<c, map[b][c].gen>> \in revoked

\* With prompt calls and no losses, a reservation in the map does not expire at
\* the server: the renewal round (every 10 s) meets the 30 s window.
HeldDoesNotExpire ==
    \A a \in Clients, c \in Comps :
        Holds(a, c) /\ resv[c].gen = map[a][c].gen => ~Expired(c)
=============================================================================
