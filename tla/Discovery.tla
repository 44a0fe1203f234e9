----------------------------- MODULE Discovery -----------------------------
(***************************************************************************)
(* Redfish endpoints and their discovery.  A discovery is a goroutine of   *)
(* one instance: it marks the row of the endpoint as started, asks the     *)
(* remote controller, and stores what it found in one transaction.  Calls  *)
(* create, change, disable and delete the row meanwhile, each in           *)
(* transactions of its own (READ COMMITTED).  While it asks, the endpoint  *)
(* is in the map of its instance, whose updater marks the row again so     *)
(* that no other instance takes the discovery for an orphan; the sync      *)
(* thread takes orphans over.                                              *)
(*                                                                         *)
(* Every endpoint has one component endpoint, component and service        *)
(* endpoint, of the same name.  A component is there or Empty or in any    *)
(* other state (Up); CompState has the states.  Of the columns of an       *)
(* endpoint Enabled stands for all that a user may write; whether to       *)
(* rediscover does not change.  A discovery of several endpoints is one of *)
(* each.  Credentials, notifications, Ethernet interfaces and hardware are *)
(* left out, or in other modules.                                          *)
(***************************************************************************)
EXTENDS Naturals

CONSTANTS
    Eps,         \* endpoints
    Redisc,      \* those with RediscoverOnUpdate
    Instances,
    Runs,        \* discoveries, the most that are in progress
    At(_),       \* the instance of a discovery
    DCalls,      \* calls in progress, at any instance
    MaxFaults    \* bound on crashes and failed calls of the database

VARIABLES
    enableDiscovery,  \* the flag of the command line
    eps,         \* rf_endpoints
    ceps,        \* comp_endpoints: those that have a row
    seps,        \* service_endpoints
    comps,       \* components: "none", "Empty" or "Up"
    runs,        \* discovery -> what it is doing
    updaters,    \* instance -> the rows that its updater has read: endpoint -> Enabled
    dcalls,      \* call -> what it is doing
    faults,
    lost,        \* endpoints whose discovery has died or could not write its end
    missed       \* components set up under an endpoint that went, or that had no
                 \* component endpoint yet, while a call was emptying them (history)

dVars == <<enableDiscovery, eps, ceps, seps, comps, runs, updaters, dcalls, faults, lost, missed>>
tables == <<eps, ceps, seps, comps>>

\* fresh: the last attempt is less than 30 minutes old.
Row(status, enabled) == [status |-> status, enabled |-> enabled, fresh |-> TRUE]
NoRow == [status |-> "none", enabled |-> FALSE, fresh |-> TRUE]
There(e) == eps[e] # NoRow

NoEp == "none"
Idle == [pc |-> "idle", ep |-> NoEp, force |-> FALSE, enabled |-> FALSE]
CallIdle == [pc |-> "idle", op |-> "none", ids |-> {}, on |-> FALSE, held |-> {}]

\* Variant: it is there until the end has been written.
InMapUntilEnd(i) == {runs[d].ep : d \in {x \in Runs : At(x) = i /\ runs[x].pc \in {"probe", "store", "report"}}}

\* discMap: what an instance is asking.
InMap(i) == {runs[d].ep : d \in {x \in Runs : At(x) = i /\ runs[x].pc = "probe"}}
MapFree(i) == updaters[i] = <<>>   \* discMapLock

\* Locks that a transaction in progress holds.
RowLocked(e)  == \E d \in Runs : runs[d].ep = e /\ runs[d].pc = "row"
KidsLocked(e) == \E k \in DCalls : e \in dcalls[k].held

-----------------------------------------------------------------------------
(* Rows                                                                    *)

\* All columns are written, as they were when the row was read.
UpdateRFEndpointTx(e, status, enabled) ==
    eps' = IF There(e) THEN [eps EXCEPT ![e] = Row(status, enabled)] ELSE eps

InsertRFEndpointTx(e, enabled) == ~There(e) /\ eps' = [eps EXCEPT ![e] = Row("new", enabled)]

\* The first statement of a call that empties: locks the component endpoints there
\* are, and the components, but no row of rf_endpoints.
SetChildCompStatesRFEndpointsTx(k, op, ids, on) ==
    /\ dcalls[k] = CallIdle
    /\ \A e \in ids \cap ceps : ~KidsLocked(e)
    /\ dcalls' = [dcalls EXCEPT ![k] = [pc |-> "emptied", op |-> op, ids |-> ids, on |-> on, held |-> ids \cap ceps]]
    /\ UNCHANGED <<enableDiscovery, tables, runs, updaters, faults, lost, missed>>

SetEmpty(es) == comps' = [e \in Eps |-> IF e \in es /\ comps[e] # "none" THEN "Empty" ELSE comps[e]]

-----------------------------------------------------------------------------
(* Discovery                                                               *)

\* A goroutine for a row as it was read, or none.
Start(e, enabled, rediscover, force) ==
    IF enabled /\ (rediscover => e \in Redisc)
    THEN \E d \in Runs : /\ runs[d] = Idle
                         /\ runs' = [runs EXCEPT ![d] = [pc |-> "select", ep |-> e, force |-> force, enabled |-> TRUE]]
    ELSE UNCHANGED runs

discoverFromEndpoints(e, enabled, update, force) == Start(e, enabled, update, force)
discoverFromEndpoint(e, enabled, force) == Start(e, enabled, TRUE, force)

Goto(d, pc) == runs' = [runs EXCEPT ![d].pc = pc]
Ends(d) == runs' = [runs EXCEPT ![d] = Idle]

doInventoryDiscoverPost ==
    \E e \in Eps, force \in BOOLEAN :
        /\ There(e) /\ eps[e].enabled
        /\ discoverFromEndpoints(e, TRUE, FALSE, force)
        /\ UNCHANGED <<enableDiscovery, tables, updaters, dcalls, faults, lost, missed>>

\* UpdateRFEndpointForDiscover in two statements; the row is not locked in between.
SelectForDiscover(d) ==
    LET e == runs[d].ep IN
    /\ runs[d].pc = "select"
    /\ IF There(e) /\ (runs[d].force \/ eps[e].status # "started")
       THEN runs' = [runs EXCEPT ![d] = [pc |-> "update", ep |-> e, force |-> FALSE, enabled |-> eps[e].enabled]]
       ELSE Ends(d)
    /\ UNCHANGED <<enableDiscovery, tables, updaters, dcalls, faults, lost, missed>>

\* Then discoveryMapAdd, which waits for the updater of the instance.
UpdateRFEndpointForDiscover(d) ==
    LET e == runs[d].ep IN
    /\ runs[d].pc = "update" /\ ~RowLocked(e) /\ MapFree(At(d))
    /\ UpdateRFEndpointTx(e, "started", runs[d].enabled)
    /\ Goto(d, "probe")
    /\ UNCHANGED <<enableDiscovery, ceps, seps, comps, updaters, dcalls, faults, lost, missed>>

\* What the remote answers, if it is asked; then discoveryMapRemove, before the end is
\* written.
updateFromRfEndpoint(d) ==
    /\ runs[d].pc = "probe" /\ MapFree(At(d))
    /\ \E found \in BOOLEAN : Goto(d, IF found /\ runs[d].enabled THEN "store" ELSE "report")
    /\ UNCHANGED <<enableDiscovery, tables, updaters, dcalls, faults, lost, missed>>

\* Any status but DiscoverOK and DiscoveryStarted is "failed".
UpdateRFEndpoint(d) ==
    LET e == runs[d].ep IN
    /\ runs[d].pc = "report" /\ ~RowLocked(e)
    /\ UpdateRFEndpointTx(e, "failed", runs[d].enabled)
    /\ Ends(d) /\ lost' = lost \ {e}
    /\ UNCHANGED <<enableDiscovery, ceps, seps, comps, updaters, dcalls, faults, missed>>

\* The first statement of UpdateAllForRFEndpoint locks the row.  If there is none the
\* component endpoints cannot be inserted.
LockRow(d) ==
    LET e == runs[d].ep IN
    /\ runs[d].pc = "store" /\ ~RowLocked(e)
    /\ Goto(d, IF There(e) THEN "row" ELSE "report")
    /\ UNCHANGED <<enableDiscovery, tables, updaters, dcalls, faults, lost, missed>>

\* The others, and the commit.
UpdateAllForRFEndpoint(d) ==
    LET e == runs[d].ep IN
    /\ runs[d].pc = "row" /\ ~KidsLocked(e)
    /\ UpdateRFEndpointTx(e, "ok", runs[d].enabled)
    /\ ceps' = ceps \cup {e} /\ seps' = seps \cup {e} /\ comps' = [comps EXCEPT ![e] = "Up"]
    /\ Ends(d) /\ lost' = lost \ {e} /\ missed' = missed \ {e}
    /\ UNCHANGED <<enableDiscovery, updaters, dcalls, faults>>

-----------------------------------------------------------------------------
(* Threads of an instance                                                  *)

\* Variant: the discovery is not forced.
SyncUnforced(i) ==
    /\ ~enableDiscovery
    /\ \E e \in Eps :
        /\ eps[e].status = "started" /\ ~eps[e].fresh /\ eps[e].enabled /\ e \in Redisc
        /\ \E d \in Runs : /\ At(d) = i /\ runs[d] = Idle
                           /\ runs' = [runs EXCEPT ![d] = [pc |-> "select", ep |-> e, force |-> FALSE, enabled |-> TRUE]]
    /\ UNCHANGED <<enableDiscovery, tables, updaters, dcalls, faults, lost, missed>>

DiscoverySync(i) ==
    /\ ~enableDiscovery
    /\ \E e \in Eps :
        /\ eps[e].status = "started" /\ ~eps[e].fresh /\ eps[e].enabled /\ e \in Redisc
        /\ \E d \in Runs : /\ At(d) = i /\ runs[d] = Idle
                           /\ runs' = [runs EXCEPT ![d] = [pc |-> "select", ep |-> e, force |-> TRUE, enabled |-> TRUE]]
    /\ UNCHANGED <<enableDiscovery, tables, updaters, dcalls, faults, lost, missed>>

\* One endpoint that is gone, and none is updated.
DiscoveryUpdater(i) ==
    /\ ~enableDiscovery /\ MapFree(i)
    /\ InMap(i) # {} /\ \A e \in InMap(i) : There(e)
    /\ updaters' = [updaters EXCEPT ![i] = [e \in InMap(i) |-> eps[e].enabled]]
    /\ UNCHANGED <<enableDiscovery, tables, runs, dcalls, faults, lost, missed>>

UpdaterWrites(i) ==
    /\ ~MapFree(i)
    /\ \A e \in DOMAIN updaters[i] : ~RowLocked(e)
    /\ eps' = [e \in Eps |-> IF e \in DOMAIN updaters[i] /\ There(e) THEN Row("started", updaters[i][e]) ELSE eps[e]]
    /\ updaters' = [updaters EXCEPT ![i] = <<>>]
    /\ UNCHANGED <<enableDiscovery, ceps, seps, comps, runs, dcalls, faults, lost, missed>>

\* Half an hour goes by without an update.
GrowsOld ==
    /\ \E e \in Eps : eps[e].status = "started" /\ eps[e].fresh /\ eps' = [eps EXCEPT ![e].fresh = FALSE]
    /\ UNCHANGED <<enableDiscovery, ceps, seps, comps, runs, updaters, dcalls, faults, lost, missed>>

-----------------------------------------------------------------------------
(* Calls                                                                   *)

\* A call goes on to what comes after its transaction, or answers.
Then(k, pc) == dcalls' = [dcalls EXCEPT ![k] = IF pc = "idle" THEN CallIdle ELSE [@ EXCEPT !.pc = pc, !.held = {}]]

\* PATCH that leaves the endpoint enabled or enables it.
PatchRFEndpointNoDiscInfo ==
    \E e \in Eps, on \in BOOLEAN :
        /\ There(e) /\ ~RowLocked(e) /\ (on \/ ~eps[e].enabled)
        /\ eps' = [eps EXCEPT ![e].enabled = on]
        /\ discoverFromEndpoint(e, on, FALSE)
        /\ UNCHANGED <<enableDiscovery, ceps, seps, comps, updaters, dcalls, faults, lost, missed>>

\* PATCH that disables it; of one that is disabled nothing changes.
doRedfishEndpointPatch(k) ==
    \E e \in dcalls[k].ids :
        /\ dcalls[k].pc = "emptied" /\ dcalls[k].op = "patch" /\ ~RowLocked(e)
        /\ IF eps[e].enabled
           THEN eps' = [eps EXCEPT ![e].enabled = FALSE] /\ SetEmpty(dcalls[k].held)
           ELSE UNCHANGED <<eps, comps>>
        /\ Then(k, "idle")
        /\ UNCHANGED <<enableDiscovery, ceps, seps, runs, updaters, faults, lost, missed>>

\* PUT; a body with an inventory is parsed and then the discovery started.
PutAnswers(k, e, on, call) ==
    \/ dcalls' = [dcalls EXCEPT ![k] = [call EXCEPT !.pc = "comp", !.held = {}]] /\ UNCHANGED runs
    \/ /\ dcalls' = [dcalls EXCEPT ![k] = CallIdle]
       /\ IF enableDiscovery THEN discoverFromEndpoint(e, on, FALSE) ELSE UNCHANGED runs

UpdateRFEndpointNoDiscInfo(k, e, call) ==
    /\ ~RowLocked(e)
    /\ IF There(e)
       THEN /\ eps' = [eps EXCEPT ![e].enabled = call.on]
            /\ SetEmpty(call.held)
            /\ PutAnswers(k, e, call.on, call)
       ELSE /\ dcalls' = [dcalls EXCEPT ![k] = [call EXCEPT !.pc = "insert", !.held = {}]]
            /\ UNCHANGED <<eps, comps, runs>>
    /\ UNCHANGED <<enableDiscovery, ceps, seps, updaters, faults, lost, missed>>

\* One that disables has emptied in a statement before.
doRedfishEndpointPut(k) ==
    \/ \E e \in Eps : /\ dcalls[k] = CallIdle
                      /\ UpdateRFEndpointNoDiscInfo(k, e, [CallIdle EXCEPT !.op = "put", !.ids = {e}, !.on = TRUE])
    \/ \E e \in dcalls[k].ids : /\ dcalls[k].pc = "emptied" /\ dcalls[k].op = "put"
                                /\ UpdateRFEndpointNoDiscInfo(k, e, dcalls[k])

\* An endpoint that was not there is inserted in a second transaction.
InsertRFEndpoint(k) ==
    \E e \in dcalls[k].ids :
        /\ dcalls[k].pc = "insert"
        /\ IF There(e) THEN Then(k, "idle") /\ UNCHANGED <<eps, runs>>
                       ELSE PutAnswers(k, e, dcalls[k].on, dcalls[k]) /\ InsertRFEndpointTx(e, dcalls[k].on)
        /\ UNCHANGED <<enableDiscovery, ceps, seps, comps, updaters, faults, lost, missed>>

\* POST; the discovery is started and then an inventory in the body parsed.
doRedfishEndpointsPost(k) ==
    \E e \in Eps, on, given \in BOOLEAN :
        /\ dcalls[k] = CallIdle
        /\ InsertRFEndpointTx(e, on)
        /\ IF enableDiscovery THEN discoverFromEndpoints(e, on, TRUE, FALSE) ELSE UNCHANGED runs
        /\ dcalls' = [dcalls EXCEPT ![k] = IF given THEN [CallIdle EXCEPT !.pc = "comp", !.op = "post", !.ids = {e}]
                                           ELSE CallIdle]
        /\ UNCHANGED <<enableDiscovery, ceps, seps, comps, updaters, faults, lost, missed>>

\* An inventory in the body: the component is stored, and then the component endpoint
\* if its endpoint is still there.  A PUT ends in starting the discovery.
StoreInventory(k, e, state) ==
    /\ dcalls[k].pc = "comp" /\ ~KidsLocked(e)
    /\ comps' = [comps EXCEPT ![e] = state]
    /\ missed' = IF e \in ceps THEN missed ELSE missed \cup {e}
    /\ Then(k, "cep")
    /\ UNCHANGED <<enableDiscovery, eps, ceps, seps, runs, updaters, faults, lost>>

parseRedfishEndpointData(k)   == \E e \in dcalls[k].ids : StoreInventory(k, e, "Up")
parseRedfishEndpointDataV2(k) == \E e \in dcalls[k].ids : StoreInventory(k, e, "Up")

\* Of a PDU: a component that is there stays as it is.
parsePDUData(k) ==
    \E e \in dcalls[k].ids :
        dcalls[k].op = "post" /\ StoreInventory(k, e, IF comps[e] = "none" THEN "Up" ELSE comps[e])

UpsertCompEndpoint(k) ==
    \E e \in dcalls[k].ids :
        /\ dcalls[k].pc = "cep" /\ ~KidsLocked(e)
        /\ IF There(e) THEN ceps' = ceps \cup {e} /\ missed' = missed \ {e} ELSE UNCHANGED <<ceps, missed>>
        /\ IF dcalls[k].op = "put" /\ enableDiscovery /\ There(e)
           THEN discoverFromEndpoint(e, dcalls[k].on, FALSE) ELSE UNCHANGED runs
        /\ Then(k, "idle")
        /\ UNCHANGED <<enableDiscovery, eps, seps, comps, updaters, faults, lost>>

\* Variant: the endpoints go first.
DeleteThenEmpty(k) ==
    /\ dcalls[k].pc = "emptied" /\ dcalls[k].op = "delete"
    /\ \A e \in dcalls[k].ids : ~RowLocked(e)
    /\ eps' = [e \in Eps |-> IF e \in dcalls[k].ids THEN NoRow ELSE eps[e]]
    /\ ceps' = ceps \ dcalls[k].ids /\ seps' = seps \ dcalls[k].ids
    /\ SetEmpty(dcalls[k].held \cap ceps')
    /\ missed' = missed \cup ((ceps \cap dcalls[k].ids) \ dcalls[k].held)
    /\ Then(k, "idle")
    /\ UNCHANGED <<enableDiscovery, runs, updaters, faults, lost>>

\* Component and service endpoints go with the endpoint.
DeleteRFEndpointByIDSetEmpty(k) ==
    LET ids == {e \in dcalls[k].ids : There(e)} IN
    /\ dcalls[k].pc = "emptied" /\ dcalls[k].op = "delete"
    /\ \A e \in ids : ~RowLocked(e)
    /\ eps' = [e \in Eps |-> IF e \in ids THEN NoRow ELSE eps[e]]
    /\ ceps' = ceps \ ids /\ seps' = seps \ ids
    /\ SetEmpty(ids \cap dcalls[k].held)
    /\ missed' = missed \cup ((ceps \cap ids) \ dcalls[k].held)
    /\ Then(k, "idle")
    /\ UNCHANGED <<enableDiscovery, runs, updaters, faults, lost>>

doRedfishEndpointDelete(k)     == \E e \in Eps : SetChildCompStatesRFEndpointsTx(k, "delete", {e}, FALSE)
doRedfishEndpointsDeleteAll(k) == SetChildCompStatesRFEndpointsTx(k, "delete", Eps, FALSE)
DisablingPatch(k) == \E e \in Eps : SetChildCompStatesRFEndpointsTx(k, "patch", {e}, FALSE)
DisablingPut(k)   == \E e \in Eps : SetChildCompStatesRFEndpointsTx(k, "put", {e}, FALSE)

\* Both statements are about rows that the first one locks.
DeleteCompEndpointsSetEmpty(ids) ==
    /\ ids # {} /\ \A e \in ids : ~KidsLocked(e)
    /\ ceps' = ceps \ ids /\ SetEmpty(ids)
    /\ UNCHANGED <<enableDiscovery, eps, seps, runs, updaters, dcalls, faults, lost, missed>>
doComponentEndpointDelete     == \E e \in ceps : DeleteCompEndpointsSetEmpty({e})
doComponentEndpointsDeleteAll == DeleteCompEndpointsSetEmpty(ceps)

DeleteServiceEndpoints(ids) ==
    /\ ids # {} /\ seps' = seps \ ids
    /\ UNCHANGED <<enableDiscovery, eps, ceps, comps, runs, updaters, dcalls, faults, lost, missed>>
doServiceEndpointDelete     == \E e \in seps : DeleteServiceEndpoints({e})
doServiceEndpointsDeleteAll == DeleteServiceEndpoints(seps)

-----------------------------------------------------------------------------
(* Faults                                                                  *)

\* A call holds component endpoints and wants the row, a discovery the other way
\* round: the database aborts one of them.
Deadlock ==
    \E d \in Runs, k \in DCalls :
        /\ runs[d].pc = "row" /\ runs[d].ep \in dcalls[k].held
        /\ \/ Goto(d, "report") /\ UNCHANGED dcalls
           \/ Then(k, "idle") /\ UNCHANGED runs
        /\ UNCHANGED <<enableDiscovery, tables, updaters, faults, lost, missed>>

Marked == {"probe", "store", "row", "report"}

\* An instance dies, its goroutines with it; what is not committed is rolled back.
Crash(i) ==
    /\ faults < MaxFaults /\ faults' = faults + 1
    /\ runs' = [d \in Runs |-> IF At(d) = i THEN Idle ELSE runs[d]]
    /\ updaters' = [updaters EXCEPT ![i] = <<>>]
    /\ lost' = lost \cup {runs[d].ep : d \in {x \in Runs : At(x) = i /\ runs[x].pc \in Marked}}
    /\ UNCHANGED <<enableDiscovery, tables, dcalls, missed>>

\* The database fails.  The end of a discovery is tried once more, as a failure.
StoreFails(d) ==
    /\ faults < MaxFaults /\ faults' = faults + 1
    /\ \/ runs[d].pc = "row" /\ Goto(d, "report") /\ UNCHANGED lost
       \/ runs[d].pc = "report" /\ Ends(d) /\ lost' = lost \cup {runs[d].ep}
       \/ runs[d].pc = "update" /\ Ends(d) /\ UNCHANGED lost
    /\ UNCHANGED <<enableDiscovery, tables, updaters, dcalls, missed>>

CallFails(k) ==
    /\ faults < MaxFaults /\ faults' = faults + 1
    /\ dcalls[k] # CallIdle /\ Then(k, "idle")
    /\ UNCHANGED <<enableDiscovery, tables, runs, updaters, lost, missed>>

-----------------------------------------------------------------------------
DInit ==
    /\ enableDiscovery \in BOOLEAN
    /\ eps = [e \in Eps |-> NoRow] /\ ceps = {} /\ seps = {}
    /\ comps = [e \in Eps |-> "none"]
    /\ runs = [d \in Runs |-> Idle]
    /\ updaters = [i \in Instances |-> <<>>]
    /\ dcalls = [k \in DCalls |-> CallIdle]
    /\ faults = 0 /\ lost = {} /\ missed = {}

RunStep(d) ==
    \/ SelectForDiscover(d) \/ UpdateRFEndpointForDiscover(d)
    \/ updateFromRfEndpoint(d) \/ UpdateRFEndpoint(d) \/ LockRow(d) \/ UpdateAllForRFEndpoint(d)

CallStep(k) ==
    \/ doRedfishEndpointPatch(k) \/ doRedfishEndpointPut(k) \/ InsertRFEndpoint(k)
    \/ parseRedfishEndpointData(k) \/ parseRedfishEndpointDataV2(k) \/ parsePDUData(k)
    \/ UpsertCompEndpoint(k)
    \/ DeleteRFEndpointByIDSetEmpty(k)

DNext ==
    \/ \E d \in Runs : RunStep(d) \/ StoreFails(d)
    \/ \E k \in DCalls :
        \/ CallStep(k) \/ CallFails(k)
        \/ doRedfishEndpointsPost(k)
        \/ DisablingPatch(k) \/ DisablingPut(k)
        \/ doRedfishEndpointDelete(k) \/ doRedfishEndpointsDeleteAll(k)
    \/ \E i \in Instances : DiscoverySync(i) \/ DiscoveryUpdater(i) \/ UpdaterWrites(i) \/ Crash(i)
    \/ doInventoryDiscoverPost \/ PatchRFEndpointNoDiscInfo
    \/ doComponentEndpointDelete \/ doComponentEndpointsDeleteAll
    \/ doServiceEndpointDelete \/ doServiceEndpointsDeleteAll
    \/ GrowsOld \/ Deadlock

\* Goroutines run, locks of the map and of rows are granted in turn, some instance
\* syncs and time passes.
DFairness ==
    /\ \A d \in Runs : SF_dVars(RunStep(d))
    /\ \A i \in Instances : WF_dVars(UpdaterWrites(i))
    /\ SF_dVars(\E i \in Instances : DiscoverySync(i))
    /\ WF_dVars(GrowsOld) /\ WF_dVars(Deadlock)

DSpec == DInit /\ [][DNext]_dVars /\ DFairness

-----------------------------------------------------------------------------
(* Properties                                                              *)

\* An endpoint is marked as started only while a discovery of it is in progress, unless
\* one has died or failed to write its end: the updater, which writes again what it has
\* read, never does so after the end of the last one (discover.go:282, main.go:508).
StartedHasReason ==
    \A e \in Eps : eps[e].status = "started" =>
        e \in lost \/ \E d \in Runs : runs[d].ep = e /\ runs[d].pc \in Marked

\* A component that is not Empty has its component endpoint: none is left behind when
\* endpoints are deleted while discoveries store them, except by a delete that found no
\* component endpoint yet (hmsds-postgres.go:2404-2480).  A component or service
\* endpoint has its Redfish endpoint.
UpHasEndpoint ==
    \A e \in Eps : /\ comps[e] = "Up" => e \in ceps \cup missed
                   /\ e \in ceps \cup seps => There(e)

\* A discovery that has died is taken over: an endpoint does not stay marked as started
\* for ever while it is enabled and may be rediscovered, if the sync thread runs
\* (main.go:457-492).
OrphansPickedUp ==
    ~enableDiscovery =>
        \A e \in Redisc : []<>(eps[e].status # "started" \/ ~eps[e].enabled)

\* A discovery writes what it has found: "Update discovery-writable fields for
\* RedfishEndpoint" (hmsds-postgres.go:3352).
DiscoveryLeavesEnabled ==
    [][(\E d \in Runs : RunStep(d)) =>
         \A e \in Eps : There(e) /\ eps'[e] # NoRow => eps'[e].enabled = eps[e].enabled]_dVars

=============================================================================
