# TLA+ models of the Hardware State Manager (smd)

smd keeps the state of the hardware of a cluster: components and their state,
the Redfish endpoints they are discovered from, inventory, groups, locks and
reservations, and subscriptions to state changes.  It is an HTTP server over
PostgreSQL, run in several instances that share only the database; other
services link its `service-reservations` client library.  This directory holds
TLA+ models of the parts in which several actors meet, TLC configurations that
check them on small instances, and TLAPS proofs of the properties that can be
proved for every instance.

Paths below are relative to the repository's root (`src/` in `PROJECT.json`).

## 1. The system

### Components, their state and their operations

| Component | State | Operations | Where |
|---|---|---|---|
| Locks and reservations | flags `locked`, `reservation_disabled` of component rows; table `reservations` | create, release, remove, renew, check; lock, unlock, disable, repair, status; clean-up thread | `internal/hmsds/hmsds-postgres.go` 4245-5010, `hmsds-tx-postgres.go` 5185-5600, `pkg/sm/complocks.go` |
| Reservation client | `reservedMap`, the calls in progress | Aquire, FlexAquire, Release, FlexRelease, Reacquire, Check, Status; renewal goroutine | `pkg/service-reservations/interface.go` |
| Jobs and state Redfish polling | tables `job`, `job_state_rf_poll`; `jobList`, `srfpJobList` of an instance; goroutines | start, cancel, poll, keep-alive, JobSync | `cmd/smd/state-change.go` 320-607, `main.go` 380-445 |
| Component state | state, flag, enabled, software status, role, NID, class of component rows | POST, PUT, PATCH (single and bulk), DELETE; notifications queued | `cmd/smd/state-change.go`, `smd-api.go` 560-1500, `hmsds-postgres.go` 480-1100, `query-shared.go` |
| Notifications | subscription table; `scnSubs`, `scnSubMap` of an instance | subscribe, patch, unsubscribe, refresh every 30 s; `JobSCN` | `cmd/smd/main.go` 160-378, `job-types.go` |
| Redfish endpoints and discovery | endpoint, component endpoint and service endpoint rows; `discMap` of an instance | the calls on all three, discover, store results, DiscoverySync, DiscoveryUpdater | `cmd/smd/discover.go`, `main.go` 447-560, `hmsds-postgres.go` 2250-2990, 3340-3640 |
| Walk through Redfish | the resources of one endpoint, in memory | get root, phases 1 and 2, ordinals, types, xnames, MAC address | `pkg/redfish/rfendpoints.go`, `rfcomponents.go`, `discover.go` |
| Node maps and power maps | `node_nid_mapping`, `power_mapping` | POST, PUT, DELETE; role, NID and class of what is discovered | `cmd/smd/components.go`, `hmsds-postgres.go` |
| Redfish events | component endpoint cache, message bus connection | workers of `wpRFEvent`, cache sync, reconnect | `cmd/smd/rfevent.go`, `rfevent-monitor.go`, `msgbus.go` |
| Ethernet interfaces | rows with a JSON list of addresses | create, patch, replace; add, change and remove an address | `hmsds-postgres.go` 2990-3400 |
| Groups and partitions | groups, members, namespaces | create, patch, delete; add, remove, replace members; membership queries | `hmsds-postgres.go` 3640-4240 |
| Inventory and history | locations, FRUs, history events | POST, discovery and events store, history generation, deletions, queries | `discover.go` 640-910, `hmsds-postgres.go`, `pkg/sm/hwinv.go`, `query-shared-sq.go` |

The HTTP layer, authentication, the text of queries, the SLS and HBTD clients,
migrations and loaders keep no state that several actors compete for.

### How they interact

* Handlers call the database layer; a call is one transaction at PostgreSQL's
  default level, READ COMMITTED, of one or several statements.
* A state update commits first; the handler then starts or cancels polling jobs
  and queues notifications to a worker pool.  Between the two, other handlers,
  goroutines and instances run.
* Instances see each other only through rows: a job's `last_update` and
  `lifetime`, an endpoint's `LastAttempt`, a subscription's row.
* The client library shares one map between the application's goroutine and the
  renewal goroutine, and speaks HTTP with retries and a 40 s context.

### What is hard

Statements of two calls interleave; a row that was checked has changed when it
is written; answers are late, repeated or lost; instances die between two
steps; clean-up threads and holders race about what has expired; local lists
and maps disagree with the database.  `PROJECT.json` lists these hazards one by
one at their lines.

### What makes each component correct

* Locks: a reserved component exists, takes reservations and is locked exactly
  when its reservation never expires; a rigid call is all or nothing; nobody
  takes over a reservation; what has expired goes away; calls end.
* Client: an entry that has not expired is backed by the server, so two holders
  exclude each other; what is held is renewed in time; nothing good is forgotten.
* Polling: one job at most polls a node; the list of an instance is right; jobs
  end with Standby; jobs of dead instances are taken over.
* Notifications: the URLs to notify are those of the subscriptions, through any
  sequence of calls; the copies of all instances converge to the table; a job
  tells each subscriber once.
* Component state: a state changes along the table of start states, from a state
  that the component has had since the call read, or by force; when all is quiet
  subscribers have been told the truth.
* Discovery: an endpoint is marked as started only while it is being discovered;
  what a dead instance leaves is taken over; a component that is not Empty has its
  component endpoint; a discovery writes nothing back that a user has changed.
* The walk: two resources do not share an xname, and keep theirs; a discovery that
  ends well has read everything.
* Node maps: role and sub-role come from one source; no NID is mapped twice; only a
  race with the discovery of its chassis makes a Mountain node River.
* Events: what the table has is found; HSM settles on the power the hardware has.
* Ethernet interfaces: an address goes only when asked for.  Groups: a component is
  in one partition and one group of an exclusive set at most; a PUT replaces.
* Inventory: the last event of a location tells what is in it; queries list each part
  once.

## 2. The modules

| Module | Models | Uses |
|---|---|---|
| `CompLocks` | the lock and reservation calls, each atomic | |
| `CompLocksTx` | the same calls as transactions that interleave | `CompLocks` |
| `ServiceReservations` | the client library and the network, against the server | `CompLocks` |
| `StateRFPoll` | polling jobs, JobSync, several instances | |
| `SCNSubscriptions` | subscriptions to state changes: table, copy, lists of URLs, `JobSCN` | |
| `CompUpdates` | what updates of states promise (abstract) | |
| `CompState` | the calls on components and the notifications they queue | implements `CompUpdates` |
| `NodeMaps` | node and power maps, and role, NID and class of what is discovered | |
| `Discovery` | endpoints, discoveries, updater and sync thread of several instances | |
| `RFEvents` | Redfish events, their workers and the cache | |
| `RedfishTree` | the walk through the resources of an endpoint | |
| `Groups` | groups, partitions and members | |
| `CompEthInterfaces` | Ethernet interfaces and their addresses | |
| `HWInventory` | locations, FRUs and history | |
| `...Proofs` | theorems | the model of that name; `CompLocksProofs` also `CompLocksTx`, `RecordsProofs` is about `HWInventory`, `CompEthInterfaces` and `Groups`, `MapsEventsProofs` about `NodeMaps` and `RFEvents` |
| `MC...` | instances for TLC | see below |

`MCCompState` is an instance of `CompState`, `NodeMaps`, `RFEvents` and (through
`MCRedfishTree`, the hardware) `RedfishTree`; `MCRecords` is one of `Groups`,
`CompEthInterfaces` and `HWInventory`.  These modules share no variable
(they are about different tables), so a behaviour is about one of them, chosen by
`part`, and the product of their states is not explored.  Where the components do
meet, one module has both: state updates and polling jobs in `StateRFPoll`, discovery
and events in `RFEvents`, discovery and maps in `NodeMaps`, endpoints, component
endpoints and components in `Discovery`, the client and the server in
`ServiceReservations`.

A definition whose comment says *Variant* is a form a defect could have taken
(a guard dropped, a comparison changed).  No specification uses it; it is there
to show that the properties can tell it from the code.

### CompLocks

`present`, `locked`, `disabled` are the component rows and their two flags;
`resv[c]` is the reservation row of `c`, `NoResv` if there is none, with the
generation of its key and its expiration (0 for NULL).  The random part of a
key is fresh for every inserted row; a generation stands for it, and a key is
`<<component, generation>>`.  `now` is the database's clock in ticks.

| Action | Code |
|---|---|
| `InsertCompReservations` | `InsertCompReservations`, `insertCompReservationsHelper`, `InsertCompReservationsTx` |
| `DeleteCompReservations`, `...Force` | `deleteCompReservationsHelper` and its two callers |
| `UpdateCompReservations` | renewal |
| `Lock`, `Disable`, `Repair` | `UpdateCompLocksV2` with its four actions |
| `DeleteCompReservationsExpired` | the statement of the clean-up thread |
| `InsertComponent`, `DeleteComponents` | rows that come and go; the foreign key cascades |

A call that changes nothing (an error, an empty filter) is a stuttering step.
A filter is the set `S` of components it selects; rows that do not exist are
not selected, so a rigid call that names a missing component succeeds for the
others.  That is what the code does; `api/swagger_v2.yaml:1659` can be read
otherwise, and the model follows the code.

`RelaxedSpec` is `CompLocks` with two more steps, the two ways in which
overlapping calls deviate from it (see below).

### CompLocksTx

`tx[t]` is a call in progress: the statement that ran last, the rows it holds
and what it has read.  A statement that writes or locks rows has the guard that
no other transaction holds them (`RowsFree`, `ResvFree`); one that only reads
does not, except the `SELECT ... FOR UPDATE` of the create call.  Uncommitted
deletions (`swept`) are seen by nobody else.  The last statement and the commit
are one step, as the rows it writes are locked in between.  `DeadlockVictim` is
PostgreSQL's resolution of a cycle of waits, `ConnectionLost` any failure; both
roll back.  Calls of a single statement are the atomic actions of `CompLocks`
behind the same row guards.

### ServiceReservations

Each client has two threads, `app` and `loop`, each with at most one call in
progress: sent, executed (`replied`), then applied to `map` as it is at that
moment.  `Applied` is what the code does with the answer; it finds entries by
xname, as the code does.  `Retry` repeats a request whose answer was lost,
`TimeOut` gives up and may leave the request under way in `late`, `Arrive`
executes it, `Restart` loses the map and keeps what the application had saved
for `Reacquire`.  `revoked` is history: keys that were released, or removed by
an administrator, about which nothing is promised.  With `Prompt`, calls and a
renewal round fit between two ticks, which is the design's assumption (a round
every 10 s, renewal 30 s before the end).

The library reads and ranges over the map in places without its mutex; the
model gives those accesses the atomicity of the others, so a data race in the
sense of the Go memory model is outside it.

### StateRFPoll

`state` are the components; `jobs[c]` is the job row for `c` (id, complete,
fresh); `list[i]` is `srfpJobList` of instance `i`; `poll[id]` are the two
goroutines of a job; `todo` are the follow-ups of committed updates that have
not run yet; `sync[i]` is where JobSync of `i` is.  Ids are UUIDs in the code
and numbers here.  Time is not counted: a row whose keep-alive goroutine runs
stays fresh unless `Misses` allows a keep-alive to come late, and any other row
may become stale.  `Update` uses the table of valid start states (from the
external hms-base library) for unforced updates; `Discover` is everything that
changes a state without telling polling.

### SCNSubscriptions

One instance.  `db` is the table; `list` is `scnSubs`, `map` is `scnSubMap`: for
each trigger the URLs to notify, with the number of subscriptions that share
them.  A call is handled `here`, and then changes all three under `scnSubLock`,
or by another instance, and then changes the table only.
`SCNSubscriptionRefresh` builds copy and lists anew; the rows come in any order,
as the query has no ORDER BY.  `stuck` says that a handler has panicked with the
lock held: nothing that needs the lock happens any more until `Restart`.

`job` is a `JobSCN` that walks through a list without the lock.  Its slice shares
an array with the list until an append moves the list or a refresh replaces it;
`Edit` shows it what a call does to that array.  `calm` is history: no URL has been
taken off the array since the job began.  The lists of different triggers are
separate, so one job is enough.  A handler's edit is one step for the job; that Go
may abort the process when the job reads the table of lists while a handler
writes it is covered by `Restart`.

A PUT at an instance updates of its copy the states only (`smd-api.go:4451`), while
the lists get the whole new subscription (`forgot`).  Every further PUT then adds
to the counts until the refresh; the model allows one such PUT between two
refreshes.  Left out: the Enabled trigger (a PATCH cannot add it to a subscription
created without it), sub-roles and software states, which are treated like
roles, and the three tries of one POST.

### CompState and CompUpdates

`db` is the components table, `call[k]` is what handler `k` is doing: between a read and
the write it decides on (`write`, `upsert`), or between the commit and the notifications
(`tell`).  `componentPatch` are the single updates, one `UPDATE` each; `compBulkPatch`
selects ids and `BulkWrite` updates them by id alone; `doCompBulkNIDPatch` is one
statement for each component in one transaction; `UpsertRead` and `UpsertWrite` are
POST and PUT (`UpsertComponents`); `QueueSCN` is what follows the commit; `Crash` ends
all calls between two steps.  A behaviour has one *mix* of requests, so that requests
that do not interact are not multiplied.  `told`, `blurred`, `since` and `forced` are
history.  The transition table is `ValidStartStates`, from the external hms-base
library and the code's use of it.

`CompUpdates` has four kinds of steps: a call that is one statement (`Direct`), one that
reads (`Read`) and later writes (`Write`), and one that ends without (`Abandon`).
`since[k]` collects the states a component has had since `k` read, and a `Write` without
force must be allowed from one of them.  `CompState` implements it with `st` as the column
`state` of `db`: this is what is left of the table when the read of a bulk update does
not lock its rows.

### NodeMaps

`found[c]` is the discovery of a node or controller between its look-ups: role, sub-role
and NID (`DiscoverComponentSystem`: SLS, then the node map, then defaults), class
(`LookUpClass`: is the endpoint of the chassis there?), and `StoreDiscovered`.
`DiscoverComponentChassis` lists what is stored as River and `UpdateClassOfChassis` turns it
into Mountain.  `race` is history.  `GetBogusNID` is modelled with its arithmetic.

### Discovery

A discovery `d` is a goroutine of instance `At(d)`: it takes the endpoint into `discMap`,
marks the row as started, asks the remote controller, and stores in one transaction
whose statements take row locks one after the other.  `UpdateRFEndpointTx` writes the whole
row as it was read in the beginning.  `DiscoveryUpdater` reads the map and the rows,
`UpdaterWrites` marks them again; `GrowsOld` is time passing for a mark that nobody
renews; `DiscoverySync` takes over what is old.  The calls create, change, disable and
delete endpoints in transactions of their own; `CallFails` and `StoreFails` are errors of the
database, `Crash` ends the goroutines of an instance, `Deadlock` is PostgreSQL's choice of
a victim between a store and a call that take their locks in opposite orders.  `lost` and
`missed` are history.

### RFEvents

`power` is the hardware, `hsm` the states in HSM.  Events go through `topic` to workers;
a worker looks its component up in the cache `smapCompEP` (`Look`), checks whether a sync
has happened since (`checkSyncCompEP`), syncs, looks again, and updates.  The event of a
slot also concerns the controllers, nodes or routers in it.  `MsgBusReadFails` loses
the connection, `MsgBusReconnect` replaces it or, as the code returns nil when a
disconnect fails, leaves none.  A discovery reads the power at one moment and stores
it at another.  `latest`, `unsure` and `missed` are history: `unsure` collects the
components whose state HSM cannot know.

### RedfishTree

Resources are named by the path of their URL and xnames are sequences of steps.
`StartRun` fixes the circumstances of a discovery: which requests fail, are answered 404
(*dead*) or with JSON of another shape (*garbled*), and whether lists come and maps are
ranged over in one order or the reverse.  `doDiscovery` computes what the code makes of
that: which collections are read and what a failure does to the rest, ordinals, types
and xnames of each resource, and the MAC address of the manager.  The result of two
discoveries of the same hardware can then be compared.

### Groups, CompEthInterfaces, HWInventory

`Groups`: a group or partition has an internal id; member rows carry component, id and
namespace, and the two uniqueness rules of the schema are `Clash`.  A call looks the group
up and changes members in later statements of one transaction (`tx[k]`), which sees rows
that others commit meanwhile (`fresh`); rows that a transaction is deleting (`Held`) make
others wait, and `AbortDeadlock` resolves cycles.  `doGroupsGet`, `doMembershipsGet` and the
other reads are operators.

`CompEthInterfaces`: `AddCompEthInterfaceIPAddress` and its kin read the row in one step and
write the whole list in another; `InsertCompEthInterfacesCompInfo` is what discovery
stores.  `HWInventory`: a call stores locations and FRUs, then reads the last events
(`GenerateHWInvHist`), then inserts new ones (`InsertHWInvHists`), three transactions that
may each be the last (`HistoryFails`).  `owes` is history: what has still to be told.
`doHWInvByLocationQueryGet` is the query with its nesting (`NewSystemHWInventory`),
`DiscoverHWInvByLocArray` the renaming of nodes that report one FRU.

## 3. The runs

All bounds are constants of the configurations.

| Run | Question | Bounds, and why they are enough |
|---|---|---|
| `locks` | Do the lock rules survive every sequence of calls?  Is what has expired reaped? | 2 components (a call can match one row and miss the other), 3 ticks and durations 1, 2 (rows that expire at different times), 3 keys (an old key, a current one, a next one) |
| `locks_tx` | Which rules survive overlapping calls?  Do they implement `RelaxedSpec`? | 2 calls, 2 components, 2 keys; no ticks, as the clock is compared by the clean-up only |
| `locks_tx_live` | Does every call end, deadlocks included? | 2 calls on one component, one tick; the cycle needs two calls only |
| `locks_tx_lock_race` | The rule that overlapping lock calls break | as `locks_tx` with a tick; violation |
| `client_lossy` | Is an unexpired entry backed and exclusive, with lost, late and repeated messages? | 2 clients and one component, 2 keys, one abandoned request |
| `client_prompt` | Does the renewal loop keep up? | one client, 2 components (one fails when the other succeeds), rigid and flexible, restarts; term 3, window 2 |
| `rfpoll` | One poller, a right list, jobs that end and are taken over | 2 instances, 1 node (nodes share only the instances' mutex), 2 jobs, 1 crash |
| `scn` | Are the counts right?  Does a job tell everyone once?  Does the copy converge? | 2 subscriptions, 2 subscribers that share a URL and a second URL of one of them (so that lists have counts above one and an order), 1 trigger, as the lists of different triggers do not touch |
| `comp_state` | Do overlapping calls keep to the table and tell the truth (`CompState`)?  Where do role and class come from (`NodeMaps`)?  Is every event's component found, and does HSM settle (`RFEvents`)?  Does the walk name and read everything (`RedfishTree`)? | 2 components, 2 handlers and 9 mixes of requests (calls meet in pairs); 1 node, its controller and another mapped node; hardware with a chassis, slots, nodes, a router or a PDU of which there are 2 to 4, 2 events, 2 workers, 3 events, fittings, calls and faults together; 7 endpoints of RedfishTree, each as large as its case needs, 2 discoveries of one, a fault in one request of them |
| `records` | Are groups exclusive, and PUTs complete?  Are addresses lost?  Does the history tell what is there, and do queries list it once? | 2 components, 3 ids (a group that is made again gets a new one), 2 handlers; 1 interface, 3 lists of up to 2 addresses; 3 nodes and a part of one, 2 events for a node and 1 for the part |
| `discovery` | Who leaves an endpoint marked, what outlives its endpoint, is what was left taken over? | 1 endpoint (endpoints share only the map's mutex), 2 instances, either 2 discoveries, 1 call and 1 crash or database error, or 1 discovery and 2 calls |
| `discovery_rewrites` | Does a discovery leave alone what a user has changed? | as `discovery`; violation |

`CHECK_DEADLOCK FALSE` is in the client's configurations (when the clock and the keys have
reached their bounds and every message has been dealt with, nothing may be left to do),
in `comp_state` (a walk that has had its two discoveries, or hardware that has sent its
events) and in the violation run `locks_tx_lock_race`.  The real system goes on there.  In the
other runs some call is always possible, and deadlock is checked.

The type invariants of `MCCompState` and `MCRecords` (`PartsTypeOK`, `RecordsTypeOK`) are
conjunctions of those of the modules.  `CompLocks` has its `TypeOK` proved
(`TypeCorrect`), for every instance.

Symmetry is used for handlers, workers, clients, transactions, components and internal
ids where they are alike, in runs without liveness properties only.

### What the violations show

* `ReservationMatchesLock` (`locks_tx_lock_race`): lock and unlock check for reservations
  and then update by id.  A reservation created in between survives: a service reservation
  on a locked component (`hmsds-postgres.go:4857`; the comment at 4826 excludes it).
* `DiscoveryLeavesEnabled` (`discovery_rewrites`): the end of a discovery, or the updater,
  writes every column of the endpoint as it was read, so a PATCH that disabled it
  meanwhile is undone (`hmsds-tx-postgres.go:2866`; the comment at `hmsds-postgres.go:3352`
  speaks of discovery-writable fields).

### Found on the way

Behaviours of the code that the models have (their properties name them as exceptions) or
that were met in reading it.  They are no runs.

Locks, client, polling, subscriptions:

* A renewal does not ask whether the reservation has expired, so until the clean-up comes
  round its holder can renew it, against `docs/locking/developer_design_notes.md:192`.
  Nobody else can hold the component meanwhile (`HeldAsGranted`).
* A reservation created between the two statements of a disable call
  (`hmsds-postgres.go:4741`, 4753) stays on the disabled component (`DisableUnchecked`).
* The client library deletes and updates entries by xname when an answer comes, without
  comparing keys (`interface.go:259`, 921): an entry that the application has replaced in
  the meantime is forgotten.
* One failed keep-alive, and the row of a running job expires; JobSync of the same
  instance remakes the job, and nothing knows the first one any more
  (`state-change.go:378`, 568; `Misses`).
* A PATCH that removes the last trigger of a subscription and lists it twice panics with
  `scnSubLock` held (`smd-api.go:4638`); `middleware.Recoverer` answers 500, and no call and no
  refresh of this instance gets on until it restarts (`Twice`).

Component state, maps:

* A forced POST that races a PATCH can write the old state back without a notification.
* A POST with two entries for one id stores the first and tells of both.
* A bulk update of roles without a sub-role leaves the sub-role of components that have the
  role already; the single update clears it.
* Early returns of the bulk update, and of `UpdateRFEndpointForDiscover`, leave a transaction
  open (`hmsds-postgres.go:715`, 2319); the pool has 70 connections.
* A POST of node maps that exchanges two NIDs is refused, as rows are written one by one.

Discovery, events, the walk:

* `SetChildCompStatesRFEndpointsTx` locks two of the three tables its comment names, and
  in another order than `UpdateAllForRFEndpoint`: the two can deadlock.
* A DELETE that finds no component endpoint yet, while the first discovery commits,
  leaves a component that is not Empty without its endpoint (`missed`).
* Two unforced discoveries can both start, against the comment at `discover.go:66`.  An
  orphan that is disabled or is not rediscovered on update is never taken over.
* `DiscoverySync` and `DiscoveryUpdater` are started only when discovery is *disabled*
  (`cmd/smd/main.go:1066`).
* Events of one component can be applied in another order than they were sent; an Off of a
  slot is applied to what has been fitted and discovered in it since, and overwrites its
  newer On (`rfevent.go:544`: the children are looked up when the event is handled); the list
  of a slot's children in the cache may be old; events from unknown URIs cause a full
  sync each, against the comments at `rfevent.go:1247` and 1272.
* `MsgBusReconnect` returns no error when the disconnect fails and leaves a nil handle,
  which the next read dereferences (`msgbus.go:145`).
* Processors get their ordinals in the order of a Go map (`rfendpoints.go:1471`), and
  accelerators, counted with the GPUs, are named with the CPUs, whose xnames they can get.
  Several managers, and several boxes of a rack-mounted server, get one xname.
* Storage groups and drives are numbered by their names where these are numbers, and by their
  place in the list otherwise (`rfendpoints.go:1496`, 1508): the drives of a group "1" and of the
  second group of the list, "DA1", get one xname, and one of them is not stored
  (`NumberedUnalike`).
* A dead link shifts the ordinals of the rest of its list.  A child collection that
  cannot be decoded is empty, and the discovery ends with DiscoverOK all the same.

Records:

* Two additions to the addresses of an interface lose one; a PATCH of an address without
  a network wipes the list (`hmsds-postgres.go:3200`).
* Two PUTs of a group's members can leave the union of both.
* A query of the inventory by type and with children, for a location that has none of the
  type, answers with everything (`query-shared-sq.go:1386`, comment at 1265).
* A FRU that moves has no Removed event at its old location, against the comment at
  `discover.go:858`.

## 4. Fairness

* `CompLocks!FairSpec`: only the clean-up thread, which loops for ever
  (`CompReservationCleanup`), is fair.  No client is obliged to call.
* `CompLocksTx!TxFairSpec`: a call that has begun runs on.  Strong fairness of
  `Continue(t)`: PostgreSQL grants row locks in the order of the requests, so a
  transaction whose rows become free again and again gets them at last.  The
  server aborts one transaction of every cycle (weak fairness of `DeadlockVictim`).
* `StateRFPoll!FairSpec`: goroutines run on, tickers tick, rows expire unless
  kept alive, an instance's follow-ups and JobSync run, a crashed instance is
  restarted by its orchestrator.  A signal on a channel that stays ready is taken
  in the end, because `select` chooses at random among what is ready: hence strong
  fairness of `PollStops` and `KeepAliveStops`.  Nothing is assumed of Redfish, of
  updates or of crashes.
* `SCNSubscriptions!FairSpec`: the refresh thread loops for ever.  `scnSubLock` is
  held for one call or one refresh at a time and Go's mutex hands it to a waiter
  that has waited long, so weak fairness of the refresh is enough.

* `Discovery!DFairness`: strong fairness of each discovery's next step (the map's mutex
  and row locks are granted in turn, and a goroutine that is ready runs), weak fairness of
  the updater's write, strong fairness of "some instance syncs" (each has a thread that
  loops, and crashes are bounded; which instance does it does not matter), of `GrowsOld` (time
  passes) and of `Deadlock` (the database resolves a cycle).  Nothing is assumed of
  calls, of the remote controller or of crashes.

No other specification states fairness: the properties of the other modules are safety
properties.

## 5. Proofs

`CompLocksProofs` proves for every finite set of components, all durations and
all bounds (`CompsAssumption`, `DurationAssumption`, `BoundAssumption`):

* `TypeCorrect` and `LockAgreementHolds`.  The inductive invariant is
  `IInv == TypeOK /\ LockAgreement`; nothing has to be added, since each atomic
  call looks at the reservations before it touches a flag.  `TypeOK` is needed
  for `NoResv` to be the only row without a generation, and for arithmetic on
  expirations.  There is one lemma for each action (`InsertKeeps`, `RenewKeeps`,
  `LockKeeps`, ...), and `DropKeeps` for the four calls that only remove.
* `HeldAsGrantedHolds`, from `NextKeepsReservations`: a step keeps a reservation, ends it, or
  renews one that expires.
* For calls that overlap (`TxsAssumption`: finitely many at a time): `TxImplementsRelaxed`,
  `CreationRespectsFlagsHolds` and `RigidCreateAllOrNothingHolds`.  The invariant is `TxInv`: `TableOK`
  (`TypeOK` and `Housed`, the foreign key, without which a forced removal could delete
  what no call of `CompLocks` would), `CallsOK`, and `KeysLeft`, which is about the bound
  `MaxGen` only.  `CallsOK` says what a create knows between its SELECT and its INSERT: its rows
  are there and as it wants them, since it holds them.  `Untouched` carries that through the
  steps of others: each changes only rows that no transaction holds.  Of the other calls
  nothing is known between two statements, and that is why their steps need `Unchecked`.

`StateRFPollProofs` proves for all nodes, instances and bounds:

* `ListedIsPollingHolds`, with the inductive invariant `ListInv`: the shape of the
  variables and the property itself.  It needs neither the rows nor the timing, so
  it holds with late keep-alives and any number of crashes.
* `OneLivePollerHolds`, under `~Misses`.  Two live jobs for one node are excluded
  by `Backed`: a live job is listed by its instance *and* owns the node's row
  (`LiveBacked`), a row with running goroutines is fresh (`RowsFresh`), and JobSync
  only works on rows of dead jobs (`SyncsDead`).  The last two are what keeps
  JobSync from remaking a job that still runs; with `Misses` the theorem is false.

`MapsEventsProofs`, of `NodeMaps` (`MapsAssumption`, `SLSAssumption`):

* `MapsTypeCorrect`, `RolesTogetherHolds`, `RiverByRaceOnlyHolds` with `MapsInv`: `Shape`, `PowerOK`,
  distinct NIDs, `RolesInv` (every role held anywhere came with its sub-role from one
  source) and `RiverInv`, which follows the phases of the race: before the listing nothing
  is known, after it what is River is listed or has raced, after the update it has raced.
* `BogusNIDsDistinct`: the arithmetic of `GetBogusNID` is injective within the limits of its
  multipliers.

and of `RFEvents` (`EndpointsAssumption`: endpoints are controllers whose events have a parser;
`FitsAssumption`: what is fitted has its controller; `SlotsAssumption`: what is in a slot of
compute modules is cards and nodes), for any number of workers and events:

* `KnownIsFoundHolds` and `RETypeOKHolds`, with `EventsInv`.  A sync is given up if somebody else has
  synced since the number was read, and that sync may have read the table before the
  component was there.  `SeenKept` says why two attempts are enough: in the second the number
  is read after the component was seen, so whoever has changed it since has put the
  component into the cache (`MustFind`: the lookup either has that sync behind it or the
  number has changed).  A delete takes from the table what it takes from what lookups have
  seen, and never from the cache.  `TopicSound` and `HasOp` follow an alert without a power
  until Redfish has been asked for it.
* `SettlesOnPowerHolds`, with `SettleInv` beside it.  Where HSM shows a wrong state of a component and is
  not `unsure` of it, an event about it is still in the topic or with a worker (`Pending`,
  `StatesTold`).  The last event about a component has the power that it still has (`EventsTold`),
  a worker has collected what it updates from its slot or says what it missed, and what a discovery has read is still so of
  what has sent nothing since (`ReadingsTold`), so storing it can undo no later event that
  `unsure` does not name.

`CompStateProofs` (`RequestsAssumption`): `UpdatesPromiseHolds`, `CompState` implements `CompUpdates` under
the refinement mapping.  The invariant `StateInv` says that rows and calls have their
shape, and of each call between read and write why it may write: `Decided` (a bulk update
of states is forced, or allowed from a state in `since`), `Inserts` (an unforced upsert
writes only what was absent when it read).  There is one lemma for each action: it is a
`Direct`, `Read`, `Write` or `Abandon` step, or a stuttering one, and keeps `StateInv`.
`QuietTellsTruthHolds`, with `TruthInv` beside it: of a component that is not `blurred`, each SCN
still to be queued is true of its row, and each column that no such SCN is about has been
told (`CompTold`); a call between its read and its write is still right about it (`WriteOK`,
`UpsertOK`), since a commit of another call would have blurred it.  `CommitsTruth` reduces a
commit to what it must be about each component it touches: `Honest`, the columns it changes
are those it tells.  That a state asked for is one (`VerifyNormalizeState`,
comps.go:120, hmsds-postgres.go:713) is part of `RequestsAssumption`: no update may turn a row
into none.

`ServiceReservationsProofs` (`TermAssumption`: the term is a natural number), for all clients,
components, terms and windows, whatever is lost, late, repeated or restarted:
`UnexpiredEntryIsBackedHolds` and `MutualExclusionHolds`.  The properties speak of `reservedMap` only,
and an answer gets into it after the table has changed and the map too, found by xname
alone.  So the invariant `SRInv` is about every value a client has, in its map, its saved
keys, its requests and the answers it has not yet read: each `Fits` (backed while unexpired and
not revoked, never of a newer generation than the table's), a client learns generations
in the order in which they are given out (`Ordered`: what it has saved is the oldest, what the
application is about to get the newest, and a check's answer for an older one ends no later than
the newer), and no generation is known to two clients (`Apart`).  `Moves` is what a step of
the server may do to a row; `FitsKept` follows from it for whoever has the value.
`HeldDoesNotExpireHolds` is about timing and has a hypothesis, `InTime`: nothing is lost, calls and
a round of the renewal fit between two ticks, and window and term are longer than a tick.
Without it the property is false: a renewal that is late or lost loses the reservation.
Its invariant `HoldInv`, beside `SRInv`, says that a client knows of its row no later expiration than
the row has (`Outlasted`, so the renewal is never skipped for a row about to expire) and that
after a round of the loop what is held outlasts the next tick or its renewal is on the way
(`HeldLasts`).

`SCNSubscriptionsProofs` (`MaxSubsAssumption`), for all subscribers, URLs, triggers and numbers of subscriptions:

* `MapMatchesListHolds`.  The property counts subscriptions: the count of a URL in the list of a trigger
  is the cardinality of the rows that have both.  `PutOnMatches` and `TakeOffMatches` say what adding and
  removing one row's triggers does to it; each call is one of them, or one after the other
  (`PUT` and a replacing `PATCH`).  The refresh adds row after row: `BuiltMatches` is an induction
  over the order in which the query returns them, of what is built from the first k.  The
  invariant, `SubsInv`, adds that a URL is in a list once (`UrlList`), that rows with an id to come
  are empty, and what is said of the job.
* `CalmJobTellsAllHolds`, with the same invariant.  `Undisturbed` says of a calm job that what it has told
  is the beginning of what it sees, and, while it shares the array with the list, that what it
  sees is the beginning of the list.  An edit takes URLs off and then appends: `Thinned` and
  `Extends` are what it may do to a list, and only the first can spoil the job.
* `RefreshSyncs` and `SyncLasts`: a refresh makes copy and lists agree with the table, and no step keeps
  them from agreeing unless it changes the table or is a restart.  Together this is `Converges`
  but for its fairness: that the refresh takes place.

`DiscoveryProofs`, without assumptions, for all endpoints, instances, discoveries and calls, and
any number of faults: `StartedHasReasonHolds` and `UpHasEndpointHolds`, with `DInv`.  Beside the
shape of the rows it says that what an updater has read is in its instance's `discMap`
(`UpdatersOK`: its mutex makes the end of a discovery wait for the updater, so no late write
marks the endpoint again), and that the row which a storing discovery has locked is there
(`RowsHeld`: a delete waits for it, so nothing is stored under an endpoint that is gone).
`RunMoves` is about the steps of one discovery, `CallKeeps` about those of calls, which may
start one but end none.

`RecordsProofs`, of `HWInventory` and `CompEthInterfaces`, for all locations, FRUs, interfaces, lists and callers:

* `HistoryTellsHolds`, `NewsIsNewHolds` and `HwTypeOKHolds` (`MaxHistAssumption`; `HwCallersAssumption`: the
  marks of `owes` are no callers), with `HwInv`.  What a location has and what its history says
  are written in two transactions, and the second trusts what was read before the first.
  `owes` names the call that has still to tell of a location, and `Debts` says what that
  call knows while it does: it holds what it stored, the last event it read is still
  the last, and its event is the next to be appended or is not needed.  `Told` is the property
  with no debt left.  `HwTables` has the foreign key: a FRU that is in a location has a row.
* `NodesToldApartHolds`, under `NodesNumbered` (the nodes of one controller have numbers, of their own)
  and `FrusNamed` (no FRU is named as an empty slot is).  The map of nodes is
  ranged over in any order; the ids do not depend on it, because each node that shares its FRU id
  is numbered by its own ordinal, whichever of them is looked at first (`AlikeToldApart`).
* `ListedOnceHolds` (`LocsAssumption`: no location is called "all").  A part is nested if its
  parent is among the answers and is listed on its own otherwise, so this needs neither that
  locations form a tree nor that what a part belongs to was asked for.
* `AddressesKeptHolds` (`MacsAssumption`), with `EthInv`.  Each call is `Justified`: what it writes is
  made from what it read, so an address that it drops was either asked to go or was not there
  when it read, and then the row has changed since.
* `EthTypeOKHolds`, under `ListsDistinct`: no call gives an address twice.  A row, and whatever a call
  has read or is to write, is `Consistent` (`EthTypeInv`).  The hypothesis is needed: neither
  `POST` nor `PATCH` looks for repeated addresses in the list it is given, they are stored as they
  come.

and of `Groups`, for all components, ids, handlers and mixes (`MixesAssumption`), whatever
statements of whatever calls interleave:

* `GroupsTypeCorrect` and `OneOfEachHolds`.  The invariant is `GroupsInv`: `GroupsOK` (rows have
  their fields), `CallsOK` (what a call has read is of a group that was there), `MembersOK`
  (members exist and carry the namespace of their group), `NoClash` (the uniqueness rules
  of the schema) and `HeldOK` (what a call deletes is there and held by it alone).
  `OneOfEach` follows from `MembersOK` and `NoClash`: two partitions have one namespace, and so
  have two groups of one exclusive group.
* `PutReplacesHolds`, with `PutInv`: a member row of the group is either in what the PUT
  deletes or has come since it began.
* `ViewsAgreeHolds` (`IdsAssumption`: the filter's "none" is no id).  A member row of a partition is
  found by its id and its namespace, a group's by its id alone, so this needs the invariant
  too: `PartitionRow` (who has a row of a partition has it in the partitions' namespace) and
  `OneAndTwo` (in that namespace a component has one row, which is why one partition can be
  read off it).  `FilterFinds` says what each filter leaves of a group's members.

A function of the standard modules that tlapm does not know, `SelectSeq`, is why `HWInventory`
has `Without`: the events of a history that are not of a FRU, said by their order.

Only model-checked:

* liveness (`ExpiredIsReaped`, `CallsEnd`, `PollersStop`, `OrphansAreTaken`, `Converges`,
  `OrphansPickedUp`), which TLAPS does not handle under fairness;
* the type invariants of `CompState` (it lists the instance's values; that rows and calls have
  their shape is `StateInv`) and of `RedfishTree`, which `PartsTypeOK` has beside those proved of
  `NodeMaps` and `RFEvents`; all three that `RecordsTypeOK` combines are proved, each of its own
  specification;
* `PlacesKept`, `EachHasItsPlace`, `OKMeansAllRead` and `BestMAC` of `RedfishTree`: they are about what
  `SelectInSeq`, `SelectSeq` and `FoldLeft` compute over lists of resources, which is induction over
  data, and about shapes of hardware rather than about steps.

## 6. What is left

1. Proofs: the properties of `RedfishTree`, whose folds would have to become recursive functions as
   those of `SCNSubscriptions` have.
2. The queue of notifications: `JobSCN` jobs of concurrent updates in the worker pool,
   composed with `CompState` for their order and with `SCNSubscriptions` for who gets them.
3. `RFEvents` composed with `CompState`, for events against user updates.

### Not modelled

* HTTP routing, authentication, TLS, validation and formatting; the text of SQL
  statements (the modules have the rows they select and change); reading and writing of
  PostgreSQL connections, and so the size of the pool.
* Migrations and loaders, which run once; the schema's keys and cascades are in the modules
  that rely on them.
* The SLS and HBTD clients, Vault and credentials: stateless calls, represented by what
  they may answer or not at all.
* Of Redfish: parsers of event messages (represented by what they deliver; the Foxconn ones
  left out, as a shadowed variable keeps their result from being used), states, flags and
  FRU ids of resources, service endpoints' contents, power limits, and the special cases of
  two vendors.
* Of notifications: the Enabled trigger, sub-roles and software states as triggers, and the
  three tries of one POST.
* Data races in the sense of the Go memory model.

## 7. Running

In this directory: `tlc -workers 2 -config CompLocks.cfg MCCompLocks` and likewise
for the other configurations (`PROJECT.json` pairs them with modules);
`tlapm CompLocksProofs.tla` and likewise for `StateRFPollProofs`, `SCNSubscriptionsProofs`,
`MapsEventsProofs`, `CompStateProofs`, `ServiceReservationsProofs`, `DiscoveryProofs` and `RecordsProofs` (a few
minutes each at most).  `locks_tx`, `rfpoll` and `scn`
are the longest runs, of about two minutes each.
