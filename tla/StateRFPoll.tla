----------------------------- MODULE StateRFPoll -----------------------------
(***************************************************************************)
(* State Redfish polling.  When a node goes to Standby the HSM instance    *)
(* that changed its state starts a polling job: a row in the job tables,   *)
(* an entry in the instance's srfpJobList, a polling goroutine and a       *)
(* keep-alive goroutine.  The job sets the node to Off once Redfish says   *)
(* so, and is cancelled when the node leaves Standby.  Instances share     *)
(* only the database: each cancels its own jobs, and JobSync takes over    *)
(* those whose row has not been kept alive.                                *)
(*                                                                         *)
(* A state update is committed first and starts or cancels polling later,  *)
(* so updates, goroutines and instances interleave between the two.        *)
(* Redfish may answer anything.  Time is not counted: a row can expire     *)
(* when nobody keeps it alive, or also, with Misses, when the keep-alive   *)
(* fails to write in time.                                                 *)
(***************************************************************************)
EXTENDS Naturals, FiniteSets

CONSTANTS
    Comps,      \* nodes
    Insts,      \* HSM instances
    Targets,    \* states that updates ask for
    Discovered, \* states that discovery and deletion leave behind
    MaxJobs,    \* bound of the job ids handed out
    MaxCrashes, \* bound of the crashes
    Misses      \* whether a keep-alive may miss the lifetime of its row

ASSUME BoundAssumption == MaxJobs \in Nat /\ MaxCrashes \in Nat /\ Misses \in BOOLEAN

VARIABLES
    state,      \* component -> its state, or "none" without a row
    jobs,       \* component -> its row of the job tables, or NoRow
    list,       \* instance -> component -> the id in srfpJobList, or 0
    poll,       \* job id -> its goroutines
    todo,       \* <<instance, component, start?>> state updates still to be followed up
    sync,       \* instance -> the job its JobSync is working on
    nextJob,    \* the next job id
    up,         \* instances that run
    crashes     \* crashes so far

vars == <<state, jobs, list, poll, todo, sync, nextJob, up, crashes>>

Jobs  == 1 .. MaxJobs
NoRow == [id |-> 0, complete |-> FALSE, fresh |-> FALSE]

\* at: none | polling | off (Redfish said so) | cancel (state set, job still to be
\* cancelled) | stopping (waits for the keep-alive) | stopped.
\* signal: cancelChan has a sender.  late: the keep-alive is about to cancel.
NoPoll  == [at |-> "none", inst |-> "none", comp |-> "none", signal |-> FALSE, late |-> FALSE]
Stopped == [NoPoll EXCEPT !.at = "stopped"]
NoSync  == [at |-> "idle", id |-> 0, comp |-> "none", complete |-> FALSE]

States == {"Off", "On", "Standby", "Halt", "Ready"}

\* The states from which an unforced update may go to s.
StartStates(s) ==
    CASE s \in {"Off", "On"} -> States
      [] s = "Standby"       -> {"Standby", "Ready"}
      [] s = "Halt"          -> {"Halt", "Ready"}
      [] s = "Ready"         -> {"Ready", "On"}

Active(id) == poll[id].at \in {"polling", "off", "cancel"}
Goes(id)   == poll[id].at \notin {"none", "stopped"}

WithoutRow(id) == [c \in Comps |-> IF jobs[c].id = id THEN NoRow ELSE jobs[c]]
HasRow(id)     == \E c \in Comps : jobs[c].id = id

-----------------------------------------------------------------------------
(* Starting and cancelling a job                                           *)

\* Variant: the tables take a second job for a component.
StartIgnoresRow(i, c) ==
    /\ nextJob <= MaxJobs
    /\ jobs' = [jobs EXCEPT ![c] = [id |-> nextJob, complete |-> FALSE, fresh |-> TRUE]]
    /\ list' = [list EXCEPT ![i][c] = nextJob]
    /\ poll' = [poll EXCEPT ![nextJob] =
                  [at |-> "polling", inst |-> i, comp |-> c, signal |-> FALSE, late |-> FALSE]]
    /\ nextJob' = nextJob + 1

\* doStateRFPoll: the insert fails if the component has a job already, whoever owns it.
Start(i, c) ==
    IF jobs[c] # NoRow
    THEN UNCHANGED <<jobs, list, poll, nextJob>>
    ELSE /\ nextJob <= MaxJobs
         /\ jobs' = [jobs EXCEPT ![c] = [id |-> nextJob, complete |-> FALSE, fresh |-> TRUE]]
         /\ list' = [list EXCEPT ![i][c] = nextJob]
         /\ poll' = [poll EXCEPT ![nextJob] =
                       [at |-> "polling", inst |-> i, comp |-> c,
                        signal |-> FALSE, late |-> FALSE]]
         /\ nextJob' = nextJob + 1

\* Variant: the cancelled job stays in srfpJobList.
CancelKeepsEntry(i, c, p) ==
    /\ poll' = [id \in Jobs |-> IF id = list[i][c] THEN [p[id] EXCEPT !.signal = TRUE]
                                                   ELSE p[id]]
    /\ jobs' = WithoutRow(list[i][c])
    /\ UNCHANGED list

\* cancelStateRFPoll for a component: signals the job this instance lists for it,
\* whichever that is now, in the goroutines' state p.
Cancel(i, c, p) ==
    /\ poll' = [id \in Jobs |-> IF id = list[i][c] THEN [p[id] EXCEPT !.signal = TRUE]
                                                   ELSE p[id]]
    /\ jobs' = WithoutRow(list[i][c])
    /\ list' = [list EXCEPT ![i][c] = 0]

-----------------------------------------------------------------------------
(* State updates                                                           *)

\* doCompUpdate through an instance: the conditional UPDATE.  The state may stay
\* as it is when the flag changes.
Update(i, c, s) ==
    /\ i \in up
    /\ state[c] \in StartStates(s)
    /\ <<i, c, s = "Standby">> \notin todo
    /\ state' = [state EXCEPT ![c] = s]
    /\ todo' = todo \cup {<<i, c, s = "Standby">>}
    /\ UNCHANGED <<jobs, list, poll, sync, nextJob, up, crashes>>

\* ... and what follows it.
FollowUp(i, c, start) ==
    /\ <<i, c, start>> \in todo
    /\ todo' = todo \ {<<i, c, start>>}
    /\ IF start THEN Start(i, c)
                ELSE Cancel(i, c, poll) /\ UNCHANGED nextJob
    /\ UNCHANGED <<state, sync, up, crashes>>

\* Discovery sets any hardware state, and rows are deleted: polling is not told.
Discover(c, s) ==
    /\ state[c] # s
    /\ state' = [state EXCEPT ![c] = s]
    /\ UNCHANGED <<jobs, list, poll, todo, sync, nextJob, up, crashes>>

-----------------------------------------------------------------------------
(* doPollRFState                                                           *)

Unchanged == UNCHANGED <<todo, sync, nextJob, up, crashes>>

\* Redfish says off: the job is marked complete, its row thereby kept alive.
PollSeesOff(id) ==
    /\ poll[id].at = "polling"
    /\ poll' = [poll EXCEPT ![id].at = "off"]
    /\ jobs' = [c \in Comps |-> IF jobs[c].id = id
                                THEN [jobs[c] EXCEPT !.complete = TRUE, !.fresh = TRUE]
                                ELSE jobs[c]]
    /\ UNCHANGED <<state, list>> /\ Unchanged

\* The poll fails: the job is marked as in error.
PollFails(id) ==
    /\ poll[id].at = "polling"
    /\ jobs' = [c \in Comps |-> IF jobs[c].id = id
                                THEN [jobs[c] EXCEPT !.complete = FALSE, !.fresh = TRUE]
                                ELSE jobs[c]]
    /\ jobs' # jobs
    /\ UNCHANGED <<state, list, poll>> /\ Unchanged

\* The job's own doCompUpdate, as an unforced update to Off: without effect if
\* the component is gone, or off already.
PollSetsOff(id) ==
    LET c == poll[id].comp
    IN  /\ poll[id].at = "off"
        /\ \/ /\ state[c] \in StartStates("Off")
              /\ state' = [state EXCEPT ![c] = "Off"]
              /\ poll' = [poll EXCEPT ![id].at = "cancel"]
           \/ /\ state[c] \in {"Off", "none"}
              /\ poll' = [poll EXCEPT ![id].at = "polling"]
              /\ UNCHANGED state
        /\ UNCHANGED <<jobs, list>> /\ Unchanged

PollCancels(id) ==
    /\ poll[id].at = "cancel"
    /\ Cancel(poll[id].inst, poll[id].comp, [poll EXCEPT ![id].at = "polling"])
    /\ UNCHANGED state /\ Unchanged

\* The signal is taken; the deferred function waits for the keep-alive.
PollStops(id) ==
    /\ poll[id].at = "polling" /\ poll[id].signal
    /\ poll' = [poll EXCEPT ![id].at = "stopping"]
    /\ UNCHANGED <<state, jobs, list>> /\ Unchanged

-----------------------------------------------------------------------------
(* doSRFPKeepAlive                                                         *)

\* Variant: the job is only cancelled when its component is gone.
KeepAliveChecksPresence(id) ==
    LET c == poll[id].comp
    IN  /\ Goes(id) /\ ~poll[id].late
        /\ IF state[c] # "none"
           THEN /\ jobs' = [d \in Comps |-> IF jobs[d].id = id
                                            THEN [jobs[d] EXCEPT !.fresh = TRUE] ELSE jobs[d]]
                /\ UNCHANGED poll
           ELSE /\ poll' = [poll EXCEPT ![id].late = TRUE]
                /\ UNCHANGED jobs
        /\ UNCHANGED <<state, list>> /\ Unchanged

KeepAlive(id) ==
    LET c == poll[id].comp
    IN  /\ Goes(id) /\ ~poll[id].late
        /\ IF state[c] = "Standby"
           THEN /\ jobs' = [d \in Comps |-> IF jobs[d].id = id
                                            THEN [jobs[d] EXCEPT !.fresh = TRUE] ELSE jobs[d]]
                /\ UNCHANGED poll
           ELSE /\ poll' = [poll EXCEPT ![id].late = TRUE]
                /\ UNCHANGED jobs
        /\ UNCHANGED <<state, list>> /\ Unchanged

\* What it read may no longer hold, and the job it cancels may not be its own.
KeepAliveCancels(id) ==
    /\ Goes(id) /\ poll[id].late
    /\ Cancel(poll[id].inst, poll[id].comp, [poll EXCEPT ![id].late = FALSE])
    /\ UNCHANGED state /\ Unchanged

KeepAliveStops(id) ==
    /\ poll[id].at = "stopping" /\ ~poll[id].late
    /\ poll' = [poll EXCEPT ![id] = Stopped]
    /\ UNCHANGED <<state, jobs, list>> /\ Unchanged

-----------------------------------------------------------------------------
(* JobSync                                                                 *)

Expire(c) ==
    /\ jobs[c].fresh
    /\ Misses \/ ~Goes(jobs[c].id)
    /\ jobs' = [jobs EXCEPT ![c].fresh = FALSE]
    /\ UNCHANGED <<state, list, poll>> /\ Unchanged

\* Variant: complete jobs are left alone.
SyncReadsUnfinished(i, c) ==
    /\ i \in up /\ sync[i] = NoSync
    /\ jobs[c] # NoRow /\ ~jobs[c].fresh /\ ~jobs[c].complete
    /\ sync' = [sync EXCEPT ![i] = [at |-> "read", id |-> jobs[c].id, comp |-> c,
                                    complete |-> FALSE]]
    /\ UNCHANGED <<state, jobs, list, poll, todo, nextJob, up, crashes>>

SyncReads(i, c) ==
    /\ i \in up /\ sync[i] = NoSync
    /\ jobs[c] # NoRow /\ ~jobs[c].fresh
    /\ sync' = [sync EXCEPT ![i] = [at |-> "read", id |-> jobs[c].id, comp |-> c,
                                    complete |-> jobs[c].complete]]
    /\ UNCHANGED <<state, jobs, list, poll, todo, nextJob, up, crashes>>

\* Of several instances that read the job, the one whose DELETE finds it remakes it.
SyncDeletes(i) ==
    /\ sync[i].at = "read"
    /\ jobs' = WithoutRow(sync[i].id)
    /\ sync' = [sync EXCEPT ![i] = IF HasRow(sync[i].id) /\ ~sync[i].complete
                                   THEN [@ EXCEPT !.at = "taken"] ELSE NoSync]
    /\ UNCHANGED <<state, list, poll, todo, nextJob, up, crashes>>

SyncStarts(i) ==
    /\ sync[i].at = "taken"
    /\ Start(i, sync[i].comp)
    /\ sync' = [sync EXCEPT ![i] = NoSync]
    /\ UNCHANGED <<state, todo, up, crashes>>

-----------------------------------------------------------------------------
(* Instances                                                               *)

Crash(i) ==
    /\ i \in up /\ crashes < MaxCrashes
    /\ up' = up \ {i}
    /\ crashes' = crashes + 1
    /\ list' = [list EXCEPT ![i] = [c \in Comps |-> 0]]
    /\ poll' = [id \in Jobs |-> IF Goes(id) /\ poll[id].inst = i THEN Stopped ELSE poll[id]]
    /\ todo' = {t \in todo : t[1] # i}
    /\ sync' = [sync EXCEPT ![i] = NoSync]
    /\ UNCHANGED <<state, jobs, nextJob>>

Restart(i) ==
    /\ i \notin up
    /\ up' = up \cup {i}
    /\ UNCHANGED <<state, jobs, list, poll, todo, sync, nextJob, crashes>>

-----------------------------------------------------------------------------
Init ==
    /\ state = [c \in Comps |-> "Ready"]
    /\ jobs = [c \in Comps |-> NoRow]
    /\ list = [i \in Insts |-> [c \in Comps |-> 0]]
    /\ poll = [id \in Jobs |-> NoPoll]
    /\ todo = {}
    /\ sync = [i \in Insts |-> NoSync]
    /\ nextJob = 1
    /\ up = Insts
    /\ crashes = 0

Poller(id) == PollSetsOff(id) \/ PollCancels(id) \/ PollStops(id)
Keeper(id) == KeepAlive(id) \/ KeepAliveCancels(id) \/ KeepAliveStops(id)
Sync(i)    == SyncDeletes(i) \/ SyncStarts(i) \/ \E c \in Comps : SyncReads(i, c)

Next ==
    \/ \E i \in Insts, c \in Comps, s \in Targets : Update(i, c, s)
    \/ \E i \in Insts, c \in Comps, start \in BOOLEAN : FollowUp(i, c, start)
    \/ \E c \in Comps, s \in Discovered : Discover(c, s)
    \/ \E id \in Jobs : PollSeesOff(id) \/ PollFails(id) \/ Poller(id) \/ Keeper(id)
    \/ \E c \in Comps : Expire(c)
    \/ \E i \in Insts : Sync(i) \/ Crash(i) \/ Restart(i)

Spec == Init /\ [][Next]_vars

\* Goroutines run on, select takes a signal that stays (it chooses at random among
\* what is ready), tickers tick, time passes, and a crashed instance is restarted.
FairSpec ==
    /\ Spec
    /\ \A i \in Insts, c \in Comps, start \in BOOLEAN : WF_vars(FollowUp(i, c, start))
    /\ \A id \in Jobs : /\ WF_vars(PollSetsOff(id)) /\ WF_vars(PollCancels(id))
                        /\ SF_vars(PollStops(id))
                        /\ WF_vars(KeepAlive(id)) /\ WF_vars(KeepAliveCancels(id))
                        /\ SF_vars(KeepAliveStops(id))
    /\ \A c \in Comps : WF_vars(Expire(c))
    /\ \A i \in Insts : WF_vars(Sync(i)) /\ WF_vars(Restart(i))
-----------------------------------------------------------------------------
(* Properties                                                              *)

\* srfpJobList tells the truth: the job an instance lists for a component polls
\* that component on that instance and nobody has signalled it to stop.
ListedIsPolling ==
    \A i \in Insts, c \in Comps :
        LET id == list[i][c]
        IN  id # 0 => Active(id) /\ poll[id].inst = i /\ poll[id].comp = c /\ ~poll[id].signal

\* Over all instances at most one job polls a component without being on its way
\* to stop, through crashes, take-overs by JobSync and updates in any order.
OneLivePoller ==
    \A a, b \in Jobs :
        /\ Active(a) /\ ~poll[a].signal
        /\ Active(b) /\ ~poll[b].signal
        /\ poll[a].comp = poll[b].comp
        => a = b

\* cmd/smd/state-change.go:594-596, "another HSM instance owns the job. The other
\* HSM instance will cancel its job when it sees that the state has changed": no
\* job goes on for ever polling a component that has left Standby.
PollersStop ==
    \A id \in Jobs :
        Goes(id) ~> (~Goes(id) \/ \E c \in Comps : poll[id].comp = c /\ state[c] = "Standby")

\* The row of a job whose instance has died does not stay: JobSync of some
\* instance deletes it, and remakes the job unless it was complete.
OrphansAreTaken ==
    \A id \in Jobs : (HasRow(id) /\ poll[id].at = "stopped") ~> ~HasRow(id)
=============================================================================
