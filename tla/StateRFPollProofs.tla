------------------------- MODULE StateRFPollProofs -------------------------
(***************************************************************************)
(* Theorems about StateRFPoll, for every set of nodes and instances and    *)
(* every bound.  An instance's list is right whatever happens to the rows; *)
(* that one job at most polls a node needs the rows, and so needs the      *)
(* keep-alives to be in time.                                              *)
(***************************************************************************)
EXTENDS StateRFPoll, TLAPS

Live(id) == Active(id) /\ ~poll[id].signal

Row     == [id : 0 .. MaxJobs, complete : BOOLEAN, fresh : BOOLEAN]
Polling == [at : {"none", "polling", "off", "cancel", "stopping", "stopped"},
            inst : Insts \cup {"none"}, comp : Comps \cup {"none"},
            signal : BOOLEAN, late : BOOLEAN]
Syncing == {NoSync} \cup [at : {"read", "taken"}, id : Jobs, comp : Comps, complete : BOOLEAN]

\* The values of the variables; ids from nextJob on are nowhere.
JobsOK ==
    /\ jobs \in [Comps -> Row]
    /\ \A c \in Comps : /\ jobs[c].id = 0 => jobs[c] = NoRow
                        /\ jobs[c].id < nextJob

ListsOK ==
    /\ list \in [Insts -> [Comps -> 0 .. MaxJobs]]
    /\ \A i \in Insts, c \in Comps : list[i][c] < nextJob

PollsOK ==
    /\ poll \in [Jobs -> Polling]
    /\ \A id \in Jobs : /\ id >= nextJob => poll[id].at = "none"
                        /\ Goes(id) => poll[id].inst \in Insts /\ poll[id].comp \in Comps

SyncsOK ==
    /\ sync \in [Insts -> Syncing]
    /\ \A i \in Insts : sync[i].id < nextJob

Shape ==
    /\ JobsOK /\ ListsOK /\ PollsOK /\ SyncsOK
    /\ nextJob \in 1 .. MaxJobs + 1

ListInv == Shape /\ ListedIsPolling

\* With keep-alives in time: a live job is listed and has its row, a row goes
\* stale only after its goroutines, and JobSync only works on such rows.
LiveBacked ==
    \A id \in Jobs : Live(id) => /\ list[poll[id].inst][poll[id].comp] = id
                                 /\ jobs[poll[id].comp].id = id
RowsFresh ==
    \A c \in Comps : jobs[c].id # 0 /\ Goes(jobs[c].id) => jobs[c].fresh
SyncsDead ==
    \A i \in Insts : sync[i] # NoSync => ~Goes(sync[i].id)

Backed == LiveBacked /\ RowsFresh /\ SyncsDead

-----------------------------------------------------------------------------
(* Lemmas about starting and cancelling a job                              *)

LEMMA StartKeepsList ==
    ASSUME ListInv, NEW i \in Insts, NEW c \in Comps, Start(i, c)
    PROVE  /\ JobsOK' /\ ListsOK' /\ PollsOK' /\ ListedIsPolling'
           /\ nextJob' \in 1 .. MaxJobs + 1 /\ nextJob' >= nextJob
<1>1. CASE jobs[c] # NoRow
  BY <1>1 DEF ListInv, Shape, JobsOK, ListsOK, PollsOK, ListedIsPolling, Start, Active, Goes
<1>2. CASE jobs[c] = NoRow
  <2> DEFINE row == [id |-> nextJob, complete |-> FALSE, fresh |-> TRUE]
             new == [at |-> "polling", inst |-> i, comp |-> c, signal |-> FALSE, late |-> FALSE]
  <2>1. /\ nextJob \in Jobs /\ nextJob' = nextJob + 1
        /\ jobs' = [jobs EXCEPT ![c] = row]
        /\ list' = [list EXCEPT ![i][c] = nextJob]
        /\ poll' = [poll EXCEPT ![nextJob] = new]
    BY <1>2, BoundAssumption DEF ListInv, Shape, Start, Jobs
  <2>2. row \in Row /\ new \in Polling /\ MaxJobs \in Nat
    BY <2>1, BoundAssumption DEF Row, Polling, Jobs
  <2>3. JobsOK'
    <3>1. jobs' \in [Comps -> Row]
      BY <2>1, <2>2 DEF ListInv, Shape, JobsOK
    <3>2. ASSUME NEW d \in Comps
          PROVE  (jobs[d].id = 0 => jobs[d] = NoRow)' /\ (jobs[d].id < nextJob)'
      <4>1. CASE d = c
        BY <2>1, <4>1 DEF ListInv, Shape, JobsOK, Jobs
      <4>2. CASE d # c
        BY <2>1, <2>2, <4>2 DEF ListInv, Shape, JobsOK, NoRow, Jobs, Row
      <4> QED
        BY <4>1, <4>2
    <3> QED
      BY <3>1, <3>2 DEF JobsOK
  <2>4. ListsOK'
    BY <2>1, <2>2 DEF ListInv, Shape, ListsOK, Jobs
  <2>5. PollsOK'
    BY <2>1, <2>2 DEF ListInv, Shape, PollsOK, Goes, Jobs
  <2>6. ListedIsPolling'
    BY <2>1, <2>2 DEF ListInv, Shape, ListsOK, PollsOK, ListedIsPolling, Active, Jobs
  <2>7. nextJob' \in 1 .. MaxJobs + 1 /\ nextJob' >= nextJob
    BY <2>1, <2>2 DEF Jobs
  <2> HIDE DEF row, new
  <2> QED
    BY <2>3, <2>4, <2>5, <2>6, <2>7
<1> QED
  BY <1>1, <1>2

\* p differs from poll in how far active jobs are and in what keep-alives do.
SameJobs(p) ==
    /\ p \in [Jobs -> Polling]
    /\ \A id \in Jobs :
          /\ p[id].inst = poll[id].inst /\ p[id].comp = poll[id].comp
          /\ p[id].signal = poll[id].signal
          /\ \/ p[id].at = poll[id].at
             \/ Active(id) /\ p[id].at \in {"polling", "off", "cancel"}

LEMMA CancelKeepsList ==
    ASSUME ListInv, NEW i \in Insts, NEW c \in Comps, NEW p, SameJobs(p),
           Cancel(i, c, p), UNCHANGED nextJob
    PROVE  JobsOK' /\ ListsOK' /\ PollsOK' /\ ListedIsPolling'
<1>1. /\ poll' = [id \in Jobs |-> IF id = list[i][c] THEN [p[id] EXCEPT !.signal = TRUE]
                                                     ELSE p[id]]
      /\ jobs' = [d \in Comps |-> IF jobs[d].id = list[i][c] THEN NoRow ELSE jobs[d]]
      /\ list' = [list EXCEPT ![i][c] = 0]
  BY DEF Cancel, WithoutRow
<1>2. NoRow \in Row /\ MaxJobs \in Nat
  BY BoundAssumption DEF NoRow, Row
<1>3. JobsOK'
  BY <1>1, <1>2 DEF ListInv, Shape, JobsOK, NoRow
<1>4. ListsOK'
  BY <1>1, <1>2 DEF ListInv, Shape, ListsOK
<1>5. PollsOK'
  <2>1. poll' \in [Jobs -> Polling]
    <3>1. ASSUME NEW id \in Jobs
          PROVE  p[id] \in Polling /\ [p[id] EXCEPT !.signal = TRUE] \in Polling
      BY DEF SameJobs, Polling
    <3> QED
      BY <1>1, <3>1
  <2>2. ASSUME NEW id \in Jobs
        PROVE  /\ poll'[id].at = p[id].at
               /\ poll'[id].inst = poll[id].inst /\ poll'[id].comp = poll[id].comp
    BY <1>1 DEF SameJobs, Polling
  <2> QED
    BY <2>1, <2>2 DEF PollsOK, ListInv, Shape, SameJobs, Goes, Active
<1>6. ASSUME NEW j \in Insts, NEW d \in Comps, list'[j][d] # 0
      PROVE  LET id == list'[j][d]
             IN  /\ poll'[id].at \in {"polling", "off", "cancel"}
                 /\ poll'[id].inst = j /\ poll'[id].comp = d /\ ~poll'[id].signal
  <2> DEFINE id == list[j][d]
  <2>1. list'[j][d] = id /\ (j # i \/ d # c)
    BY <1>1, <1>6 DEF ListInv, Shape, ListsOK
  <2>2. /\ id \in Jobs /\ Active(id) /\ ~poll[id].signal
        /\ poll[id].inst = j /\ poll[id].comp = d
    BY <1>2, <1>6, <2>1 DEF ListInv, Shape, ListsOK, ListedIsPolling, Jobs
  <2>3. id # list[i][c]
    BY <1>6, <2>1, <2>2 DEF ListInv, ListedIsPolling
  <2> QED
    BY <1>1, <2>1, <2>2, <2>3 DEF SameJobs, Active
<1> QED
  BY <1>3, <1>4, <1>5, <1>6 DEF ListedIsPolling, Active

LEMMA StartKeepsBacked ==
    ASSUME ListInv, Backed, NEW i \in Insts, NEW c \in Comps, Start(i, c),
           \/ UNCHANGED sync
           \/ \E j \in Insts : sync' = [sync EXCEPT ![j] = NoSync]
    PROVE  Backed'
<1>1. CASE jobs[c] # NoRow
  BY <1>1 DEF ListInv, Shape, SyncsOK, Backed, LiveBacked, RowsFresh, SyncsDead,
              Start, Live, Active, Goes
<1>2. CASE jobs[c] = NoRow
  <2> DEFINE row == [id |-> nextJob, complete |-> FALSE, fresh |-> TRUE]
             new == [at |-> "polling", inst |-> i, comp |-> c, signal |-> FALSE, late |-> FALSE]
  <2>1. /\ nextJob \in Jobs
        /\ jobs' = [jobs EXCEPT ![c] = row]
        /\ list' = [list EXCEPT ![i][c] = nextJob]
        /\ poll' = [poll EXCEPT ![nextJob] = new]
    BY <1>2, BoundAssumption DEF ListInv, Shape, Start, Jobs
  <2>2. ASSUME NEW id \in Jobs, id # nextJob, Live(id)
        PROVE  /\ list'[poll[id].inst][poll[id].comp] = id
               /\ jobs'[poll[id].comp].id = id
    <3>1. /\ list[poll[id].inst][poll[id].comp] = id /\ jobs[poll[id].comp].id = id
          /\ poll[id].inst \in Insts /\ poll[id].comp \in Comps
      BY <2>2 DEF Backed, LiveBacked, ListInv, Shape, PollsOK, Live, Active, Goes
    <3>2. poll[id].comp # c
      BY <1>2, <3>1 DEF NoRow, Jobs
    <3> QED
      BY <2>1, <3>1, <3>2 DEF ListInv, Shape, ListsOK, JobsOK
  <2>3. LiveBacked'
    <3>1. ASSUME NEW id \in Jobs, id # nextJob, Live(id)'
          PROVE  Live(id) /\ poll'[id] = poll[id]
      BY <2>1, <3>1 DEF Live, Active, ListInv, Shape, PollsOK
    <3>2. /\ poll'[nextJob] = new /\ list'[i][c] = nextJob /\ jobs'[c].id = nextJob
      BY <2>1 DEF ListInv, Shape, PollsOK, ListsOK, JobsOK
    <3> QED
      BY <2>2, <3>1, <3>2 DEF LiveBacked
  <2>4. RowsFresh'
    BY <2>1 DEF Backed, RowsFresh, ListInv, Shape, PollsOK, JobsOK, Goes, Jobs
  <2>5. SyncsDead'
    <3>1. \A j \in Insts : sync'[j] # NoSync => sync'[j] = sync[j]
      BY DEF ListInv, Shape, SyncsOK
    <3>2. \A j \in Insts : sync[j] # NoSync => sync[j].id \in Jobs \ {nextJob}
      BY <2>1 DEF ListInv, Shape, SyncsOK, Syncing, NoSync, Jobs
    <3>3. \A id \in Jobs \ {nextJob} : poll'[id] = poll[id]
      BY <2>1 DEF ListInv, Shape, PollsOK
    <3> QED
      BY <3>1, <3>2, <3>3 DEF Backed, SyncsDead, Goes
  <2> QED
    BY <2>3, <2>4, <2>5 DEF Backed
<1> QED
  BY <1>1, <1>2

LEMMA CancelKeepsBacked ==
    ASSUME ListInv, Backed, NEW i \in Insts, NEW c \in Comps, NEW p, SameJobs(p),
           Cancel(i, c, p), UNCHANGED sync
    PROVE  Backed'
<1>1. /\ poll' = [id \in Jobs |-> IF id = list[i][c] THEN [p[id] EXCEPT !.signal = TRUE]
                                                     ELSE p[id]]
      /\ jobs' = [d \in Comps |-> IF jobs[d].id = list[i][c] THEN NoRow ELSE jobs[d]]
      /\ list' = [list EXCEPT ![i][c] = 0]
  BY DEF Cancel, WithoutRow
<1>2. ASSUME NEW id \in Jobs
      PROVE  /\ poll'[id].inst = poll[id].inst /\ poll'[id].comp = poll[id].comp
             /\ Goes(id)' <=> Goes(id)
             /\ Live(id)' => Live(id) /\ id # list[i][c]
  BY <1>1 DEF SameJobs, Polling, Goes, Live, Active
<1>3. LiveBacked'
  <2>1. ASSUME NEW id \in Jobs, Live(id)'
        PROVE  /\ list'[poll[id].inst][poll[id].comp] = id
               /\ jobs'[poll[id].comp].id = id
    <3>1. /\ list[poll[id].inst][poll[id].comp] = id /\ jobs[poll[id].comp].id = id
          /\ poll[id].inst \in Insts /\ poll[id].comp \in Comps /\ id # list[i][c]
      BY <1>2, <2>1 DEF Backed, LiveBacked, ListInv, Shape, PollsOK, Live, Active, Goes
    <3> QED
      BY <1>1, <3>1 DEF ListInv, Shape, ListsOK
  <2> QED
    BY <1>2, <2>1 DEF LiveBacked
<1>4. RowsFresh'
  BY <1>1, <1>2 DEF Backed, RowsFresh, ListInv, Shape, JobsOK, Row, NoRow, Jobs
<1>5. SyncsDead'
  BY <1>2 DEF Backed, SyncsDead, ListInv, Shape, SyncsOK, Syncing
<1> QED
  BY <1>3, <1>4, <1>5 DEF Backed

-----------------------------------------------------------------------------
(* The list is right                                                       *)

LEMMA SameStart ==
    ASSUME ListInv, NEW i \in Insts, NEW c \in Comps, Start(i, c),
           sync' \in [Insts -> Syncing],
           \A j \in Insts : sync'[j].id = sync[j].id \/ sync'[j].id = 0
    PROVE  ListInv'
<1>1. SyncsOK'
  BY StartKeepsList DEF ListInv, Shape, SyncsOK, Syncing, NoSync, Jobs
<1> QED
  BY <1>1, StartKeepsList DEF ListInv, Shape

LEMMA SameCancel ==
    ASSUME ListInv, NEW i \in Insts, NEW c \in Comps, NEW p, SameJobs(p),
           Cancel(i, c, p), UNCHANGED <<sync, nextJob>>
    PROVE  ListInv'
  BY CancelKeepsList DEF ListInv, Shape, SyncsOK

\* Steps that leave the list alone: what a job is about stays, and a job that
\* stops being active has been signalled.
LEMMA SameList ==
    ASSUME ListInv, UNCHANGED <<list, sync, nextJob>>, JobsOK', PollsOK',
           \A id \in Jobs : /\ poll'[id].inst = poll[id].inst
                            /\ poll'[id].comp = poll[id].comp
                            /\ poll'[id].signal = poll[id].signal
                            /\ Active(id) /\ ~poll[id].signal => Active(id)'
    PROVE  ListInv'
<1>1. ListsOK' /\ SyncsOK'
  BY DEF ListInv, Shape, ListsOK, SyncsOK
<1>2. ListedIsPolling'
  BY BoundAssumption DEF ListInv, Shape, ListsOK, ListedIsPolling, Jobs
<1> QED
  BY <1>1, <1>2 DEF ListInv, Shape

LEMMA RowMarks ==
    ASSUME NEW r \in Row, NEW a \in BOOLEAN, NEW b \in BOOLEAN
    PROVE  /\ [r EXCEPT !.fresh = b] \in Row /\ [r EXCEPT !.fresh = b].id = r.id
           /\ [r EXCEPT !.complete = a, !.fresh = b] \in Row
           /\ [r EXCEPT !.complete = a, !.fresh = b].id = r.id
  BY DEF Row

\* Marking rows without changing which job they belong to.
Marked(c) ==
    \/ jobs'[c] = jobs[c]
    \/ jobs[c].id # 0 /\ jobs'[c] \in Row /\ jobs'[c].id = jobs[c].id

LEMMA MarkedRows ==
    ASSUME ListInv, UNCHANGED nextJob, jobs' = [c \in Comps |-> jobs'[c]],
           \A c \in Comps : Marked(c)
    PROVE  JobsOK'
<1>1. jobs' \in [Comps -> Row]
  <2>1. \A c \in Comps : jobs'[c] \in Row
    BY DEF ListInv, Shape, JobsOK, Marked
  <2> QED
    BY <2>1
<1>2. ASSUME NEW c \in Comps
      PROVE  (jobs[c].id = 0 => jobs[c] = NoRow)' /\ (jobs[c].id < nextJob)'
  BY DEF ListInv, Shape, JobsOK, Marked, NoRow
<1> QED
  BY <1>1, <1>2 DEF JobsOK

LEMMA InitList == Init => ListInv
<1> SUFFICES ASSUME Init PROVE ListInv
  OBVIOUS
<1>1. JobsOK /\ ListsOK /\ SyncsOK
  BY BoundAssumption DEF Init, JobsOK, ListsOK, SyncsOK, Row, NoRow, Syncing, NoSync
<1>2. PollsOK
  BY DEF Init, PollsOK, Polling, NoPoll, Goes
<1> QED
  BY <1>1, <1>2, BoundAssumption DEF Init, ListInv, Shape, ListedIsPolling

LEMMA NextKeepsList == ListInv /\ [Next]_vars => ListInv'
<1> SUFFICES ASSUME ListInv, [Next]_vars
             PROVE  ListInv'
  OBVIOUS
<1>0. SameJobs(poll)
  BY DEF SameJobs, ListInv, Shape, PollsOK
<1>1. ASSUME NEW i \in Insts, NEW c \in Comps, NEW s \in Targets, Update(i, c, s)
      PROVE  ListInv'
  BY <1>1 DEF Update, ListInv, Shape, JobsOK, ListsOK, PollsOK, SyncsOK,
              ListedIsPolling, Active, Goes
<1>2. ASSUME NEW i \in Insts, NEW c \in Comps, NEW start \in BOOLEAN, FollowUp(i, c, start)
      PROVE  ListInv'
  <2>1. CASE start
    BY <1>2, <2>1, SameStart DEF FollowUp, ListInv, Shape, SyncsOK
  <2>2. CASE ~start
    BY <1>0, <1>2, <2>2, SameCancel DEF FollowUp
  <2> QED
    BY <2>1, <2>2
<1>3. ASSUME NEW c \in Comps, NEW s \in Discovered, Discover(c, s)
      PROVE  ListInv'
  BY <1>3 DEF Discover, ListInv, Shape, JobsOK, ListsOK, PollsOK, SyncsOK,
              ListedIsPolling, Active, Goes
<1>4. ASSUME NEW id \in Jobs, PollSeesOff(id) \/ PollFails(id)
      PROVE  ListInv'
  <2>1. JobsOK'
    <3>1. PICK b \in BOOLEAN :
             jobs' = [c \in Comps |-> IF jobs[c].id = id
                                      THEN [jobs[c] EXCEPT !.complete = b, !.fresh = TRUE]
                                      ELSE jobs[c]]
      BY <1>4 DEF PollSeesOff, PollFails
    <3>2. ASSUME NEW c \in Comps
          PROVE  Marked(c)
      <4>1. jobs[c] \in Row /\ id # 0
        BY BoundAssumption DEF ListInv, Shape, JobsOK, Jobs
      <4>2. CASE jobs[c].id = id
        <5>1. jobs'[c] = jobs[c] \/ jobs'[c] = [jobs[c] EXCEPT !.complete = b, !.fresh = TRUE]
          BY <3>1, <4>2
        <5> QED
          BY <4>1, <4>2, <5>1, RowMarks DEF Marked
      <4>3. CASE jobs[c].id # id
        BY <3>1, <4>3 DEF Marked
      <4> QED
        BY <4>2, <4>3
    <3>3. UNCHANGED nextJob
      BY <1>4 DEF PollSeesOff, PollFails, Unchanged
    <3> QED
      BY <3>1, <3>2, <3>3, MarkedRows
  <2>2. CASE PollSeesOff(id)
    BY <2>1, <2>2, SameList DEF PollSeesOff, Unchanged, ListInv, Shape, PollsOK, Polling,
                                Goes, Active
  <2>3. CASE PollFails(id)
    BY <2>1, <2>3, SameList DEF PollFails, Unchanged, ListInv, Shape, PollsOK, Goes, Active
  <2> QED
    BY <1>4, <2>2, <2>3
<1>5. ASSUME NEW id \in Jobs, PollSetsOff(id)
      PROVE  ListInv'
  BY <1>5, SameList DEF PollSetsOff, Unchanged, ListInv, Shape, JobsOK, PollsOK, Polling,
                        Goes, Active
<1>6. ASSUME NEW id \in Jobs, PollCancels(id)
      PROVE  ListInv'
  <2>1. poll[id].inst \in Insts /\ poll[id].comp \in Comps
    BY <1>6 DEF PollCancels, ListInv, Shape, PollsOK, Goes
  <2>2. SameJobs([poll EXCEPT ![id].at = "polling"])
    BY <1>6 DEF PollCancels, SameJobs, ListInv, Shape, PollsOK, Polling, Active
  <2> QED
    BY <1>6, <2>1, <2>2, SameCancel DEF PollCancels, Unchanged
<1>7. ASSUME NEW id \in Jobs, PollStops(id)
      PROVE  ListInv'
  BY <1>7, SameList DEF PollStops, Unchanged, ListInv, Shape, JobsOK, PollsOK, Polling,
                        Goes, Active
<1>8. ASSUME NEW id \in Jobs, KeepAlive(id)
      PROVE  ListInv'
  <2>1. JobsOK'
    <3>1. \/ UNCHANGED jobs
          \/ jobs' = [c \in Comps |-> IF jobs[c].id = id
                                      THEN [jobs[c] EXCEPT !.fresh = TRUE] ELSE jobs[c]]
      BY <1>8 DEF KeepAlive
    <3>2. ASSUME NEW c \in Comps
          PROVE  Marked(c)
      <4>1. jobs[c] \in Row /\ id # 0
        BY BoundAssumption DEF ListInv, Shape, JobsOK, Jobs
      <4>2. CASE jobs[c].id = id
        <5>1. jobs'[c] = jobs[c] \/ jobs'[c] = [jobs[c] EXCEPT !.fresh = TRUE]
          BY <3>1, <4>2
        <5> QED
          BY <4>1, <4>2, <5>1, RowMarks DEF Marked
      <4>3. CASE jobs[c].id # id
        BY <3>1, <4>3 DEF Marked
      <4> QED
        BY <4>2, <4>3
    <3>3. UNCHANGED nextJob
      BY <1>8 DEF KeepAlive, Unchanged
    <3> QED
      BY <3>1, <3>2, <3>3, MarkedRows DEF ListInv, Shape, JobsOK
  <2>2. CASE state[poll[id].comp] = "Standby"
    BY <1>8, <2>1, <2>2, SameList DEF KeepAlive, Unchanged, ListInv, Shape, PollsOK, Goes, Active
  <2>3. CASE state[poll[id].comp] # "Standby"
    <3>1. poll' = [poll EXCEPT ![id].late = TRUE] /\ UNCHANGED <<list, sync, nextJob>>
      BY <1>8, <2>3 DEF KeepAlive, Unchanged
    <3>2. PollsOK'
      BY <3>1 DEF ListInv, Shape, PollsOK, Polling, Goes
    <3> QED
      BY <2>1, <3>1, <3>2, SameList DEF ListInv, Shape, PollsOK, Polling, Active
  <2> QED
    BY <2>2, <2>3
<1>9. ASSUME NEW id \in Jobs, KeepAliveCancels(id)
      PROVE  ListInv'
  <2>1. poll[id].inst \in Insts /\ poll[id].comp \in Comps
    BY <1>9 DEF KeepAliveCancels, ListInv, Shape, PollsOK
  <2>2. SameJobs([poll EXCEPT ![id].late = FALSE])
    BY DEF SameJobs, ListInv, Shape, PollsOK, Polling
  <2> QED
    BY <1>9, <2>1, <2>2, SameCancel DEF KeepAliveCancels, Unchanged
<1>10. ASSUME NEW id \in Jobs, KeepAliveStops(id)
       PROVE  ListInv'
  <2>1. /\ poll' = [poll EXCEPT ![id] = Stopped] /\ UNCHANGED <<list, sync, nextJob, jobs>>
        /\ Stopped \in Polling /\ Stopped.at = "stopped"
    BY <1>10 DEF KeepAliveStops, Unchanged, Stopped, NoPoll, Polling
  <2>2. ListedIsPolling'
    BY <1>10, <2>1 DEF KeepAliveStops, ListInv, Shape, PollsOK, ListsOK, ListedIsPolling, Active
  <2> QED
    BY <1>10, <2>1, <2>2 DEF KeepAliveStops, ListInv, Shape, JobsOK, ListsOK, PollsOK, SyncsOK, Goes
<1>11. ASSUME NEW c \in Comps, Expire(c)
       PROVE  ListInv'
  <2>1. JobsOK'
    <3>1. jobs' = [jobs EXCEPT ![c] = [jobs[c] EXCEPT !.fresh = FALSE]]
      BY <1>11 DEF Expire
    <3>2. ASSUME NEW d \in Comps
          PROVE  Marked(d)
      <4>1. jobs[d] \in Row /\ jobs[c] \in Row
        BY DEF ListInv, Shape, JobsOK
      <4>2. jobs[c].id # 0
        BY <1>11 DEF Expire, ListInv, Shape, JobsOK, NoRow
      <4> QED
        BY <3>1, <4>1, <4>2, RowMarks DEF Marked, ListInv, Shape, JobsOK
    <3>3. UNCHANGED nextJob
      BY <1>11 DEF Expire, Unchanged
    <3> QED
      BY <3>1, <3>2, <3>3, MarkedRows DEF ListInv, Shape, JobsOK
  <2> QED
    BY <1>11, <2>1, SameList DEF Expire, Unchanged, ListInv, Shape, PollsOK, Goes, Active
<1>12. ASSUME NEW i \in Insts, NEW c \in Comps, SyncReads(i, c)
       PROVE  ListInv'
  <2>1. jobs[c].id \in Jobs /\ jobs[c].id < nextJob /\ jobs[c].complete \in BOOLEAN
    BY <1>12, BoundAssumption DEF SyncReads, ListInv, Shape, JobsOK, Row, Jobs
  <2>2. SyncsOK'
    BY <1>12, <2>1 DEF SyncReads, ListInv, Shape, SyncsOK, Syncing
  <2> QED
    BY <1>12, <2>2 DEF SyncReads, ListInv, Shape, JobsOK, ListsOK, PollsOK, ListedIsPolling,
                       Active, Goes
<1>13. ASSUME NEW i \in Insts, SyncDeletes(i)
       PROVE  ListInv'
  <2>1. JobsOK'
    BY <1>13, BoundAssumption DEF SyncDeletes, WithoutRow, ListInv, Shape, JobsOK, Row, NoRow
  <2>2. SyncsOK'
    BY <1>13 DEF SyncDeletes, ListInv, Shape, SyncsOK, Syncing, NoSync
  <2> QED
    BY <1>13, <2>1, <2>2 DEF SyncDeletes, ListInv, Shape, ListsOK, PollsOK, ListedIsPolling,
                             Active, Goes
<1>14. ASSUME NEW i \in Insts, SyncStarts(i)
       PROVE  ListInv'
  <2>1. sync[i].comp \in Comps
    BY <1>14 DEF SyncStarts, ListInv, Shape, SyncsOK, Syncing, NoSync
  <2>2. /\ sync' \in [Insts -> Syncing]
        /\ \A j \in Insts : sync'[j].id = sync[j].id \/ sync'[j].id = 0
    BY <1>14 DEF SyncStarts, ListInv, Shape, SyncsOK, Syncing, NoSync
  <2> QED
    BY <1>14, <2>1, <2>2, SameStart DEF SyncStarts
<1>15. ASSUME NEW i \in Insts, Crash(i)
       PROVE  ListInv'
  <2>1. /\ list' = [list EXCEPT ![i] = [c \in Comps |-> 0]]
        /\ poll' = [id \in Jobs |-> IF Goes(id) /\ poll[id].inst = i THEN Stopped ELSE poll[id]]
        /\ Stopped \in Polling /\ Stopped.at = "stopped"
        /\ UNCHANGED <<jobs, nextJob>>
    BY <1>15 DEF Crash, Stopped, NoPoll, Polling
  <2>2. ListsOK' /\ SyncsOK'
    BY <1>15, <2>1, BoundAssumption DEF Crash, ListInv, Shape, ListsOK, SyncsOK, Syncing, NoSync
  <2>3. PollsOK'
    <3>1. poll' \in [Jobs -> Polling]
      BY <2>1 DEF ListInv, Shape, PollsOK
    <3>2. ASSUME NEW id \in Jobs
          PROVE  /\ id >= nextJob => poll'[id].at = "none"
                 /\ Goes(id)' => poll'[id].inst \in Insts /\ poll'[id].comp \in Comps
      BY <2>1 DEF Goes, ListInv, Shape, PollsOK
    <3> QED
      BY <2>1, <3>1, <3>2 DEF PollsOK
  <2>4. ListedIsPolling'
    <3>1. ASSUME NEW j \in Insts, NEW c \in Comps, list'[j][c] # 0
          PROVE  j # i /\ list'[j][c] = list[j][c] /\ list[j][c] \in Jobs
      BY <2>1, <3>1, BoundAssumption DEF ListInv, Shape, ListsOK, Jobs
    <3> QED
      BY <2>1, <3>1 DEF ListInv, Shape, ListedIsPolling, Active
  <2> QED
    BY <2>1, <2>2, <2>3, <2>4 DEF ListInv, Shape, JobsOK
<1>16. ASSUME NEW i \in Insts, Restart(i)
       PROVE  ListInv'
  BY <1>16 DEF Restart, ListInv, Shape, JobsOK, ListsOK, PollsOK, SyncsOK,
               ListedIsPolling, Active, Goes
<1>17. CASE UNCHANGED vars
  BY <1>17 DEF vars, ListInv, Shape, JobsOK, ListsOK, PollsOK, SyncsOK,
               ListedIsPolling, Active, Goes
<1> QED
  BY <1>1, <1>2, <1>3, <1>4, <1>5, <1>6, <1>7, <1>8, <1>9, <1>10, <1>11, <1>12, <1>13,
     <1>14, <1>15, <1>16, <1>17 DEF Next, Poller, Keeper, Sync

-----------------------------------------------------------------------------
(* Live jobs are backed                                                    *)

\* No goroutine starts, no job comes alive, and rows keep their job.
LEMMA SameBacked ==
    ASSUME ListInv, Backed, UNCHANGED <<list, sync>>,
           \A id \in Jobs : /\ Goes(id)' => Goes(id)
                            /\ Live(id)' => /\ Live(id)
                                            /\ poll'[id].inst = poll[id].inst
                                            /\ poll'[id].comp = poll[id].comp,
           \A c \in Comps : /\ jobs'[c].id = jobs[c].id
                            /\ jobs[c].fresh => jobs'[c].fresh \/ ~Goes(jobs[c].id)
    PROVE  Backed'
<1>1. \A c \in Comps : jobs[c].id # 0 => jobs[c].id \in Jobs
  BY BoundAssumption DEF ListInv, Shape, JobsOK, Row, Jobs
<1>2. \A i \in Insts : sync[i] # NoSync => sync[i].id \in Jobs
  BY DEF ListInv, Shape, SyncsOK, Syncing
<1>3. \A id \in Jobs : Live(id) => poll[id].comp \in Comps
  BY DEF ListInv, Shape, PollsOK, Live, Active, Goes
<1>4. LiveBacked'
  BY <1>3 DEF Backed, LiveBacked
<1>5. RowsFresh'
  BY <1>1 DEF Backed, RowsFresh
<1>6. SyncsDead'
  BY <1>2 DEF Backed, SyncsDead
<1> QED
  BY <1>4, <1>5, <1>6 DEF Backed

LEMMA NextKeepsBacked ==
    ASSUME ListInv, Backed, ~Misses, [Next]_vars
    PROVE  Backed'
<1>0. SameJobs(poll)
  BY DEF SameJobs, ListInv, Shape, PollsOK
<1>1. ASSUME UNCHANGED <<jobs, list, poll, sync>>
      PROVE  Backed'
  BY <1>1 DEF Backed, LiveBacked, RowsFresh, SyncsDead, Live, Active, Goes
<1>2. ASSUME NEW i \in Insts, NEW c \in Comps, NEW start \in BOOLEAN, FollowUp(i, c, start)
      PROVE  Backed'
  BY <1>0, <1>2, StartKeepsBacked, CancelKeepsBacked DEF FollowUp
<1>3. ASSUME NEW id \in Jobs, PollSeesOff(id)
      PROVE  Backed'
  <2>1. /\ poll[id].at = "polling" /\ poll' = [poll EXCEPT ![id].at = "off"]
        /\ UNCHANGED <<list, sync>>
    BY <1>3 DEF PollSeesOff, Unchanged
  <2>2. \A c \in Comps : jobs'[c].id = jobs[c].id /\ (jobs[c].fresh => jobs'[c].fresh)
    BY <1>3 DEF PollSeesOff, ListInv, Shape, JobsOK, Row
  <2> QED
    BY <2>1, <2>2, SameBacked DEF ListInv, Shape, PollsOK, Polling, Goes, Live, Active
<1>4. ASSUME NEW id \in Jobs, PollFails(id)
      PROVE  Backed'
  BY <1>4, SameBacked DEF PollFails, Unchanged, ListInv, Shape, JobsOK, Row,
                          Goes, Live, Active
<1>5. ASSUME NEW id \in Jobs, PollSetsOff(id)
      PROVE  Backed'
  BY <1>5, SameBacked DEF PollSetsOff, Unchanged, ListInv, Shape, PollsOK, Polling,
                          Goes, Live, Active
<1>6. ASSUME NEW id \in Jobs, PollCancels(id)
      PROVE  Backed'
  <2>1. poll[id].inst \in Insts /\ poll[id].comp \in Comps
    BY <1>6 DEF PollCancels, ListInv, Shape, PollsOK, Goes
  <2>2. SameJobs([poll EXCEPT ![id].at = "polling"])
    BY <1>6 DEF PollCancels, SameJobs, ListInv, Shape, PollsOK, Polling, Active
  <2> QED
    BY <1>6, <2>1, <2>2, CancelKeepsBacked DEF PollCancels, Unchanged
<1>7. ASSUME NEW id \in Jobs, PollStops(id)
      PROVE  Backed'
  BY <1>7, SameBacked DEF PollStops, Unchanged, ListInv, Shape, PollsOK, Polling,
                          Goes, Live, Active
<1>8. ASSUME NEW id \in Jobs, KeepAlive(id)
      PROVE  Backed'
  <2>1. CASE state[poll[id].comp] = "Standby"
    BY <1>8, <2>1, SameBacked DEF KeepAlive, Unchanged, ListInv, Shape, JobsOK, Row,
                                  Goes, Live, Active
  <2>2. CASE state[poll[id].comp] # "Standby"
    <3>1. poll' = [poll EXCEPT ![id].late = TRUE] /\ UNCHANGED <<jobs, list, sync>>
      BY <1>8, <2>2 DEF KeepAlive, Unchanged
    <3> QED
      BY <3>1, SameBacked DEF ListInv, Shape, PollsOK, Polling, Goes, Live, Active
  <2> QED
    BY <2>1, <2>2
<1>9. ASSUME NEW id \in Jobs, KeepAliveCancels(id)
      PROVE  Backed'
  <2>1. poll[id].inst \in Insts /\ poll[id].comp \in Comps
    BY <1>9 DEF KeepAliveCancels, ListInv, Shape, PollsOK
  <2>2. SameJobs([poll EXCEPT ![id].late = FALSE])
    BY DEF SameJobs, ListInv, Shape, PollsOK, Polling
  <2> QED
    BY <1>9, <2>1, <2>2, CancelKeepsBacked DEF KeepAliveCancels, Unchanged
<1>10. ASSUME NEW id \in Jobs, KeepAliveStops(id)
       PROVE  Backed'
  BY <1>10, SameBacked DEF KeepAliveStops, Unchanged, Stopped, NoPoll, ListInv, Shape, PollsOK,
                           Goes, Live, Active
<1>11. ASSUME NEW c \in Comps, Expire(c)
       PROVE  Backed'
  <2>1. /\ jobs' = [jobs EXCEPT ![c].fresh = FALSE] /\ ~Goes(jobs[c].id)
        /\ UNCHANGED <<list, poll, sync>>
    BY <1>11 DEF Expire, Unchanged
  <2> QED
    BY <2>1, SameBacked DEF ListInv, Shape, JobsOK, Row, Goes, Live, Active
<1>12. ASSUME NEW i \in Insts, NEW c \in Comps, SyncReads(i, c)
       PROVE  Backed'
  <2>1. jobs[c].id # 0 /\ ~Goes(jobs[c].id)
    BY <1>12 DEF SyncReads, Backed, RowsFresh, ListInv, Shape, JobsOK
  <2>2. SyncsDead'
    BY <1>12, <2>1 DEF SyncReads, Backed, SyncsDead, ListInv, Shape, SyncsOK, Goes
  <2> QED
    BY <1>12, <2>2 DEF SyncReads, Backed, LiveBacked, RowsFresh, Live, Active, Goes
<1>13. ASSUME NEW i \in Insts, SyncDeletes(i)
       PROVE  Backed'
  <2>1. /\ sync[i].id \in Jobs /\ ~Goes(sync[i].id)
        /\ jobs' = [c \in Comps |-> IF jobs[c].id = sync[i].id THEN NoRow ELSE jobs[c]]
        /\ UNCHANGED <<list, poll>>
    BY <1>13 DEF SyncDeletes, WithoutRow, Backed, SyncsDead, ListInv, Shape, SyncsOK, Syncing,
                 NoSync
  <2>2. LiveBacked'
    <3>1. ASSUME NEW id \in Jobs, Live(id)
          PROVE  /\ list[poll[id].inst][poll[id].comp] = id
                 /\ jobs'[poll[id].comp].id = id
      <4>1. /\ list[poll[id].inst][poll[id].comp] = id /\ jobs[poll[id].comp].id = id
            /\ poll[id].comp \in Comps /\ Goes(id)
        BY <3>1 DEF Backed, LiveBacked, ListInv, Shape, PollsOK, Live, Active, Goes
      <4>2. id # sync[i].id
        BY <2>1, <4>1
      <4> QED
        BY <2>1, <4>1, <4>2
    <3> QED
      BY <2>1, <3>1 DEF LiveBacked, Live, Active
  <2>3. RowsFresh'
    BY <2>1 DEF Backed, RowsFresh, NoRow, Goes
  <2>4. SyncsDead'
    <3>1. \A j \in Insts : sync'[j] # NoSync => sync'[j].id = sync[j].id /\ sync[j] # NoSync
      <4>1. sync \in [Insts -> Syncing] /\ sync[i].at = "read"
        BY <1>13 DEF SyncDeletes, ListInv, Shape, SyncsOK
      <4>2. \/ sync' = [sync EXCEPT ![i] = [sync[i] EXCEPT !.at = "taken"]]
            \/ sync' = [sync EXCEPT ![i] = NoSync]
        BY <1>13 DEF SyncDeletes
      <4>3. /\ sync[i] # NoSync
            /\ [sync[i] EXCEPT !.at = "taken"].id = sync[i].id
        BY <4>1 DEF Syncing, NoSync
      <4>4. ASSUME NEW j \in Insts, j # i PROVE sync'[j] = sync[j]
        BY <4>1, <4>2, <4>4
      <4> HIDE DEF NoSync
      <4> QED
        BY <4>1, <4>2, <4>3, <4>4
    <3> QED
      BY <2>1, <3>1 DEF Backed, SyncsDead, Goes
  <2> QED
    BY <2>2, <2>3, <2>4 DEF Backed
<1>14. ASSUME NEW i \in Insts, SyncStarts(i)
       PROVE  Backed'
  <2>1. sync[i].comp \in Comps
    BY <1>14 DEF SyncStarts, ListInv, Shape, SyncsOK, Syncing, NoSync
  <2> QED
    BY <1>14, <2>1, StartKeepsBacked DEF SyncStarts
<1>15. ASSUME NEW i \in Insts, Crash(i)
       PROVE  Backed'
  <2>1. /\ list' = [list EXCEPT ![i] = [c \in Comps |-> 0]]
        /\ poll' = [id \in Jobs |-> IF Goes(id) /\ poll[id].inst = i THEN Stopped ELSE poll[id]]
        /\ Stopped.at = "stopped" /\ UNCHANGED jobs
        /\ sync' = [sync EXCEPT ![i] = NoSync]
    BY <1>15 DEF Crash, Stopped, NoPoll
  <2>2. ASSUME NEW id \in Jobs
        PROVE  /\ Goes(id)' => Goes(id)
               /\ Live(id)' => Live(id) /\ poll'[id] = poll[id] /\ poll[id].inst # i
    BY <2>1 DEF Goes, Live, Active
  <2>3. LiveBacked'
    <3>1. ASSUME NEW id \in Jobs, Live(id), poll[id].inst # i
          PROVE  /\ list'[poll[id].inst][poll[id].comp] = id
                 /\ jobs'[poll[id].comp].id = id
      BY <2>1, <3>1 DEF Backed, LiveBacked, ListInv, Shape, ListsOK, PollsOK, Live, Active, Goes
    <3> QED
      BY <2>2, <3>1 DEF LiveBacked
  <2>4. RowsFresh'
    BY <2>1, <2>2, BoundAssumption DEF Backed, RowsFresh, ListInv, Shape, JobsOK, Row, Jobs
  <2>5. SyncsDead'
    <3>1. ASSUME NEW j \in Insts, sync'[j] # NoSync
          PROVE  sync'[j] = sync[j] /\ sync[j].id \in Jobs
      <4>1. sync \in [Insts -> Syncing]
        BY DEF ListInv, Shape, SyncsOK
      <4>2. sync'[j] = sync[j]
        BY <2>1, <3>1, <4>1
      <4> QED
        BY <3>1, <4>1, <4>2 DEF Syncing
    <3> QED
      BY <2>2, <3>1 DEF Backed, SyncsDead
  <2> QED
    BY <2>3, <2>4, <2>5 DEF Backed
<1> QED
  BY <1>1, <1>2, <1>3, <1>4, <1>5, <1>6, <1>7, <1>8, <1>9, <1>10, <1>11, <1>12, <1>13,
     <1>14, <1>15 DEF Next, Poller, Keeper, Sync, Update, Discover, Restart, vars

-----------------------------------------------------------------------------
(* Theorems                                                                *)

\* The job an instance lists for a node polls that node, on that instance, and
\* nobody has signalled it: cancelStateRFPoll never signals a job that has ended,
\* whatever JobSync does to the rows.
THEOREM ListedIsPollingHolds == Spec => []ListedIsPolling
<1>1. Init => ListInv
  BY InitList
<1>2. ListInv /\ [Next]_vars => ListInv'
  BY NextKeepsList
<1>3. ListInv => ListedIsPolling
  BY DEF ListInv
<1> QED
  BY <1>1, <1>2, <1>3, PTL DEF Spec

\* With keep-alives in time, no two jobs poll a node unless one has been signalled,
\* over any number of instances, crashes and take-overs by JobSync.
THEOREM OneLivePollerHolds == ASSUME ~Misses PROVE Spec => []OneLivePoller
<1>1. Init => ListInv /\ Backed
  BY InitList DEF Init, Backed, LiveBacked, RowsFresh, SyncsDead, Live, Active, Goes, NoRow,
                  NoPoll, NoSync
<1>2. (ListInv /\ Backed) /\ [Next]_vars => (ListInv /\ Backed)'
  BY NextKeepsList, NextKeepsBacked
<1>3. ListInv /\ Backed => OneLivePoller
  <2> SUFFICES ASSUME ListInv, Backed, NEW a \in Jobs, NEW b \in Jobs,
                      Live(a), Live(b), poll[a].comp = poll[b].comp
               PROVE  a = b
    BY DEF OneLivePoller, Live
  <2> QED
    BY DEF Backed, LiveBacked
<1> QED
  BY <1>1, <1>2, <1>3, PTL DEF Spec
=============================================================================
