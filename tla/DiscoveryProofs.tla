-------------------------- MODULE DiscoveryProofs --------------------------
(***************************************************************************)
(* Theorems about Discovery, for every set of endpoints, instances,        *)
(* discoveries and calls, whatever dies or fails.  That only a discovery   *)
(* in progress leaves an endpoint marked as started rests on the map of    *)
(* discoveries: what an updater has read stays in the map until it has     *)
(* written.  That nothing outlives its endpoint rests on the lock of the   *)
(* endpoint's row.                                                         *)
(***************************************************************************)
EXTENDS Discovery, TLAPS

IsEp(row) ==
    /\ row = [status |-> row.status, enabled |-> row.enabled, fresh |-> row.fresh]
    /\ row.status = "none" => row = NoRow
IsRun(r) ==
    /\ r = [pc |-> r.pc, ep |-> r.ep, force |-> r.force, enabled |-> r.enabled]
    /\ r.pc # "idle" => r.ep \in Eps
IsCall(c) ==
    /\ c = [pc |-> c.pc, op |-> c.op, ids |-> c.ids, on |-> c.on, held |-> c.held]
    /\ c.ids \subseteq Eps

EpsOK   == eps = [e \in Eps |-> eps[e]] /\ \A e \in Eps : IsEp(eps[e])
RunsOK  == runs = [d \in Runs |-> runs[d]] /\ \A d \in Runs : IsRun(runs[d])
CallsOK == dcalls = [k \in DCalls |-> dcalls[k]] /\ \A k \in DCalls : IsCall(dcalls[k])
Shape   == /\ EpsOK /\ RunsOK /\ CallsOK
           /\ comps = [e \in Eps |-> comps[e]]
           /\ updaters = [i \in Instances |-> updaters[i]]
           /\ ceps \subseteq Eps /\ seps \subseteq Eps

\* What an updater has read is still being asked by its instance.
UpdatersOK ==
    \A i \in Instances : updaters[i] # <<>> => DOMAIN updaters[i] \subseteq InMap(i)

\* The row that a discovery has locked is there.
RowsHeld == \A d \in Runs : runs[d].pc = "row" => There(runs[d].ep)

DInv == Shape /\ UpdatersOK /\ RowsHeld /\ StartedHasReason /\ UpHasEndpoint

-----------------------------------------------------------------------------
(* Rows                                                                    *)

LEMMA RunIs ==
    ASSUME RunsOK, NEW d \in Runs, NEW new, IsRun(new), runs' = [runs EXCEPT ![d] = new]
    PROVE  RunsOK' /\ \A x \in Runs : runs'[x] = IF x = d THEN new ELSE runs[x]
<1>1. \A x \in Runs : runs'[x] = IF x = d THEN new ELSE runs[x]
  BY DEF RunsOK
<1>2. \A x \in Runs : IsRun(runs'[x])
  BY <1>1 DEF RunsOK
<1>3. runs' = [x \in Runs |-> runs'[x]]
  BY DEF RunsOK
<1> QED
  BY <1>1, <1>2, <1>3 DEF RunsOK, IsRun

LEMMA GotoIs ==
    ASSUME RunsOK, NEW d \in Runs, NEW pc, runs[d].pc # "idle", Goto(d, pc)
    PROVE  /\ RunsOK'
           /\ runs'[d].pc = pc /\ runs'[d].ep = runs[d].ep
           /\ \A x \in Runs \ {d} : runs'[x] = runs[x]
<1> DEFINE new == [pc |-> pc, ep |-> runs[d].ep, force |-> runs[d].force, enabled |-> runs[d].enabled]
<1>1. IsRun(new)
  BY DEF IsRun, RunsOK
<1>2. [runs[d] EXCEPT !.pc = pc] = new
  BY DEF IsRun, RunsOK
<1>3. runs' = [runs EXCEPT ![d] = new]
  BY <1>2 DEF Goto, RunsOK
<1> HIDE DEF new
<1>4. RunsOK' /\ \A x \in Runs : runs'[x] = IF x = d THEN new ELSE runs[x]
  BY <1>1, <1>3, RunIs
<1>5. new.pc = pc /\ new.ep = runs[d].ep
  BY DEF new
<1> QED
  BY <1>4, <1>5

LEMMA EndsIs ==
    ASSUME RunsOK, NEW d \in Runs, Ends(d)
    PROVE  /\ RunsOK'
           /\ runs'[d].pc = "idle"
           /\ \A x \in Runs \ {d} : runs'[x] = runs[x]
<1>1. IsRun(Idle) /\ Idle.pc = "idle"
  BY DEF IsRun, Idle
<1>2. RunsOK' /\ \A x \in Runs : runs'[x] = IF x = d THEN Idle ELSE runs[x]
  BY <1>1, RunIs DEF Ends
<1> QED
  BY <1>1, <1>2

LEMMA RowIs ==
    ASSUME EpsOK, NEW e \in Eps, NEW new, IsEp(new), eps' = [eps EXCEPT ![e] = new]
    PROVE  EpsOK' /\ \A x \in Eps : eps'[x] = IF x = e THEN new ELSE eps[x]
<1>1. \A x \in Eps : eps'[x] = IF x = e THEN new ELSE eps[x]
  BY DEF EpsOK
<1>2. \A x \in Eps : IsEp(eps'[x])
  BY <1>1 DEF EpsOK
<1>3. eps' = [x \in Eps |-> eps'[x]]
  BY DEF EpsOK
<1> QED
  BY <1>1, <1>2, <1>3 DEF EpsOK, IsEp

LEMMA StatusRow ==
    ASSUME NEW status, NEW on, status # "none"
    PROVE  IsEp(Row(status, on)) /\ Row(status, on).status = status /\ Row(status, on) # NoRow
  BY DEF IsEp, Row, NoRow

\* The row is written whole, if it is there.
LEMMA UpdateRFEndpointTxIs ==
    ASSUME EpsOK, NEW e \in Eps, NEW status, NEW on, status # "none",
           UpdateRFEndpointTx(e, status, on)
    PROVE  /\ EpsOK'
           /\ \A x \in Eps : /\ There(x)' <=> There(x)
                             /\ x # e => eps'[x] = eps[x]
           /\ eps'[e].status \in {status, "none"}
<1>1. CASE There(e)
  <2> DEFINE new == Row(status, on)
  <2>1. IsEp(new) /\ new.status = status /\ new # NoRow
    BY StatusRow
  <2>2. eps' = [eps EXCEPT ![e] = new]
    BY <1>1 DEF UpdateRFEndpointTx
  <2> HIDE DEF new
  <2>3. EpsOK' /\ \A x \in Eps : eps'[x] = IF x = e THEN new ELSE eps[x]
    BY <2>1, <2>2, RowIs
  <2> QED
    BY <1>1, <2>1, <2>3 DEF There
<1>2. CASE ~There(e)
  <2>1. eps' = eps /\ NoRow.status = "none"
    BY <1>2 DEF UpdateRFEndpointTx, NoRow
  <2> QED
    BY <1>2, <2>1 DEF There, EpsOK, IsEp
<1> QED
  BY <1>1, <1>2

\* A PATCH leaves the status and the attempt alone.
LEMMA EnabledIs ==
    ASSUME EpsOK, NEW e \in Eps, NEW on, There(e), eps' = [eps EXCEPT ![e].enabled = on]
    PROVE  EpsOK' /\ \A x \in Eps : (There(x)' <=> There(x)) /\ eps'[x].status = eps[x].status
<1> DEFINE new == [status |-> eps[e].status, enabled |-> on, fresh |-> eps[e].fresh]
<1>1. IsEp(new) /\ new # NoRow /\ new.status = eps[e].status
  BY DEF IsEp, EpsOK, There, NoRow
<1>2. [eps[e] EXCEPT !.enabled = on] = new
  BY DEF IsEp, EpsOK
<1>3. eps' = [eps EXCEPT ![e] = new]
  BY <1>2
<1> HIDE DEF new
<1>4. EpsOK' /\ \A x \in Eps : eps'[x] = IF x = e THEN new ELSE eps[x]
  BY <1>1, <1>3, RowIs
<1> QED
  BY <1>1, <1>4 DEF There

LEMMA CallIs ==
    ASSUME CallsOK, NEW k \in DCalls, NEW new, IsCall(new), dcalls' = [dcalls EXCEPT ![k] = new]
    PROVE  CallsOK'
<1>1. \A x \in DCalls : dcalls'[x] = IF x = k THEN new ELSE dcalls[x]
  BY DEF CallsOK
<1>2. \A x \in DCalls : IsCall(dcalls'[x])
  BY <1>1 DEF CallsOK
<1>3. dcalls' = [x \in DCalls |-> dcalls'[x]]
  BY DEF CallsOK
<1> QED
  BY <1>2, <1>3 DEF CallsOK, IsCall

LEMMA CallMade ==
    ASSUME NEW pc, NEW op, NEW ids, NEW on, NEW held, ids \subseteq Eps
    PROVE  IsCall([pc |-> pc, op |-> op, ids |-> ids, on |-> on, held |-> held])
  BY DEF IsCall

LEMMA CallIdleIs == IsCall(CallIdle)
  BY CallMade DEF CallIdle

\* A call goes on or ends.
LEMMA CallGoesOn ==
    ASSUME NEW c, IsCall(c), NEW pc
    PROVE  IsCall([c EXCEPT !.pc = pc, !.held = {}])
<1>1. IsCall([c EXCEPT !.pc = pc])
  BY DEF IsCall
<1>2. ASSUME NEW b, IsCall(b)
      PROVE  IsCall([b EXCEPT !.held = {}])
  BY <1>2 DEF IsCall
<1>3. [c EXCEPT !.pc = pc, !.held = {}] = [[c EXCEPT !.pc = pc] EXCEPT !.held = {}]
  OBVIOUS
<1>4. IsCall([[c EXCEPT !.pc = pc] EXCEPT !.held = {}])
  BY <1>1, <1>2
<1> QED
  BY <1>3, <1>4

LEMMA ThenIs ==
    ASSUME CallsOK, NEW k \in DCalls, NEW pc, Then(k, pc)
    PROVE  CallsOK'
<1> DEFINE new == IF pc = "idle" THEN CallIdle ELSE [dcalls[k] EXCEPT !.pc = pc, !.held = {}]
<1>1. IsCall(dcalls[k])
  BY DEF CallsOK
<1>2. IsCall(new)
  BY <1>1, CallIdleIs, CallGoesOn
<1>3. dcalls' = [dcalls EXCEPT ![k] = new]
  BY DEF Then, CallsOK
<1> HIDE DEF new
<1> QED
  BY <1>2, <1>3, CallIs

LEMMA SetEmptyIs ==
    ASSUME NEW es, SetEmpty(es)
    PROVE  /\ comps' = [e \in Eps |-> comps'[e]]
           /\ \A e \in Eps : comps'[e] = "Up" => comps[e] = "Up" /\ e \notin es
  BY DEF SetEmpty

-----------------------------------------------------------------------------
(* Frames                                                                  *)

\* No discovery marks its row, or is past that and does anything.
MarkedStay ==
    \A d \in Runs : /\ runs[d].pc \in Marked => runs'[d] = runs[d]
                    /\ runs'[d].pc \in Marked => runs'[d] = runs[d]

\* A goroutine may start; those that have marked their row go on.
MayStart ==
    \/ runs' = runs
    \/ \E d \in Runs, e \in Eps, f \in BOOLEAN :
          /\ runs[d] = Idle
          /\ runs' = [runs EXCEPT ![d] = [pc |-> "select", ep |-> e, force |-> f, enabled |-> TRUE]]

LEMMA StartIs ==
    ASSUME NEW e \in Eps, NEW on, NEW rediscover, NEW force \in BOOLEAN,
           Start(e, on, rediscover, force)
    PROVE  MayStart
  BY DEF Start, MayStart

LEMMA MayStartKeeps ==
    ASSUME RunsOK, MayStart
    PROVE  RunsOK' /\ MarkedStay
<1>1. CASE runs' = runs
  BY <1>1 DEF RunsOK, IsRun, MarkedStay
<1>2. CASE runs' # runs
  <2>1. PICK d \in Runs, e \in Eps, f \in BOOLEAN :
           /\ runs[d] = Idle
           /\ runs' = [runs EXCEPT ![d] = [pc |-> "select", ep |-> e, force |-> f, enabled |-> TRUE]]
    BY <1>2 DEF MayStart
  <2> DEFINE new == [pc |-> "select", ep |-> e, force |-> f, enabled |-> TRUE]
  <2>2. IsRun(new) /\ new.pc \notin Marked /\ runs[d].pc \notin Marked
    BY <2>1 DEF IsRun, Marked, Idle
  <2>3. runs' = [runs EXCEPT ![d] = new]
    BY <2>1
  <2> HIDE DEF new
  <2> QED
    <3>1. RunsOK' /\ \A x \in Runs : runs'[x] = IF x = d THEN new ELSE runs[x]
      BY <2>2, <2>3, RunIs
    <3> QED
      BY <2>2, <3>1 DEF MarkedStay
<1> QED
  BY <1>1, <1>2

\* A step that marks no row, ends no marked discovery and takes no locked row away.
LEMMA FrameKeeps ==
    ASSUME DInv, MarkedStay, UNCHANGED <<updaters, lost>>,
           \A e \in Eps : /\ eps'[e].status = "started" => eps[e].status = "started"
                          /\ There(e) /\ RowLocked(e) => eps'[e] # NoRow
    PROVE  UpdatersOK' /\ RowsHeld' /\ StartedHasReason'
<1>1. \A d \in Runs : runs[d].pc = "probe" => runs'[d] = runs[d]
  BY DEF MarkedStay, Marked
<1>2. UpdatersOK'
  BY <1>1 DEF DInv, UpdatersOK, InMap
<1>3. ASSUME NEW d \in Runs, runs'[d].pc = "row"
      PROVE  eps'[runs'[d].ep] # NoRow
  <2>1. runs'[d] = runs[d]
    BY <1>3 DEF MarkedStay, Marked
  <2>2. runs[d].ep \in Eps
    BY <1>3, <2>1 DEF DInv, Shape, RunsOK, IsRun
  <2>3. There(runs[d].ep) /\ RowLocked(runs[d].ep)
    BY <1>3, <2>1 DEF DInv, RowsHeld, RowLocked
  <2> QED
    BY <2>1, <2>2, <2>3
<1>4. StartedHasReason'
  BY DEF DInv, StartedHasReason, MarkedStay
<1> QED
  <2>1. RowsHeld'
    BY <1>3 DEF RowsHeld, There
  <2> QED
    BY <1>2, <1>4, <2>1

\* A step of one discovery.
LEMMA RunMoves ==
    ASSUME DInv, NEW d \in Runs, UNCHANGED updaters,
           \A x \in Runs \ {d} : runs'[x] = runs[x],
           \A e \in Eps : There(e) => eps'[e] # NoRow,
           runs'[d].pc = "row" => runs'[d].ep \in Eps /\ There(runs'[d].ep),
           runs[d].pc # "probe" \/ MapFree(At(d)),
           \A e \in Eps : eps'[e].status = "started" =>
               \/ e \in lost'
               \/ runs'[d].pc \in Marked /\ runs'[d].ep = e
               \/ /\ eps[e].status = "started" /\ e \notin lost
                  /\ ~(runs[d].pc \in Marked /\ runs[d].ep = e)
    PROVE  UpdatersOK' /\ RowsHeld' /\ StartedHasReason'
<1>1. UpdatersOK'
  <2> SUFFICES ASSUME NEW i \in Instances, updaters[i] # <<>>
               PROVE  DOMAIN updaters[i] \subseteq InMap(i)'
    BY DEF UpdatersOK
  <2>1. \A x \in Runs : At(x) = i /\ runs[x].pc = "probe" => x # d
    BY DEF MapFree
  <2>2. InMap(i) \subseteq InMap(i)'
    BY <2>1 DEF InMap
  <2> QED
    BY <2>2 DEF DInv, UpdatersOK
<1>2. RowsHeld'
  <2> SUFFICES ASSUME NEW x \in Runs, runs'[x].pc = "row"
               PROVE  eps'[runs'[x].ep] # NoRow
    BY DEF RowsHeld, There
  <2>1. runs'[x].ep \in Eps /\ There(runs'[x].ep)
    BY DEF DInv, RowsHeld, Shape, RunsOK, IsRun
  <2> QED
    BY <2>1
<1>3. StartedHasReason'
  <2> SUFFICES ASSUME NEW e \in Eps, eps'[e].status = "started"
               PROVE  e \in lost' \/ \E x \in Runs : runs'[x].ep = e /\ runs'[x].pc \in Marked
    BY DEF StartedHasReason
  <2>1. CASE eps[e].status = "started" /\ e \notin lost /\ ~(runs[d].pc \in Marked /\ runs[d].ep = e)
    BY <2>1 DEF DInv, StartedHasReason
  <2> QED
    BY <2>1
<1> QED
  BY <1>1, <1>2, <1>3

\* A step that sets no component up and takes nothing away.
LEMMA UpKeeps ==
    ASSUME UpHasEndpoint,
           \A e \in Eps : /\ comps'[e] = "Up" => comps[e] = "Up"
                          /\ There(e) => eps'[e] # NoRow,
           ceps \cup missed \subseteq ceps' \cup missed',
           ceps' \cup seps' \subseteq ceps \cup seps
    PROVE  UpHasEndpoint'
  BY DEF UpHasEndpoint, There

\* An invariant of its shape.
LEMMA ShapeParts ==
    ASSUME DInv
    PROVE  /\ EpsOK /\ RunsOK /\ CallsOK
           /\ \A e \in Eps : eps[e].status # "none" <=> There(e)
           /\ \A e \in Eps : eps[e].enabled = TRUE => There(e)
           /\ \A k \in DCalls : dcalls[k].ids \subseteq Eps
           /\ \A d \in Runs : runs[d].pc # "idle" => runs[d].ep \in Eps
<1>1. NoRow.status = "none" /\ NoRow.enabled = FALSE
  BY DEF NoRow
<1> QED
  BY <1>1 DEF DInv, Shape, EpsOK, RunsOK, CallsOK, IsEp, IsRun, IsCall, There

-----------------------------------------------------------------------------
(* Steps of a discovery                                                    *)

LEMMA SelectForDiscoverKeeps ==
    ASSUME DInv, NEW d \in Runs, SelectForDiscover(d)
    PROVE  DInv'
<1>1. eps' = eps /\ ceps' = ceps /\ seps' = seps /\ comps' = comps /\ updaters' = updaters
      /\ dcalls' = dcalls /\ lost' = lost /\ missed' = missed
  BY DEF SelectForDiscover, tables
<1>2. runs[d].pc = "select" /\ runs[d].pc \notin Marked /\ runs[d].ep \in Eps
  BY ShapeParts DEF SelectForDiscover, Marked
<1>3. RunsOK' /\ runs'[d].pc \notin Marked /\ \A x \in Runs \ {d} : runs'[x] = runs[x]
  <2> DEFINE e == runs[d].ep
             new == [pc |-> "update", ep |-> e, force |-> FALSE, enabled |-> eps[e].enabled]
  <2>1. IsRun(new) /\ new.pc \notin Marked
    BY <1>2 DEF IsRun, Marked
  <2>2. CASE Ends(d)
    BY <2>2, EndsIs, ShapeParts DEF Marked
  <2>3. CASE runs' = [runs EXCEPT ![d] = new]
    <3>1. RunsOK /\ d \in Runs
      BY ShapeParts
    <3> HIDE DEF new
    <3>2. RunsOK' /\ \A x \in Runs : runs'[x] = IF x = d THEN new ELSE runs[x]
      BY <2>1, <2>3, <3>1, RunIs
    <3> QED
      BY <2>1, <3>2
  <2> QED
    BY <2>2, <2>3 DEF SelectForDiscover
<1>4. MarkedStay
  BY <1>2, <1>3 DEF MarkedStay
<1>5. Shape'
  BY <1>1, <1>3 DEF DInv, Shape, EpsOK, CallsOK, IsEp, IsCall
<1>6. UpdatersOK' /\ RowsHeld' /\ StartedHasReason'
  BY <1>1, <1>4, FrameKeeps DEF There
<1>7. UpHasEndpoint'
  BY <1>1 DEF DInv, UpHasEndpoint, There
<1> QED
  BY <1>5, <1>6, <1>7 DEF DInv

LEMMA UpdateRFEndpointForDiscoverKeeps ==
    ASSUME DInv, NEW d \in Runs, UpdateRFEndpointForDiscover(d)
    PROVE  DInv'
<1> DEFINE e == runs[d].ep
<1>1. ceps' = ceps /\ seps' = seps /\ comps' = comps /\ updaters' = updaters
      /\ dcalls' = dcalls /\ lost' = lost /\ missed' = missed
  BY DEF UpdateRFEndpointForDiscover
<1>2. runs[d].pc = "update" /\ e \in Eps
  BY ShapeParts DEF UpdateRFEndpointForDiscover
<1>3. RunsOK' /\ runs'[d].pc = "probe" /\ runs'[d].ep = e /\ \A x \in Runs \ {d} : runs'[x] = runs[x]
  BY <1>2, GotoIs, ShapeParts DEF UpdateRFEndpointForDiscover
<1>4. EpsOK' /\ \A x \in Eps : (There(x)' <=> There(x)) /\ (x # e => eps'[x] = eps[x])
  BY <1>2, UpdateRFEndpointTxIs, ShapeParts DEF UpdateRFEndpointForDiscover
<1>5. Shape'
  BY <1>1, <1>3, <1>4 DEF DInv, Shape, CallsOK, IsCall
<1>6. UpdatersOK' /\ RowsHeld' /\ StartedHasReason'
  <2>1. \A x \in Eps : eps'[x].status = "started" =>
           \/ x \in lost'
           \/ runs'[d].pc \in Marked /\ runs'[d].ep = x
           \/ /\ eps[x].status = "started" /\ x \notin lost
              /\ ~(runs[d].pc \in Marked /\ runs[d].ep = x)
    BY <1>1, <1>2, <1>3, <1>4 DEF Marked
  <2> QED
    BY <1>1, <1>2, <1>3, <1>4, <2>1, RunMoves DEF There
<1>7. UpHasEndpoint'
  BY <1>1, <1>4, UpKeeps DEF DInv, There
<1> QED
  BY <1>5, <1>6, <1>7 DEF DInv

LEMMA updateFromRfEndpointKeeps ==
    ASSUME DInv, NEW d \in Runs, updateFromRfEndpoint(d)
    PROVE  DInv'
<1>1. eps' = eps /\ ceps' = ceps /\ seps' = seps /\ comps' = comps /\ updaters' = updaters
      /\ dcalls' = dcalls /\ lost' = lost /\ missed' = missed
  BY DEF updateFromRfEndpoint, tables
<1>2. runs[d].pc = "probe" /\ MapFree(At(d))
  BY DEF updateFromRfEndpoint
<1>3. RunsOK' /\ runs'[d].pc \in {"store", "report"} /\ runs'[d].ep = runs[d].ep
      /\ \A x \in Runs \ {d} : runs'[x] = runs[x]
  <2>1. PICK pc \in {"store", "report"} : Goto(d, pc)
    BY DEF updateFromRfEndpoint
  <2> QED
    BY <1>2, <2>1, GotoIs, ShapeParts
<1>4. Shape'
  BY <1>1, <1>3 DEF DInv, Shape, EpsOK, CallsOK, IsEp, IsCall
<1>5. UpdatersOK' /\ RowsHeld' /\ StartedHasReason'
  <2>1. \A x \in Eps : eps'[x].status = "started" =>
           \/ x \in lost'
           \/ runs'[d].pc \in Marked /\ runs'[d].ep = x
           \/ /\ eps[x].status = "started" /\ x \notin lost
              /\ ~(runs[d].pc \in Marked /\ runs[d].ep = x)
    BY <1>1, <1>3 DEF Marked
  <2> QED
    BY <1>1, <1>2, <1>3, <2>1, RunMoves DEF There
<1>6. UpHasEndpoint'
  BY <1>1 DEF DInv, UpHasEndpoint, There
<1> QED
  BY <1>4, <1>5, <1>6 DEF DInv

LEMMA UpdateRFEndpointKeeps ==
    ASSUME DInv, NEW d \in Runs, UpdateRFEndpoint(d)
    PROVE  DInv'
<1> DEFINE e == runs[d].ep
<1>1. ceps' = ceps /\ seps' = seps /\ comps' = comps /\ updaters' = updaters
      /\ dcalls' = dcalls /\ lost' = lost \ {e} /\ missed' = missed
  BY DEF UpdateRFEndpoint
<1>2. runs[d].pc = "report" /\ e \in Eps
  BY ShapeParts DEF UpdateRFEndpoint
<1>3. RunsOK' /\ runs'[d].pc = "idle" /\ \A x \in Runs \ {d} : runs'[x] = runs[x]
  BY EndsIs, ShapeParts DEF UpdateRFEndpoint
<1>4. EpsOK' /\ eps'[e].status # "started"
      /\ \A x \in Eps : (There(x)' <=> There(x)) /\ (x # e => eps'[x] = eps[x])
  BY <1>2, UpdateRFEndpointTxIs, ShapeParts DEF UpdateRFEndpoint
<1>5. Shape'
  BY <1>1, <1>3, <1>4 DEF DInv, Shape, CallsOK, IsCall
<1>6. UpdatersOK' /\ RowsHeld' /\ StartedHasReason'
  <2>1. \A x \in Eps : eps'[x].status = "started" =>
           \/ x \in lost'
           \/ runs'[d].pc \in Marked /\ runs'[d].ep = x
           \/ /\ eps[x].status = "started" /\ x \notin lost
              /\ ~(runs[d].pc \in Marked /\ runs[d].ep = x)
    BY <1>1, <1>4
  <2> QED
    BY <1>1, <1>2, <1>3, <1>4, <2>1, RunMoves DEF There
<1>7. UpHasEndpoint'
  BY <1>1, <1>4, UpKeeps DEF DInv, There
<1> QED
  BY <1>5, <1>6, <1>7 DEF DInv

LEMMA LockRowKeeps ==
    ASSUME DInv, NEW d \in Runs, LockRow(d)
    PROVE  DInv'
<1> DEFINE e == runs[d].ep
<1>1. eps' = eps /\ ceps' = ceps /\ seps' = seps /\ comps' = comps /\ updaters' = updaters
      /\ dcalls' = dcalls /\ lost' = lost /\ missed' = missed
  BY DEF LockRow, tables
<1>2. runs[d].pc = "store" /\ e \in Eps
  BY ShapeParts DEF LockRow
<1>3. /\ RunsOK' /\ runs'[d].ep = e
      /\ runs'[d].pc \in {"row", "report"} /\ (runs'[d].pc = "row" => There(e))
      /\ \A x \in Runs \ {d} : runs'[x] = runs[x]
  <2>1. PICK pc \in {"row", "report"} : Goto(d, pc) /\ (pc = "row" => There(e))
    BY DEF LockRow
  <2> QED
    BY <1>2, <2>1, GotoIs, ShapeParts
<1>4. Shape'
  BY <1>1, <1>3 DEF DInv, Shape, EpsOK, CallsOK, IsEp, IsCall
<1>5. UpdatersOK' /\ RowsHeld' /\ StartedHasReason'
  <2>1. \A x \in Eps : eps'[x].status = "started" =>
           \/ x \in lost'
           \/ runs'[d].pc \in Marked /\ runs'[d].ep = x
           \/ /\ eps[x].status = "started" /\ x \notin lost
              /\ ~(runs[d].pc \in Marked /\ runs[d].ep = x)
    BY <1>1, <1>3 DEF Marked
  <2> QED
    BY <1>1, <1>2, <1>3, <2>1, RunMoves DEF There
<1>6. UpHasEndpoint'
  BY <1>1 DEF DInv, UpHasEndpoint, There
<1> QED
  BY <1>4, <1>5, <1>6 DEF DInv

\* The row is there because it has been locked.
LEMMA UpdateAllForRFEndpointKeeps ==
    ASSUME DInv, NEW d \in Runs, UpdateAllForRFEndpoint(d)
    PROVE  DInv'
<1> DEFINE e == runs[d].ep
<1>1. /\ ceps' = ceps \cup {e} /\ seps' = seps \cup {e} /\ comps' = [comps EXCEPT ![e] = "Up"]
      /\ updaters' = updaters /\ dcalls' = dcalls /\ lost' = lost \ {e} /\ missed' = missed \ {e}
  BY DEF UpdateAllForRFEndpoint
<1>2. runs[d].pc = "row" /\ e \in Eps /\ There(e)
  BY ShapeParts DEF UpdateAllForRFEndpoint, DInv, RowsHeld
<1>3. RunsOK' /\ runs'[d].pc = "idle" /\ \A x \in Runs \ {d} : runs'[x] = runs[x]
  BY EndsIs, ShapeParts DEF UpdateAllForRFEndpoint
<1>4. EpsOK' /\ eps'[e].status # "started"
      /\ \A x \in Eps : (There(x)' <=> There(x)) /\ (x # e => eps'[x] = eps[x])
  BY <1>2, UpdateRFEndpointTxIs, ShapeParts DEF UpdateAllForRFEndpoint
<1>5. \A x \in Eps : x # e => comps'[x] = comps[x]
  BY <1>1 DEF DInv, Shape
<1>6. Shape'
  BY <1>1, <1>2, <1>3, <1>4 DEF DInv, Shape, CallsOK, IsCall
<1>7. UpdatersOK' /\ RowsHeld' /\ StartedHasReason'
  <2>1. \A x \in Eps : eps'[x].status = "started" =>
           \/ x \in lost'
           \/ runs'[d].pc \in Marked /\ runs'[d].ep = x
           \/ /\ eps[x].status = "started" /\ x \notin lost
              /\ ~(runs[d].pc \in Marked /\ runs[d].ep = x)
    BY <1>1, <1>4
  <2> QED
    BY <1>1, <1>2, <1>3, <1>4, <2>1, RunMoves DEF There
<1>8. UpHasEndpoint'
  BY <1>1, <1>2, <1>4, <1>5 DEF DInv, UpHasEndpoint, There
<1> QED
  BY <1>6, <1>7, <1>8 DEF DInv

LEMMA StoreFailsKeeps ==
    ASSUME DInv, NEW d \in Runs, StoreFails(d)
    PROVE  DInv'
<1> DEFINE e == runs[d].ep
<1>1. eps' = eps /\ ceps' = ceps /\ seps' = seps /\ comps' = comps /\ updaters' = updaters
      /\ dcalls' = dcalls /\ missed' = missed
  BY DEF StoreFails, tables
<1>2. runs[d].pc \in {"row", "report", "update"} /\ lost \subseteq lost'
  BY DEF StoreFails
<1>3. /\ RunsOK' /\ \A x \in Runs \ {d} : runs'[x] = runs[x]
      /\ runs'[d].pc # "row"
      /\ \/ e \in lost' \/ runs[d].pc = "update"
         \/ runs'[d].pc = "report" /\ runs'[d].ep = e
  <2>1. CASE runs[d].pc = "row" /\ Goto(d, "report")
    BY <2>1, GotoIs, ShapeParts
  <2>2. CASE Ends(d) /\ (e \in lost' \/ runs[d].pc = "update")
    BY <2>2, EndsIs, ShapeParts
  <2> QED
    BY <2>1, <2>2 DEF StoreFails
<1>4. Shape'
  BY <1>1, <1>3 DEF DInv, Shape, EpsOK, CallsOK, IsEp, IsCall
<1>5. UpdatersOK' /\ RowsHeld' /\ StartedHasReason'
  <2>1. \A x \in Eps : eps'[x].status = "started" =>
           \/ x \in lost'
           \/ runs'[d].pc \in Marked /\ runs'[d].ep = x
           \/ /\ eps[x].status = "started" /\ x \notin lost
              /\ ~(runs[d].pc \in Marked /\ runs[d].ep = x)
    BY <1>1, <1>2, <1>3 DEF Marked
  <2> QED
    BY <1>1, <1>2, <1>3, <2>1, RunMoves DEF There
<1>6. UpHasEndpoint'
  BY <1>1 DEF DInv, UpHasEndpoint, There
<1> QED
  BY <1>4, <1>5, <1>6 DEF DInv

-----------------------------------------------------------------------------
(* Threads and faults                                                      *)

LEMMA DiscoverySyncKeeps ==
    ASSUME DInv, NEW i \in Instances, DiscoverySync(i)
    PROVE  DInv'
<1>1. eps' = eps /\ ceps' = ceps /\ seps' = seps /\ comps' = comps /\ updaters' = updaters
      /\ dcalls' = dcalls /\ lost' = lost /\ missed' = missed
  BY DEF DiscoverySync, tables
<1>2. MayStart
  BY DEF DiscoverySync, MayStart
<1>3. RunsOK' /\ MarkedStay
  BY <1>2, MayStartKeeps, ShapeParts
<1>4. Shape'
  BY <1>1, <1>3 DEF DInv, Shape, EpsOK, CallsOK, IsEp, IsCall
<1>5. UpdatersOK' /\ RowsHeld' /\ StartedHasReason'
  BY <1>1, <1>3, FrameKeeps DEF There
<1>6. UpHasEndpoint'
  BY <1>1 DEF DInv, UpHasEndpoint, There
<1> QED
  BY <1>4, <1>5, <1>6 DEF DInv

LEMMA InventoryDiscoverKeeps ==
    ASSUME DInv, doInventoryDiscoverPost
    PROVE  DInv'
<1>1. eps' = eps /\ ceps' = ceps /\ seps' = seps /\ comps' = comps /\ updaters' = updaters
      /\ dcalls' = dcalls /\ lost' = lost /\ missed' = missed
  BY DEF doInventoryDiscoverPost, tables
<1>2. MayStart
  BY StartIs DEF doInventoryDiscoverPost, discoverFromEndpoints
<1>3. RunsOK' /\ MarkedStay
  BY <1>2, MayStartKeeps, ShapeParts
<1>4. Shape'
  BY <1>1, <1>3 DEF DInv, Shape, EpsOK, CallsOK, IsEp, IsCall
<1>5. UpdatersOK' /\ RowsHeld' /\ StartedHasReason'
  BY <1>1, <1>3, FrameKeeps DEF There
<1>6. UpHasEndpoint'
  BY <1>1 DEF DInv, UpHasEndpoint, There
<1> QED
  BY <1>4, <1>5, <1>6 DEF DInv

LEMMA DiscoveryUpdaterKeeps ==
    ASSUME DInv, NEW i \in Instances, DiscoveryUpdater(i)
    PROVE  DInv'
<1> DEFINE new == [e \in InMap(i) |-> eps[e].enabled]
<1>1. eps' = eps /\ ceps' = ceps /\ seps' = seps /\ comps' = comps /\ runs' = runs
      /\ dcalls' = dcalls /\ lost' = lost /\ missed' = missed
      /\ updaters' = [updaters EXCEPT ![i] = new]
  BY DEF DiscoveryUpdater, tables
<1>2. DOMAIN new = InMap(i)
  OBVIOUS
<1> HIDE DEF new
<1>3. Shape'
  BY <1>1 DEF DInv, Shape, EpsOK, RunsOK, CallsOK, IsEp, IsRun, IsCall
<1>4. UpdatersOK'
  <2>1. \A j \in Instances : updaters'[j] = IF j = i THEN new ELSE updaters[j]
    BY <1>1 DEF DInv, Shape
  <2> QED
    BY <1>1, <1>2, <2>1 DEF DInv, UpdatersOK, InMap
<1>5. RowsHeld' /\ StartedHasReason' /\ UpHasEndpoint'
  BY <1>1 DEF DInv, RowsHeld, StartedHasReason, UpHasEndpoint, There
<1> QED
  BY <1>3, <1>4, <1>5 DEF DInv

\* What it has read is still in the map, so a discovery of it is in progress.
LEMMA UpdaterWritesKeeps ==
    ASSUME DInv, NEW i \in Instances, UpdaterWrites(i)
    PROVE  DInv'
<1> DEFINE es == DOMAIN updaters[i]
<1>1. ceps' = ceps /\ seps' = seps /\ comps' = comps /\ runs' = runs
      /\ dcalls' = dcalls /\ lost' = lost /\ missed' = missed
      /\ updaters' = [updaters EXCEPT ![i] = <<>>]
  BY DEF UpdaterWrites
<1>2. es \subseteq InMap(i)
  BY DEF UpdaterWrites, MapFree, DInv, UpdatersOK
<1>3. /\ eps' = [x \in Eps |-> eps'[x]]
      /\ \A x \in Eps : \/ eps'[x] = eps[x]
                        \/ x \in es /\ There(x) /\ eps'[x] = Row("started", updaters[i][x])
  BY DEF UpdaterWrites
<1>4. \A x \in Eps : IsEp(eps'[x]) /\ (There(x) => eps'[x] # NoRow) /\ (eps'[x] # NoRow => There(x))
  BY <1>3, StatusRow, ShapeParts DEF EpsOK, There
<1>5. Shape'
  <2>1. EpsOK'
    BY <1>3, <1>4 DEF EpsOK, IsEp
  <2> QED
    BY <1>1, <2>1 DEF DInv, Shape, RunsOK, CallsOK, IsRun, IsCall
<1>6. UpdatersOK'
  <2>1. \A j \in Instances : updaters'[j] = IF j = i THEN <<>> ELSE updaters[j]
    BY <1>1 DEF DInv, Shape
  <2> QED
    BY <1>1, <2>1 DEF DInv, UpdatersOK, InMap
<1>7. RowsHeld'
  <2>1. \A d \in Runs : runs[d].pc = "row" => runs[d].ep \in Eps /\ There(runs[d].ep)
    BY ShapeParts DEF DInv, RowsHeld
  <2> QED
    BY <1>1, <1>4, <2>1 DEF RowsHeld, There
<1>8. StartedHasReason'
  <2> SUFFICES ASSUME NEW e \in Eps, eps'[e].status = "started"
               PROVE  e \in lost \/ \E d \in Runs : runs[d].ep = e /\ runs[d].pc \in Marked
    BY <1>1 DEF StartedHasReason
  <2>1. CASE eps'[e] = eps[e]
    BY <2>1 DEF DInv, StartedHasReason
  <2>2. CASE e \in es
    BY <1>2, <2>2 DEF InMap, Marked
  <2> QED
    BY <1>3, <2>1, <2>2
<1>9. UpHasEndpoint'
  BY <1>1, <1>4, UpKeeps DEF DInv
<1> QED
  BY <1>5, <1>6, <1>7, <1>8, <1>9 DEF DInv

LEMMA CrashKeeps ==
    ASSUME DInv, NEW i \in Instances, Crash(i)
    PROVE  DInv'
<1>1. eps' = eps /\ ceps' = ceps /\ seps' = seps /\ comps' = comps
      /\ dcalls' = dcalls /\ missed' = missed
  BY DEF Crash, tables
<1>2. IsRun(Idle) /\ Idle.pc = "idle"
  BY DEF IsRun, Idle
<1>3. /\ runs' = [x \in Runs |-> runs'[x]]
      /\ \A x \in Runs : runs'[x] = IF At(x) = i THEN Idle ELSE runs[x]
  BY DEF Crash
<1>4. Shape'
  <2>1. \A x \in Runs : IsRun(runs'[x])
    BY <1>2, <1>3, ShapeParts DEF RunsOK
  <2>2. RunsOK'
    BY <1>3, <2>1 DEF RunsOK, IsRun
  <2>3. updaters' = [j \in Instances |-> updaters'[j]]
    BY DEF Crash, DInv, Shape
  <2> QED
    BY <1>1, <2>2, <2>3 DEF DInv, Shape, EpsOK, CallsOK, IsEp, IsCall
<1>5. UpdatersOK'
  <2>1. \A j \in Instances : updaters'[j] = IF j = i THEN <<>> ELSE updaters[j]
    BY DEF Crash, DInv, Shape
  <2>2. ASSUME NEW j \in Instances, j # i
        PROVE  InMap(j) \subseteq InMap(j)'
    BY <1>3, <2>2 DEF InMap
  <2> QED
    BY <2>1, <2>2 DEF DInv, UpdatersOK
<1>6. RowsHeld'
  BY <1>1, <1>2, <1>3 DEF DInv, RowsHeld, There
<1>7. StartedHasReason'
  <2> SUFFICES ASSUME NEW e \in Eps, eps[e].status = "started"
               PROVE  e \in lost' \/ \E x \in Runs : runs'[x].ep = e /\ runs'[x].pc \in Marked
    BY <1>1 DEF StartedHasReason
  <2>1. lost' = lost \cup {runs[d].ep : d \in {x \in Runs : At(x) = i /\ runs[x].pc \in Marked}}
    BY DEF Crash
  <2>2. CASE e \in lost
    BY <2>1, <2>2
  <2>3. CASE e \notin lost
    <3>1. PICK d \in Runs : runs[d].ep = e /\ runs[d].pc \in Marked
      BY <2>3 DEF DInv, StartedHasReason
    <3>2. CASE At(d) = i
      BY <2>1, <3>1, <3>2
    <3>3. CASE At(d) # i
      BY <1>3, <3>1, <3>3
    <3> QED
      BY <3>2, <3>3
  <2> QED
    BY <2>2, <2>3
<1>8. UpHasEndpoint'
  BY <1>1 DEF DInv, UpHasEndpoint, There
<1> QED
  BY <1>4, <1>5, <1>6, <1>7, <1>8 DEF DInv

LEMMA GrowsOldKeeps ==
    ASSUME DInv, GrowsOld
    PROVE  DInv'
<1>1. ceps' = ceps /\ seps' = seps /\ comps' = comps /\ runs' = runs /\ updaters' = updaters
      /\ dcalls' = dcalls /\ lost' = lost /\ missed' = missed
  BY DEF GrowsOld
<1>2. PICK e \in Eps : eps[e].status = "started" /\ eps' = [eps EXCEPT ![e].fresh = FALSE]
  BY DEF GrowsOld
<1> DEFINE new == [status |-> eps[e].status, enabled |-> eps[e].enabled, fresh |-> FALSE]
<1>3. IsEp(new) /\ new # NoRow /\ new.status = eps[e].status
  BY <1>2 DEF IsEp, NoRow
<1>4. [eps[e] EXCEPT !.fresh = FALSE] = new
  <2>1. IsEp(eps[e])
    BY ShapeParts DEF EpsOK
  <2>2. ASSUME NEW b
        PROVE  [eps[e] EXCEPT !.fresh = b]
                 = [status |-> eps[e].status, enabled |-> eps[e].enabled, fresh |-> b]
    BY <2>1 DEF IsEp
  <2> QED
    BY <2>2
<1>5. eps' = [eps EXCEPT ![e] = new]
  BY <1>2, <1>4
<1> HIDE DEF new
<1>6. EpsOK' /\ \A x \in Eps : eps'[x] = IF x = e THEN new ELSE eps[x]
  BY <1>3, <1>5, RowIs, ShapeParts
<1>7. Shape'
  BY <1>1, <1>6 DEF DInv, Shape, RunsOK, CallsOK, IsRun, IsCall
<1>8. MarkedStay
  BY <1>1 DEF MarkedStay
<1>9. UpdatersOK' /\ RowsHeld' /\ StartedHasReason'
  BY <1>1, <1>3, <1>6, <1>8, FrameKeeps DEF There
<1>10. UpHasEndpoint'
  BY <1>1, <1>3, <1>6, UpKeeps DEF DInv, UpHasEndpoint, There
<1> QED
  BY <1>7, <1>9, <1>10 DEF DInv

LEMMA DeadlockKeeps ==
    ASSUME DInv, Deadlock
    PROVE  DInv'
<1>1. eps' = eps /\ ceps' = ceps /\ seps' = seps /\ comps' = comps /\ updaters' = updaters
      /\ lost' = lost /\ missed' = missed
  BY DEF Deadlock, tables
<1>2. PICK d \in Runs, k \in DCalls :
         /\ runs[d].pc = "row"
         /\ \/ Goto(d, "report") /\ UNCHANGED dcalls
            \/ Then(k, "idle") /\ UNCHANGED runs
  BY DEF Deadlock
<1>3. CASE Goto(d, "report") /\ UNCHANGED dcalls
  <2>1. /\ RunsOK' /\ runs'[d].pc = "report" /\ runs'[d].ep = runs[d].ep
        /\ \A x \in Runs \ {d} : runs'[x] = runs[x]
    BY <1>2, <1>3, GotoIs, ShapeParts
  <2>2. Shape'
    BY <1>1, <1>3, <2>1 DEF DInv, Shape, EpsOK, CallsOK, IsEp, IsCall
  <2>3. \A x \in Eps : eps'[x].status = "started" =>
           \/ x \in lost'
           \/ runs'[d].pc \in Marked /\ runs'[d].ep = x
           \/ /\ eps[x].status = "started" /\ x \notin lost
              /\ ~(runs[d].pc \in Marked /\ runs[d].ep = x)
    BY <1>1, <2>1 DEF Marked
  <2>4. UpdatersOK' /\ RowsHeld' /\ StartedHasReason'
    BY <1>1, <1>2, <2>1, <2>3, RunMoves DEF There
  <2> QED
    BY <1>1, <2>2, <2>4 DEF DInv, UpHasEndpoint, There
<1>4. CASE Then(k, "idle") /\ UNCHANGED runs
  <2>1. CallsOK'
    BY <1>4, ThenIs, ShapeParts
  <2>2. Shape'
    BY <1>1, <1>4, <2>1 DEF DInv, Shape, EpsOK, RunsOK, IsEp, IsRun
  <2> QED
    BY <1>1, <1>4, <2>2 DEF DInv, UpdatersOK, InMap, RowsHeld, StartedHasReason, UpHasEndpoint, There
<1> QED
  BY <1>2, <1>3, <1>4

-----------------------------------------------------------------------------
(* Calls                                                                   *)

\* What every call keeps: it may start a discovery but ends none, it marks no row, and
\* takes no locked one away.
LEMMA CallKeeps ==
    ASSUME DInv, CallsOK', EpsOK', MayStart, UNCHANGED <<updaters, lost>>,
           comps' = [e \in Eps |-> comps'[e]], ceps' \subseteq Eps, seps' \subseteq Eps,
           \A e \in Eps : /\ eps'[e].status = "started" => eps[e].status = "started"
                          /\ There(e) /\ RowLocked(e) => eps'[e] # NoRow,
           UpHasEndpoint'
    PROVE  DInv'
<1>1. RunsOK' /\ MarkedStay
  BY MayStartKeeps, ShapeParts
<1>2. Shape'
  BY <1>1 DEF DInv, Shape
<1>3. UpdatersOK' /\ RowsHeld' /\ StartedHasReason'
  BY <1>1, FrameKeeps
<1> QED
  BY <1>2, <1>3 DEF DInv

LEMMA SetChildCompStatesKeeps ==
    ASSUME DInv, NEW k \in DCalls, NEW op, NEW ids, ids \subseteq Eps, NEW on,
           SetChildCompStatesRFEndpointsTx(k, op, ids, on)
    PROVE  DInv'
<1>1. eps' = eps /\ ceps' = ceps /\ seps' = seps /\ comps' = comps /\ runs' = runs
      /\ updaters' = updaters /\ lost' = lost /\ missed' = missed
  BY DEF SetChildCompStatesRFEndpointsTx, tables
<1>2. CallsOK'
  <2> DEFINE new == [pc |-> "emptied", op |-> op, ids |-> ids, on |-> on, held |-> ids \cap ceps]
  <2>1. IsCall(new)
    BY CallMade
  <2>2. dcalls' = [dcalls EXCEPT ![k] = new]
    BY DEF SetChildCompStatesRFEndpointsTx
  <2> HIDE DEF new
  <2> QED
    BY <2>1, <2>2, CallIs, ShapeParts
<1>3. UpHasEndpoint'
  BY <1>1 DEF DInv, UpHasEndpoint, There
<1>4. EpsOK'
  BY <1>1, ShapeParts DEF EpsOK, IsEp
<1> QED
  BY <1>1, <1>2, <1>3, <1>4, CallKeeps DEF DInv, Shape, MayStart, There

LEMMA CallFailsKeeps ==
    ASSUME DInv, NEW k \in DCalls, CallFails(k)
    PROVE  DInv'
<1>1. eps' = eps /\ ceps' = ceps /\ seps' = seps /\ comps' = comps /\ runs' = runs
      /\ updaters' = updaters /\ lost' = lost /\ missed' = missed
  BY DEF CallFails, tables
<1>2. CallsOK'
  BY ThenIs, ShapeParts DEF CallFails
<1>3. UpHasEndpoint'
  BY <1>1 DEF DInv, UpHasEndpoint, There
<1>4. EpsOK'
  BY <1>1, ShapeParts DEF EpsOK, IsEp
<1> QED
  BY <1>1, <1>2, <1>3, <1>4, CallKeeps DEF DInv, Shape, MayStart, There

LEMMA PatchNoDiscInfoKeeps ==
    ASSUME DInv, PatchRFEndpointNoDiscInfo
    PROVE  DInv'
<1>1. ceps' = ceps /\ seps' = seps /\ comps' = comps /\ updaters' = updaters
      /\ dcalls' = dcalls /\ lost' = lost /\ missed' = missed
  BY DEF PatchRFEndpointNoDiscInfo
<1>2. PICK e \in Eps, on \in BOOLEAN :
         There(e) /\ eps' = [eps EXCEPT ![e].enabled = on] /\ discoverFromEndpoint(e, on, FALSE)
  BY DEF PatchRFEndpointNoDiscInfo
<1>3. MayStart
  BY <1>2, StartIs DEF discoverFromEndpoint
<1>4. EpsOK' /\ \A x \in Eps : (There(x)' <=> There(x)) /\ eps'[x].status = eps[x].status
  BY <1>2, EnabledIs, ShapeParts
<1>5. CallsOK'
  BY <1>1, ShapeParts DEF CallsOK, IsCall
<1>6. UpHasEndpoint'
  BY <1>1, <1>4, UpKeeps DEF DInv, There
<1> QED
  BY <1>1, <1>3, <1>4, <1>5, <1>6, CallKeeps DEF DInv, Shape, There

LEMMA PatchKeeps ==
    ASSUME DInv, NEW k \in DCalls, doRedfishEndpointPatch(k)
    PROVE  DInv'
<1>1. ceps' = ceps /\ seps' = seps /\ runs' = runs /\ updaters' = updaters
      /\ lost' = lost /\ missed' = missed
  BY DEF doRedfishEndpointPatch
<1>2. PICK e \in dcalls[k].ids :
         /\ IF eps[e].enabled
            THEN eps' = [eps EXCEPT ![e].enabled = FALSE] /\ SetEmpty(dcalls[k].held)
            ELSE UNCHANGED <<eps, comps>>
         /\ Then(k, "idle")
  BY DEF doRedfishEndpointPatch
<1>3. CallsOK'
  BY <1>2, ThenIs, ShapeParts
<1>4. /\ EpsOK' /\ comps' = [x \in Eps |-> comps'[x]]
      /\ \A x \in Eps : /\ (There(x)' <=> There(x)) /\ eps'[x].status = eps[x].status
                        /\ comps'[x] = "Up" => comps[x] = "Up"
  <2>1. CASE eps' = [eps EXCEPT ![e].enabled = FALSE] /\ SetEmpty(dcalls[k].held) /\ There(e)
    BY <1>2, <2>1, EnabledIs, SetEmptyIs, ShapeParts
  <2>2. CASE UNCHANGED <<eps, comps>>
    BY <2>2, ShapeParts DEF EpsOK, IsEp, There, DInv, Shape
  <2> QED
    BY <1>2, <2>1, <2>2, ShapeParts
<1>5. UpHasEndpoint'
  BY <1>1, <1>4, UpKeeps DEF DInv, There
<1> QED
  BY <1>1, <1>3, <1>4, <1>5, CallKeeps DEF DInv, Shape, MayStart, There

\* A PUT answers, or goes on with the inventory.
LEMMA PutAnswersIs ==
    ASSUME CallsOK, NEW k \in DCalls, NEW e \in Eps, NEW on, NEW call, IsCall(call),
           PutAnswers(k, e, on, call)
    PROVE  CallsOK' /\ MayStart
<1>1. CASE dcalls' = [dcalls EXCEPT ![k] = [call EXCEPT !.pc = "comp", !.held = {}]] /\ UNCHANGED runs
  <2> DEFINE new == [call EXCEPT !.pc = "comp", !.held = {}]
  <2>1. IsCall(new)
    BY CallGoesOn
  <2>2. dcalls' = [dcalls EXCEPT ![k] = new]
    BY <1>1
  <2> HIDE DEF new
  <2>3. CallsOK'
    BY <2>1, <2>2, CallIs
  <2> QED
    BY <1>1, <2>3 DEF MayStart
<1>2. CASE /\ dcalls' = [dcalls EXCEPT ![k] = CallIdle]
           /\ UNCHANGED runs \/ discoverFromEndpoint(e, on, FALSE)
  BY <1>2, CallIs, CallIdleIs, StartIs DEF MayStart, discoverFromEndpoint
<1> QED
  BY <1>1, <1>2 DEF PutAnswers

LEMMA UpdateNoDiscInfoKeeps ==
    ASSUME DInv, NEW k \in DCalls, NEW e \in Eps, NEW call, IsCall(call),
           UpdateRFEndpointNoDiscInfo(k, e, call)
    PROVE  DInv'
<1>1. ceps' = ceps /\ seps' = seps /\ updaters' = updaters /\ lost' = lost /\ missed' = missed
  BY DEF UpdateRFEndpointNoDiscInfo
<1>2. /\ CallsOK' /\ MayStart /\ EpsOK' /\ comps' = [x \in Eps |-> comps'[x]]
      /\ \A x \in Eps : /\ (There(x)' <=> There(x)) /\ eps'[x].status = eps[x].status
                        /\ comps'[x] = "Up" => comps[x] = "Up"
  <2>1. CASE There(e)
    <3>1. /\ eps' = [eps EXCEPT ![e].enabled = call.on]
          /\ SetEmpty(call.held) /\ PutAnswers(k, e, call.on, call)
      BY <2>1 DEF UpdateRFEndpointNoDiscInfo
    <3>2. CallsOK' /\ MayStart
      BY <3>1, PutAnswersIs, ShapeParts
    <3>3. EpsOK' /\ \A x \in Eps : (There(x)' <=> There(x)) /\ eps'[x].status = eps[x].status
      BY <2>1, <3>1, EnabledIs, ShapeParts
    <3> QED
      BY <3>1, <3>2, <3>3, SetEmptyIs
  <2>2. CASE ~There(e)
    <3> DEFINE new == [call EXCEPT !.pc = "insert", !.held = {}]
    <3>1. dcalls' = [dcalls EXCEPT ![k] = new] /\ UNCHANGED <<eps, comps, runs>>
      BY <2>2 DEF UpdateRFEndpointNoDiscInfo
    <3>2. IsCall(new)
      BY CallGoesOn
    <3> HIDE DEF new
    <3>3. CallsOK'
      BY <3>1, <3>2, CallIs, ShapeParts
    <3> QED
      BY <3>1, <3>3, ShapeParts DEF EpsOK, IsEp, There, DInv, Shape, MayStart
  <2> QED
    BY <2>1, <2>2
<1>3. UpHasEndpoint'
  BY <1>1, <1>2, UpKeeps DEF DInv, There
<1> QED
  BY <1>1, <1>2, <1>3, CallKeeps DEF DInv, Shape, There

LEMMA PutKeeps ==
    ASSUME DInv, NEW k \in DCalls, doRedfishEndpointPut(k)
    PROVE  DInv'
<1>1. ASSUME NEW e \in Eps,
             UpdateRFEndpointNoDiscInfo(k, e, [CallIdle EXCEPT !.op = "put", !.ids = {e}, !.on = TRUE])
      PROVE  DInv'
  <2>1. IsCall([CallIdle EXCEPT !.op = "put", !.ids = {e}, !.on = TRUE])
    <3>1. ASSUME NEW c, IsCall(c), NEW op
          PROVE  IsCall([c EXCEPT !.op = op])
      BY <3>1 DEF IsCall
    <3>2. ASSUME NEW c, IsCall(c)
          PROVE  IsCall([c EXCEPT !.ids = {e}])
      BY <3>2 DEF IsCall
    <3>3. ASSUME NEW c, IsCall(c), NEW on
          PROVE  IsCall([c EXCEPT !.on = on])
      BY <3>3 DEF IsCall
    <3>4. IsCall([[[CallIdle EXCEPT !.op = "put"] EXCEPT !.ids = {e}] EXCEPT !.on = TRUE])
      BY <3>1, <3>2, <3>3, CallIdleIs
    <3>5. [CallIdle EXCEPT !.op = "put", !.ids = {e}, !.on = TRUE]
            = [[[CallIdle EXCEPT !.op = "put"] EXCEPT !.ids = {e}] EXCEPT !.on = TRUE]
      OBVIOUS
    <3> QED
      BY <3>4, <3>5
  <2> QED
    BY <1>1, <2>1, UpdateNoDiscInfoKeeps
<1>2. ASSUME NEW e \in dcalls[k].ids, UpdateRFEndpointNoDiscInfo(k, e, dcalls[k])
      PROVE  DInv'
  <2>1. IsCall(dcalls[k]) /\ e \in Eps
    BY ShapeParts DEF CallsOK
  <2> QED
    BY <1>2, <2>1, UpdateNoDiscInfoKeeps
<1> QED
  BY <1>1, <1>2 DEF doRedfishEndpointPut

\* An endpoint is new, or there is none.
LEMMA InsertIs ==
    ASSUME EpsOK, NEW e \in Eps, NEW on, InsertRFEndpointTx(e, on)
    PROVE  EpsOK' /\ \A x \in Eps : /\ There(x) => eps'[x] # NoRow
                                    /\ eps'[x].status = "started" => eps[x].status = "started"
<1> DEFINE new == Row("new", on)
<1>1. IsEp(new) /\ new.status = "new" /\ new # NoRow
  BY StatusRow
<1>2. eps' = [eps EXCEPT ![e] = new]
  BY DEF InsertRFEndpointTx
<1> HIDE DEF new
<1>3. EpsOK' /\ \A x \in Eps : eps'[x] = IF x = e THEN new ELSE eps[x]
  BY <1>1, <1>2, RowIs
<1> QED
  BY <1>1, <1>3 DEF There

LEMMA InsertKeeps ==
    ASSUME DInv, NEW k \in DCalls, InsertRFEndpoint(k)
    PROVE  DInv'
<1>1. ceps' = ceps /\ seps' = seps /\ comps' = comps /\ updaters' = updaters
      /\ lost' = lost /\ missed' = missed
  BY DEF InsertRFEndpoint
<1>2. PICK e \in dcalls[k].ids :
         IF There(e) THEN Then(k, "idle") /\ UNCHANGED <<eps, runs>>
                     ELSE /\ PutAnswers(k, e, dcalls[k].on, dcalls[k])
                          /\ InsertRFEndpointTx(e, dcalls[k].on)
  BY DEF InsertRFEndpoint
<1>3. e \in Eps /\ IsCall(dcalls[k])
  BY ShapeParts DEF CallsOK
<1>4. CallsOK' /\ MayStart
  <2>1. CASE Then(k, "idle") /\ UNCHANGED runs
    BY <2>1, ThenIs, ShapeParts DEF MayStart
  <2>2. CASE PutAnswers(k, e, dcalls[k].on, dcalls[k])
    BY <1>3, <2>2, PutAnswersIs, ShapeParts
  <2> QED
    BY <1>2, <2>1, <2>2
<1>5. EpsOK' /\ \A x \in Eps : /\ There(x) => eps'[x] # NoRow
                               /\ eps'[x].status = "started" => eps[x].status = "started"
  <2>1. CASE eps' = eps
    BY <2>1, ShapeParts DEF EpsOK, IsEp, There
  <2>2. CASE InsertRFEndpointTx(e, dcalls[k].on)
    BY <1>3, <2>2, InsertIs, ShapeParts
  <2> QED
    BY <1>2, <2>1, <2>2
<1>6. UpHasEndpoint'
  BY <1>1, <1>5, UpKeeps DEF DInv
<1> QED
  BY <1>1, <1>4, <1>5, <1>6, CallKeeps DEF DInv, Shape

LEMMA PostKeeps ==
    ASSUME DInv, NEW k \in DCalls, doRedfishEndpointsPost(k)
    PROVE  DInv'
<1>1. ceps' = ceps /\ seps' = seps /\ comps' = comps /\ updaters' = updaters
      /\ lost' = lost /\ missed' = missed
  BY DEF doRedfishEndpointsPost
<1>2. PICK e \in Eps, on \in BOOLEAN, given \in BOOLEAN :
         /\ InsertRFEndpointTx(e, on)
         /\ IF enableDiscovery THEN discoverFromEndpoints(e, on, TRUE, FALSE) ELSE UNCHANGED runs
         /\ dcalls' = [dcalls EXCEPT ![k] = IF given THEN [CallIdle EXCEPT !.pc = "comp", !.op = "post", !.ids = {e}]
                                            ELSE CallIdle]
  BY DEF doRedfishEndpointsPost
<1>3. IsCall([CallIdle EXCEPT !.pc = "comp", !.op = "post", !.ids = {e}])
  <2>1. ASSUME NEW c, IsCall(c), NEW pc
        PROVE  IsCall([c EXCEPT !.pc = pc])
    BY <2>1 DEF IsCall
  <2>2. ASSUME NEW c, IsCall(c)
        PROVE  IsCall([c EXCEPT !.op = "post"])
    BY <2>2 DEF IsCall
  <2>3. ASSUME NEW c, IsCall(c)
        PROVE  IsCall([c EXCEPT !.ids = {e}])
    BY <2>3 DEF IsCall
  <2>4. IsCall([[[CallIdle EXCEPT !.pc = "comp"] EXCEPT !.op = "post"] EXCEPT !.ids = {e}])
    BY <2>1, <2>2, <2>3, CallIdleIs
  <2>5. [CallIdle EXCEPT !.pc = "comp", !.op = "post", !.ids = {e}]
          = [[[CallIdle EXCEPT !.pc = "comp"] EXCEPT !.op = "post"] EXCEPT !.ids = {e}]
    OBVIOUS
  <2> QED
    BY <2>4, <2>5
<1>4. CallsOK'
  <2> DEFINE new == IF given THEN [CallIdle EXCEPT !.pc = "comp", !.op = "post", !.ids = {e}]
                    ELSE CallIdle
  <2>1. IsCall(new)
    BY <1>3, CallIdleIs
  <2>2. dcalls' = [dcalls EXCEPT ![k] = new]
    BY <1>2
  <2> HIDE DEF new
  <2> QED
    BY <2>1, <2>2, CallIs, ShapeParts
<1>5. MayStart
  BY <1>2, StartIs DEF MayStart, discoverFromEndpoints
<1>6. EpsOK' /\ \A x \in Eps : /\ There(x) => eps'[x] # NoRow
                               /\ eps'[x].status = "started" => eps[x].status = "started"
  BY <1>2, InsertIs, ShapeParts
<1>7. UpHasEndpoint'
  BY <1>1, <1>6, UpKeeps DEF DInv
<1> QED
  BY <1>1, <1>4, <1>5, <1>6, <1>7, CallKeeps DEF DInv, Shape

\* A component that is set up before its component endpoint has missed it.
LEMMA StoreInventoryKeeps ==
    ASSUME DInv, NEW k \in DCalls, NEW e \in dcalls[k].ids, NEW state, StoreInventory(k, e, state)
    PROVE  DInv'
<1>1. /\ eps' = eps /\ ceps' = ceps /\ seps' = seps /\ runs' = runs
      /\ updaters' = updaters /\ lost' = lost
      /\ comps' = [comps EXCEPT ![e] = state]
      /\ missed' = IF e \in ceps THEN missed ELSE missed \cup {e}
  BY DEF StoreInventory
<1>2. CallsOK'
  BY ThenIs, ShapeParts DEF StoreInventory
<1>3. \A x \in Eps : x # e => comps'[x] = comps[x]
  BY <1>1 DEF DInv, Shape
<1>4. UpHasEndpoint'
  BY <1>1, <1>3 DEF DInv, UpHasEndpoint, There
<1>5. EpsOK' /\ comps' = [x \in Eps |-> comps'[x]]
  BY <1>1 DEF DInv, Shape, EpsOK, IsEp
<1> QED
  BY <1>1, <1>2, <1>4, <1>5, CallKeeps DEF DInv, Shape, MayStart, There

LEMMA UpsertKeeps ==
    ASSUME DInv, NEW k \in DCalls, UpsertCompEndpoint(k)
    PROVE  DInv'
<1>1. eps' = eps /\ seps' = seps /\ comps' = comps /\ updaters' = updaters /\ lost' = lost
  BY DEF UpsertCompEndpoint
<1>2. PICK e \in dcalls[k].ids :
         /\ IF There(e) THEN ceps' = ceps \cup {e} /\ missed' = missed \ {e} ELSE UNCHANGED <<ceps, missed>>
         /\ IF dcalls[k].op = "put" /\ enableDiscovery /\ There(e)
            THEN discoverFromEndpoint(e, dcalls[k].on, FALSE) ELSE UNCHANGED runs
         /\ Then(k, "idle")
  BY DEF UpsertCompEndpoint
<1>3. e \in Eps
  BY ShapeParts
<1>4. CallsOK'
  BY <1>2, ThenIs, ShapeParts
<1>5. MayStart
  BY <1>2, <1>3, StartIs DEF MayStart, discoverFromEndpoint
<1>6. UpHasEndpoint' /\ ceps' \subseteq Eps
  BY <1>1, <1>2, <1>3 DEF DInv, Shape, UpHasEndpoint, There
<1>7. EpsOK'
  BY <1>1, ShapeParts DEF EpsOK, IsEp
<1> QED
  BY <1>1, <1>4, <1>5, <1>6, <1>7, CallKeeps DEF DInv, Shape, There

\* What the delete has not emptied is what a call or a discovery has put there since.
LEMMA DeleteKeeps ==
    ASSUME DInv, NEW k \in DCalls, DeleteRFEndpointByIDSetEmpty(k)
    PROVE  DInv'
<1> DEFINE ids == {e \in dcalls[k].ids : There(e)}
<1>1. /\ runs' = runs /\ updaters' = updaters /\ lost' = lost
      /\ \A e \in ids : ~RowLocked(e)
      /\ eps' = [e \in Eps |-> IF e \in ids THEN NoRow ELSE eps[e]]
      /\ ceps' = ceps \ ids /\ seps' = seps \ ids
      /\ SetEmpty(ids \cap dcalls[k].held)
      /\ missed' = missed \cup ((ceps \cap ids) \ dcalls[k].held)
  BY DEF DeleteRFEndpointByIDSetEmpty
<1>2. CallsOK'
  BY ThenIs, ShapeParts DEF DeleteRFEndpointByIDSetEmpty
<1>3. \A e \in Eps : eps'[e] = IF e \in ids THEN NoRow ELSE eps[e]
  BY <1>1
<1>4. EpsOK' /\ \A e \in Eps : /\ eps'[e].status = "started" => eps[e].status = "started"
                               /\ There(e) /\ RowLocked(e) => eps'[e] # NoRow
  <2>1. IsEp(NoRow) /\ NoRow.status = "none"
    BY DEF IsEp, NoRow
  <2>2. \A e \in Eps : IsEp(eps'[e])
    BY <1>3, <2>1, ShapeParts DEF EpsOK
  <2>3. eps' = [e \in Eps |-> eps'[e]]
    BY <1>1
  <2>4. EpsOK'
    BY <2>2, <2>3 DEF EpsOK, IsEp
  <2> QED
    BY <1>1, <1>3, <2>1, <2>4 DEF There
<1>5. /\ comps' = [e \in Eps |-> comps'[e]]
      /\ \A e \in Eps : comps'[e] = "Up" => comps[e] = "Up" /\ e \notin ids \cap dcalls[k].held
  BY <1>1, SetEmptyIs
<1>6. UpHasEndpoint'
  <2> HIDE DEF ids
  <2> SUFFICES ASSUME NEW e \in Eps
               PROVE  /\ comps'[e] = "Up" => e \in ceps' \cup missed'
                      /\ e \in ceps' \cup seps' => eps'[e] # NoRow
    BY DEF UpHasEndpoint, There
  <2> QED
    BY <1>1, <1>3, <1>5 DEF DInv, UpHasEndpoint, There
<1> QED
  <2> HIDE DEF ids
  <2>1. ceps' \subseteq Eps /\ seps' \subseteq Eps
    BY <1>1 DEF DInv, Shape
  <2> QED
    BY <1>1, <1>2, <1>4, <1>5, <1>6, <2>1, CallKeeps DEF MayStart

LEMMA DeleteCompEndpointsKeeps ==
    ASSUME DInv, NEW ids, DeleteCompEndpointsSetEmpty(ids)
    PROVE  DInv'
<1>1. /\ eps' = eps /\ seps' = seps /\ runs' = runs /\ updaters' = updaters
      /\ dcalls' = dcalls /\ lost' = lost /\ missed' = missed
      /\ ceps' = ceps \ ids /\ SetEmpty(ids)
  BY DEF DeleteCompEndpointsSetEmpty
<1>2. EpsOK' /\ CallsOK'
  BY <1>1, ShapeParts DEF EpsOK, IsEp, CallsOK, IsCall
<1>3. /\ comps' = [e \in Eps |-> comps'[e]]
      /\ \A e \in Eps : comps'[e] = "Up" => comps[e] = "Up" /\ e \notin ids
  BY <1>1, SetEmptyIs
<1>4. UpHasEndpoint'
  BY <1>1, <1>3 DEF DInv, UpHasEndpoint, There
<1> QED
  BY <1>1, <1>2, <1>3, <1>4, CallKeeps DEF DInv, Shape, MayStart, There

LEMMA DeleteServiceEndpointsKeeps ==
    ASSUME DInv, NEW ids, DeleteServiceEndpoints(ids)
    PROVE  DInv'
<1>1. /\ eps' = eps /\ ceps' = ceps /\ comps' = comps /\ runs' = runs /\ updaters' = updaters
      /\ dcalls' = dcalls /\ lost' = lost /\ missed' = missed
      /\ seps' = seps \ ids
  BY DEF DeleteServiceEndpoints
<1>2. EpsOK' /\ CallsOK'
  BY <1>1, ShapeParts DEF EpsOK, IsEp, CallsOK, IsCall
<1>3. UpHasEndpoint'
  BY <1>1 DEF DInv, UpHasEndpoint, There
<1> QED
  BY <1>1, <1>2, <1>3, CallKeeps DEF DInv, Shape, MayStart, There

-----------------------------------------------------------------------------
(* The invariant                                                           *)

LEMMA InitInv == DInit => DInv
<1> SUFFICES ASSUME DInit PROVE DInv
  OBVIOUS
<1>1. IsEp(NoRow) /\ NoRow.status = "none" /\ IsRun(Idle) /\ Idle.pc = "idle" /\ IsCall(CallIdle)
  BY CallIdleIs DEF IsEp, NoRow, IsRun, Idle
<1>2. EpsOK
  <2>1. eps = [e \in Eps |-> eps[e]] /\ \A e \in Eps : eps[e] = NoRow
    BY DEF DInit
  <2> QED
    BY <1>1, <2>1 DEF EpsOK
<1>3. RunsOK
  <2>1. runs = [d \in Runs |-> runs[d]] /\ \A d \in Runs : runs[d] = Idle
    BY DEF DInit
  <2> QED
    BY <1>1, <2>1 DEF RunsOK
<1>4. CallsOK
  <2>1. dcalls = [k \in DCalls |-> dcalls[k]] /\ \A k \in DCalls : dcalls[k] = CallIdle
    BY DEF DInit
  <2> QED
    BY <1>1, <2>1 DEF CallsOK
<1>5. Shape
  BY <1>2, <1>3, <1>4 DEF Shape, DInit
<1>6. UpdatersOK
  BY DEF UpdatersOK, DInit
<1>7. RowsHeld /\ StartedHasReason
  BY <1>1 DEF RowsHeld, StartedHasReason, DInit
<1>8. UpHasEndpoint
  BY DEF UpHasEndpoint, DInit
<1> QED
  BY <1>5, <1>6, <1>7, <1>8 DEF DInv

LEMMA StepInv == DInv /\ [DNext]_dVars => DInv'
<1> SUFFICES ASSUME DInv, [DNext]_dVars PROVE DInv'
  OBVIOUS
<1>1. CASE \E d \in Runs : RunStep(d) \/ StoreFails(d)
  BY <1>1, SelectForDiscoverKeeps, UpdateRFEndpointForDiscoverKeeps, updateFromRfEndpointKeeps,
     UpdateRFEndpointKeeps, LockRowKeeps, UpdateAllForRFEndpointKeeps, StoreFailsKeeps DEF RunStep
<1>2. ASSUME NEW k \in DCalls, CallStep(k)
      PROVE  DInv'
  <2>1. CASE parseRedfishEndpointData(k) \/ parseRedfishEndpointDataV2(k) \/ parsePDUData(k)
    BY <2>1, StoreInventoryKeeps
       DEF parseRedfishEndpointData, parseRedfishEndpointDataV2, parsePDUData
  <2>2. CASE \/ doRedfishEndpointPatch(k) \/ doRedfishEndpointPut(k) \/ InsertRFEndpoint(k)
             \/ UpsertCompEndpoint(k) \/ DeleteRFEndpointByIDSetEmpty(k)
    BY <2>2, PatchKeeps, PutKeeps, InsertKeeps, UpsertKeeps, DeleteKeeps
  <2> QED
    BY <1>2, <2>1, <2>2 DEF CallStep
<1>3. ASSUME NEW k \in DCalls,
             \/ CallFails(k) \/ doRedfishEndpointsPost(k) \/ DisablingPatch(k) \/ DisablingPut(k)
             \/ doRedfishEndpointDelete(k) \/ doRedfishEndpointsDeleteAll(k)
      PROVE  DInv'
  <2>1. CASE CallFails(k) \/ doRedfishEndpointsPost(k)
    BY <2>1, CallFailsKeeps, PostKeeps
  <2>2. CASE \/ DisablingPatch(k) \/ DisablingPut(k)
             \/ doRedfishEndpointDelete(k) \/ doRedfishEndpointsDeleteAll(k)
    <3>1. \E ids \in SUBSET Eps, op \in {"patch", "put", "delete"} :
             SetChildCompStatesRFEndpointsTx(k, op, ids, FALSE)
      BY <2>2 DEF DisablingPatch, DisablingPut, doRedfishEndpointDelete, doRedfishEndpointsDeleteAll
    <3> QED
      BY <3>1, SetChildCompStatesKeeps
  <2> QED
    BY <1>3, <2>1, <2>2
<1>4. CASE \E i \in Instances : DiscoverySync(i) \/ DiscoveryUpdater(i) \/ UpdaterWrites(i) \/ Crash(i)
  BY <1>4, DiscoverySyncKeeps, DiscoveryUpdaterKeeps, UpdaterWritesKeeps, CrashKeeps
<1>5. CASE doInventoryDiscoverPost \/ PatchRFEndpointNoDiscInfo
  BY <1>5, InventoryDiscoverKeeps, PatchNoDiscInfoKeeps
<1>6. CASE \/ doComponentEndpointDelete \/ doComponentEndpointsDeleteAll
           \/ doServiceEndpointDelete \/ doServiceEndpointsDeleteAll
  BY <1>6, DeleteCompEndpointsKeeps, DeleteServiceEndpointsKeeps
     DEF doComponentEndpointDelete, doComponentEndpointsDeleteAll,
         doServiceEndpointDelete, doServiceEndpointsDeleteAll
<1>7. CASE GrowsOld \/ Deadlock
  BY <1>7, GrowsOldKeeps, DeadlockKeeps
<1>8. CASE UNCHANGED dVars
  BY <1>8 DEF dVars, DInv, Shape, EpsOK, RunsOK, CallsOK, IsEp, IsRun, IsCall, UpdatersOK, InMap,
              RowsHeld, StartedHasReason, UpHasEndpoint, There
<1> QED
  BY <1>1, <1>2, <1>3, <1>4, <1>5, <1>6, <1>7, <1>8 DEF DNext

\* Only a discovery in progress, or one that has died or failed to write its end, leaves
\* an endpoint marked as started, whatever the updaters write again (discover.go:282,
\* main.go:508).
THEOREM StartedHasReasonHolds == DSpec => []StartedHasReason
<1>1. DInv => StartedHasReason
  BY DEF DInv
<1> QED
  BY InitInv, StepInv, <1>1, PTL DEF DSpec

\* A component that is not Empty has its component endpoint, and that its Redfish
\* endpoint, however deletes and discoveries meet (hmsds-postgres.go:2404-2480).
THEOREM UpHasEndpointHolds == DSpec => []UpHasEndpoint
<1>1. DInv => UpHasEndpoint
  BY DEF DInv
<1> QED
  BY InitInv, StepInv, <1>1, PTL DEF DSpec

=============================================================================
