------------------------------ MODULE RFEvents ------------------------------
(***************************************************************************)
(* Redfish events: the monitor reads them from the message bus and hands   *)
(* each to a worker, which finds the component that the event is about,    *)
(* and for a slot the components in it, in a cache of the component        *)
(* endpoints, and then sets their state.  Many workers run at once, so the *)
(* events of a component may overtake each other, and endpoints are        *)
(* discovered and deleted while a worker is looking them up.               *)
(*                                                                         *)
(* A sync of the cache reads the table with the cache locked: nobody can   *)
(* tell it from one that happens at the moment of the read, so it is one   *)
(* step.  Events that no parser is registered for change nothing and are   *)
(* left out.  The inventory that a worker has stored when a node is        *)
(* powered on is in HWInventory.                                           *)
(***************************************************************************)
EXTENDS Naturals, Sequences, FiniteSets

CONSTANTS
    Xnames,          \* component endpoints; the ID of a Redfish endpoint is one of them
    EpOf,         \* Xnames -> the Redfish endpoint that it is discovered from
    HmsType,      \* Xnames -> HMS type
    SlotOf,       \* controllers in slots -> the slot
    Fits,         \* sets of Xnames: the hardware there may be in the beginning
    Workers,      \* workers of wpRFEvent
    MaxEvents,    \* bound on the events that the hardware sends
    MaxOutside    \* bound on events, fittings, calls and faults together

VARIABLES
    power,        \* the hardware: Xnames -> "On", "Off", or "none" if it is not fitted
    reps,         \* Redfish endpoints
    ceps,         \* component endpoints
    hsm,          \* Xnames -> state of the component, "none" if it is not stored
    asked,        \* endpoints of which a discovery has been started
    read,         \* endpoint -> what its discovery has read: [power, late] or NotRead
    bus,          \* connection to the message bus
    topic,        \* events on the bus
    smapCompEP,   \* the cache: [ids, syncNum]
    worker,       \* worker -> what it is doing
    sent, others, \* counters of what is bounded: events; fittings, calls, faults
    latest,       \* history: Xnames -> number of the last event about it
    unsure,       \* history: Xnames that HSM cannot know the state of
    missed        \* history: Xnames that were seen in the table and then not found

reVars == <<power, reps, ceps, hsm, asked, read, bus, topic, smapCompEP, worker,
            sent, others, latest, unsure, missed>>

Endpoints == {EpOf[x] : x \in Xnames}
HasRow(x) == HmsType[x] # "CabinetPDUController"
Of(ep)    == {x \in Xnames : EpOf[x] = ep}
NotRead   == [power |-> <<>>, late |-> {}]
Resting   == [pc |-> "idle"]
Working   == {w \in Workers : worker[w] # Resting}
Outside   == sent + others < MaxOutside
MaySend   == sent < MaxEvents /\ Outside
Controllers == {"ChassisBMC", "NodeBMC", "RouterBMC"}
Switched    == {"Node", "CabinetPDUPowerConnector"}
Cards       == {"NodeEnclosure", "NodeBMC", "NodeBMCNic"}

\* Redfish endpoints are controllers whose events have a parser (rfevent.go:412-421).
ASSUME EndpointsAssumption ==
    \A x \in Xnames :
        /\ EpOf[x] \in Xnames
        /\ HmsType[EpOf[x]] \in {"ChassisBMC", "NodeBMC", "RouterBMC", "CabinetPDUController"}

\* What is fitted has its controller.
ASSUME FitsAssumption == \A fit \in Fits : \A x \in fit \cap Xnames : EpOf[x] \in fit

\* Slots have controllers in them (rfevent.go:539-541, 585-587), and what a controller in
\* a compute slot reports is a card or a node.
ASSUME SlotsAssumption ==
    /\ DOMAIN SlotOf \subseteq Endpoints
    /\ \A b \in DOMAIN SlotOf : HmsType[SlotOf[b]] \in {"ComputeModule", "RouterModule"}
    /\ \A x \in Xnames :
          EpOf[x] \in DOMAIN SlotOf /\ HmsType[SlotOf[EpOf[x]]] = "ComputeModule" =>
              HmsType[x] \in Cards \cup {"Node"}

-----------------------------------------------------------------------------
(* The hardware                                                            *)

\* The event [ep, of, kind, op]; about: the components whose power has changed.
Sends(ep, of, kind, op, about) ==
    /\ sent' = sent + 1
    /\ topic' = Append(topic, [ep |-> ep, of |-> of, kind |-> kind, op |-> op,
                               about |-> about, seq |-> sent + 1])
    /\ latest' = [x \in Xnames |-> IF x \in about THEN sent + 1 ELSE latest[x]]
    /\ read' = [ep2 \in Endpoints |->
                   IF read[ep2] = NotRead THEN NotRead
                   ELSE [read[ep2] EXCEPT !.late = @ \cup about]]

\* How a switched node or outlet is reported, by controllers of one make or another;
\* an alert may leave the new state out.
Reports(n, new) ==
    {<<"ResourcePowerStateChanged", new>>}
        \cup (IF HmsType[n] # "Node" THEN {}
              ELSE {<<"SystemPower", new>>, <<"Alert", new>>, <<"Alert", "unknown">>})

NodePower(n) ==
    /\ MaySend /\ HmsType[n] \in Switched /\ power[n] # "none" /\ power[EpOf[n]] = "On"
    /\ LET new == IF power[n] = "On" THEN "Off" ELSE "On" IN
       /\ power' = [power EXCEPT ![n] = new]
       /\ \E report \in Reports(n, new) : Sends(EpOf[n], n, report[1], report[2], {n})
    /\ UNCHANGED <<reps, ceps, hsm, asked, bus, smapCompEP, worker, others, unsure, missed>>

\* A slot loses its power with everything in it and gets it back with its cards;
\* what is in it can send nothing of it.
SlotPower(s) ==
    /\ MaySend /\ HmsType[s] \in {"ComputeModule", "RouterModule"} /\ power[s] # "none"
    /\ LET new   == IF power[s] = "On" THEN "Off" ELSE "On"
           bmcs  == {b \in DOMAIN SlotOf : SlotOf[b] = s}
           cards == bmcs \cup {x \in Xnames : EpOf[x] \in bmcs /\
                                  (HmsType[s] = "RouterModule" \/ HmsType[x] # "Node")}
           all   == {s} \cup {x \in Xnames : EpOf[x] \in bmcs /\ power[x] # "none"}
           about == IF new = "Off" THEN all ELSE all \cap ({s} \cup cards) IN
       /\ power' = [x \in Xnames |-> IF x \in about THEN new ELSE power[x]]
       /\ Sends(EpOf[s], s, "ResourcePowerStateChanged", new, about)
    /\ UNCHANGED <<reps, ceps, hsm, asked, bus, smapCompEP, worker, others, unsure, missed>>

Fit(x) ==
    /\ power[x] = "none" /\ HmsType[x] \in Switched /\ power[EpOf[x]] # "none"
    /\ Outside /\ others' = others + 1
    /\ power' = [power EXCEPT ![x] = "Off"]
    /\ UNCHANGED <<reps, ceps, hsm, asked, read, bus, topic, smapCompEP, worker, sent,
                   latest, unsure, missed>>

-----------------------------------------------------------------------------
(* Discovery and deletion, as far as they touch what the events need       *)

DiscoverInventory(ep) ==
    /\ power[ep] # "none" /\ Outside /\ others' = others + 1
    /\ asked' = asked \cup {ep}
    /\ reps' = reps \cup {ep}
    /\ asked' # asked \/ reps' # reps
    /\ UNCHANGED <<power, ceps, hsm, read, bus, topic, smapCompEP, worker, sent,
                   latest, unsure, missed>>

\* It reads the hardware, or fails and changes no component.
GetRootInfo(ep) ==
    /\ ep \in asked
    /\ asked' = asked \ {ep}
    /\ IF power[ep] = "On" /\ read[ep] = NotRead
       THEN read' = [read EXCEPT ![ep] = [power |-> power, late |-> {}]]
       ELSE read' = read
    /\ UNCHANGED <<power, reps, ceps, hsm, bus, topic, smapCompEP, worker, sent, others,
                   latest, unsure, missed>>

\* It stores what it has read, some time later.
UpdateAllForRFEndpoint(ep) ==
    /\ read[ep] # NotRead
    /\ read' = [read EXCEPT ![ep] = NotRead]
    /\ LET ids == {x \in Of(ep) : read[ep].power[x] # "none" /\ HasRow(x)} IN
       IF ep \in reps
       THEN /\ ceps' = ceps \cup ids
            /\ hsm' = [x \in Xnames |-> IF x \in ids THEN read[ep].power[x] ELSE hsm[x]]
            /\ unsure' = (unsure \ ids) \cup (ids \cap read[ep].late)
       ELSE UNCHANGED <<ceps, hsm, unsure>>
    /\ UNCHANGED <<power, reps, asked, bus, topic, smapCompEP, worker, sent, others, latest, missed>>

\* The components become Empty, their endpoints go; the cache is left alone.
DeleteRFEndpointByID(ep) ==
    /\ ep \in reps /\ Outside /\ others' = others + 1
    /\ reps' = reps \ {ep}
    /\ ceps' = ceps \ Of(ep)
    /\ hsm' = [x \in Xnames |-> IF x \in ceps \cap Of(ep) THEN "Empty" ELSE hsm[x]]
    /\ worker' = [w \in Workers |->
                     IF w \in Working THEN [worker[w] EXCEPT !.seen = @ \ Of(ep)] ELSE Resting]
    /\ UNCHANGED <<power, asked, read, bus, topic, smapCompEP, sent, latest, unsure, missed>>

-----------------------------------------------------------------------------
(* The cache                                                               *)

EmptySMap == [ids |-> {}, syncNum |-> 0]

\* A key: the component of an endpoint at a URI (here the URI of `id'), the
\* children of an endpoint, or a component endpoint.
Key(by, ep, id) == [by |-> by, ep |-> ep, id |-> id]

Matches(ids, key) ==
    {x \in ids : (key.by # "value" => EpOf[x] = key.ep) /\ (key.by # "children" => x = key.id)}

LookupKey(key)   == Matches(smapCompEP.ids, key)
LookupValue(key) == Matches(smapCompEP.ids, key)
Lookup(key)      == IF key.by = "value" THEN LookupValue(key) ELSE LookupKey(key)

\* The table is read again unless somebody has done so since syncNum was num.
TrySync(num) ==
    IF smapCompEP.syncNum # num THEN [ok |-> FALSE, map |-> smapCompEP]
    ELSE [ok |-> TRUE, map |-> [ids |-> ceps, syncNum |-> num + 1]]

\* Is the endpoint itself in the table?  PDU controllers have no row of their own.
IsThere(key) ==
    LET id == IF key.by = "value" THEN key.id ELSE key.ep IN
    IF id \in Xnames /\ HmsType[id] = "CabinetPDUController" THEN ceps \cap Of(id) # {}
    ELSE id \in ceps

-----------------------------------------------------------------------------
(* Workers                                                                 *)

InProgress(w) == {topic[i] : i \in DOMAIN topic} \cup {worker[v].e : v \in Working \ {w}}
Overtaken(w, x) ==
    worker[w].e.seq # latest[x]
        /\ ~\E f \in InProgress(w) : x \in f.about /\ f.seq > worker[w].e.seq

\* The event is given up.
Drop(w) ==
    /\ worker' = [worker EXCEPT ![w] = Resting]
    /\ unsure' = unsure \cup {x \in worker[w].e.about :
                                 worker[w].e.seq = latest[x] \/ Overtaken(w, x)}

Start(e, key) ==
    [pc |-> "look", e |-> e, key |-> key, num |-> 0, tries |-> 0, synced |-> FALSE,
     todo |-> {}, ids |-> {}, list |-> {}, seen |-> {}]

\* Which component is at the event's URI?
getIDForURI(e) == Key("uri", e.ep, e.of)
getChildIDsForRfEP(b) == Key("children", b, b)
getCompEPInfo(x) == Key("value", EpOf[x], x)

\* The worker goes on to look for another key.
Seek(j, key) == [j EXCEPT !.pc = "look", !.key = key, !.tries = 0, !.synced = FALSE, !.seen = {}]

Ready(j) == [j EXCEPT !.pc = "update"]

\* Variant: only the cards of a slot, whether it is switched on or off.
generateNcChildIDsCards(op, children) == {x \in children : HmsType[x] \in Cards}

generateNcChildIDs(op, children) ==
    IF op = "On" THEN {x \in children : HmsType[x] \in Cards} ELSE children
generateRcChildIDs(op, children) == children

\* The next controller of the slot, or the update if that was the last.
NextChild(j) ==
    IF j.todo = {} THEN Ready(j)
    ELSE LET b == CHOOSE x \in j.todo : TRUE
         IN [Seek(j, getChildIDsForRfEP(b)) EXCEPT !.todo = j.todo \ {b}]

powerStateCMM(j) ==
    NextChild([j EXCEPT !.todo = {b \in DOMAIN SlotOf : SlotOf[b] = j.e.of}])

\* The inventory of a node that comes up is stored with its endpoint's credentials,
\* if those are found.
AlertSystemPowerOnParser(j) ==
    IF HmsType[j.e.of] = "Node" THEN Seek(j, getCompEPInfo(j.e.of)) ELSE Ready(j)
AlertSystemPowerOffParser(j) == Ready(j)

powerStateNC(j) ==
    IF j.e.op = "On" /\ HmsType[j.e.of] = "Node" THEN Seek(j, getCompEPInfo(j.e.of)) ELSE Ready(j)
powerStateRC(j) == Ready(j)
powerStateCabPDUController(j) == Ready(j)

ResourcePowerStateChangedParser(j) ==
    CASE HmsType[j.e.ep] = "ChassisBMC"           -> powerStateCMM(j)
      [] HmsType[j.e.ep] = "NodeBMC"              -> powerStateNC(j)
      [] HmsType[j.e.ep] = "RouterBMC"            -> powerStateRC(j)
      [] HmsType[j.e.ep] = "CabinetPDUController" -> powerStateCabPDUController(j)

\* Without a state in the alert Redfish is asked for it.
AlertSystemPowerParser(j) ==
    IF j.e.op = "Off" THEN Ready(j) ELSE Seek(j, getCompEPInfo(j.e.of))

GetEventActionParser(j) ==
    CASE j.e.kind = "ResourcePowerStateChanged"          -> ResourcePowerStateChangedParser(j)
      [] j.e.kind = "SystemPower" /\ j.e.op = "On"  -> AlertSystemPowerOnParser(j)
      [] j.e.kind = "SystemPower" /\ j.e.op = "Off" -> AlertSystemPowerOffParser(j)
      [] j.e.kind = "Alert"                              -> AlertSystemPowerParser(j)

\* The state of a node as Redfish has it now.
getCompEPState(j) == power[j.e.of]

\* What a worker does with a key that it has found: R # {}, or not: R = {}.
Looked(w, R) ==
    LET j         == worker[w]
        Goes(k)   == worker' = [worker EXCEPT ![w] = k] /\ UNCHANGED unsure
        Asks      == j.key.by = "value" /\ j.e.kind = "Alert"
        known     == R # {} /\ EpOf[j.e.of] \in reps
        answers   == known /\ (j.e.op = "On" \/ power[EpOf[j.e.of]] = "On") IN
    /\ \/ j.key.by = "uri" /\ R = {} /\ Drop(w)
       \/ j.key.by = "uri" /\ R # {}
             /\ Goes(GetEventActionParser([j EXCEPT !.ids = R, !.list = R]))
       \/ /\ j.key.by = "children"
          /\ LET add == IF HmsType[j.e.of] = "RouterModule" THEN generateRcChildIDs(j.e.op, R)
                        ELSE generateNcChildIDs(j.e.op, R)
             IN Goes(NextChild([j EXCEPT !.ids = @ \cup add, !.list = @ \cup R]))
       \/ j.key.by = "value" /\ ~Asks /\ Goes(Ready(j))
       \/ /\ Asks /\ answers
          /\ Goes(Ready([j EXCEPT !.e.op = IF @ = "On" THEN @ ELSE getCompEPState(j)]))
       \/ Asks /\ ~answers /\ Drop(w)
    /\ UNCHANGED others

Unmoved == <<power, reps, ceps, hsm, asked, read, bus, topic, sent, latest>>

\* Variant: a key that is missing after the first attempt is not there.
LookOnce(w) ==
    LET j == worker[w]
        R == Lookup(j.key) IN
    /\ w \in Working /\ j.pc = "look"
    /\ IF R = {} /\ j.tries = 0
       THEN /\ worker' = [worker EXCEPT ![w].pc = "check", ![w].num = smapCompEP.syncNum]
            /\ UNCHANGED <<others, unsure, missed>>
       ELSE /\ Looked(w, R)
            /\ missed' = IF R = {} THEN missed \cup j.seen ELSE missed
    /\ UNCHANGED <<Unmoved, smapCompEP>>

\* A lookup: two attempts, unless this worker has synced the cache itself.
Look(w) ==
    LET j == worker[w]
        R == Lookup(j.key) IN
    /\ w \in Working /\ j.pc = "look"
    /\ IF R = {} /\ (j.tries = 0 \/ (j.tries = 1 /\ ~j.synced))
       THEN /\ worker' = [worker EXCEPT ![w].pc = "check", ![w].num = smapCompEP.syncNum]
            /\ UNCHANGED <<others, unsure, missed>>
       ELSE /\ Looked(w, R)
            /\ missed' = IF R = {} THEN missed \cup j.seen ELSE missed
    /\ UNCHANGED <<Unmoved, smapCompEP>>

\* Only what is in the table is worth a sync.
checkSyncCompEP(w) ==
    LET j == worker[w] IN
    /\ w \in Working /\ j.pc = "check"
    /\ \/ /\ IsThere(j.key)
          /\ worker' = [worker EXCEPT ![w].pc = "sync", ![w].tries = @ + 1,
                           ![w].seen = IF j.tries = 0 THEN Matches(ceps, j.key) ELSE @]
          /\ UNCHANGED <<others, unsure>>
       \/ ~IsThere(j.key) /\ Looked(w, {})
       \/ Outside /\ others' = others + 1 /\ Drop(w)
    /\ UNCHANGED <<Unmoved, smapCompEP, missed>>

Sync(w) ==
    LET t == TrySync(worker[w].num) IN
    /\ w \in Working /\ worker[w].pc = "sync"
    /\ smapCompEP' = t.map
    /\ worker' = [worker EXCEPT ![w].pc = "look", ![w].synced = t.ok]
    /\ UNCHANGED <<Unmoved, others, unsure, missed>>

\* The update of states is not forced: what is Empty or not stored stays so.
EventUpdate(old, op) == IF old \in {"On", "Off"} THEN op ELSE old

\* The state goes to the database; controllers that come up are discovered again.
doCompUpdate(w) ==
    LET j   == worker[w]
        new == {x \in j.e.about : j.e.seq = latest[x] /\ x \in j.ids \cap ceps}
        bad == {x \in j.e.about \cup j.ids :
                   Overtaken(w, x) \/ (j.e.seq = latest[x] /\ (x \notin j.list \/ x \notin ceps))} IN
    /\ w \in Working /\ j.pc = "update"
    /\ hsm' = [x \in Xnames |-> IF x \in j.ids THEN EventUpdate(hsm[x], j.e.op) ELSE hsm[x]]
    /\ asked' = IF HmsType[j.e.ep] = "ChassisBMC" /\ j.e.op = "On"
                THEN asked \cup {x \in j.ids \cap reps : HmsType[x] \in Controllers}
                ELSE asked
    /\ unsure' = (unsure \ new) \cup bad
    /\ worker' = [worker EXCEPT ![w] = Resting]
    /\ UNCHANGED <<power, reps, ceps, read, bus, topic, smapCompEP, sent, others, latest, missed>>

-----------------------------------------------------------------------------
(* The message bus                                                         *)

\* The monitor queues an event, a worker takes it.
rfEventMonitor(w) ==
    /\ bus = "connected" /\ topic # <<>> /\ w \notin Working
    /\ topic' = Tail(topic)
    /\ worker' = [worker EXCEPT ![w] = Start(Head(topic), getIDForURI(Head(topic)))]
    /\ UNCHANGED <<power, reps, ceps, hsm, asked, read, bus, smapCompEP, sent, others, latest,
                   unsure, missed>>

MsgBusReadFails ==
    /\ bus = "connected" /\ Outside
    /\ bus' = "lost" /\ others' = others + 1
    /\ UNCHANGED <<power, reps, ceps, hsm, asked, read, topic, smapCompEP, worker, sent, latest,
                   unsure, missed>>

\* If the disconnect fails there is no connection, and the monitor does not know.
MsgBusReconnect ==
    /\ bus \in {"closed", "lost"}
    /\ bus' \in {"connected"} \cup (IF bus = "lost" THEN {"closed", "nil"} ELSE {})
    /\ UNCHANGED <<power, reps, ceps, hsm, asked, read, topic, smapCompEP, worker, sent, others,
                   latest, unsure, missed>>

\* The instance dies, of itself or reading from no connection, and starts anew;
\* the events that it has taken from the bus are lost.
Restart ==
    /\ bus = "nil" \/ Outside
    /\ others' = IF bus = "nil" THEN others ELSE others + 1
    /\ bus' = "closed" /\ smapCompEP' = EmptySMap
    /\ worker' = [w \in Workers |-> Resting]
    /\ asked' = {} /\ read' = [ep \in Endpoints |-> NotRead]
    /\ unsure' = unsure \cup UNION {worker[w].e.about : w \in Working}
    /\ UNCHANGED <<power, reps, ceps, hsm, topic, sent, latest, missed>>

-----------------------------------------------------------------------------
REInit ==
    /\ \E fit \in Fits :
           power = [x \in Xnames |-> IF x \notin fit THEN "none"
                                  ELSE IF HmsType[x] \in Switched THEN "Off" ELSE "On"]
    /\ reps = {ep \in Endpoints : power[ep] # "none"}
    /\ \E new \in {{}} \cup {{ep} : ep \in reps} :
          /\ ceps = {x \in Xnames : power[x] # "none" /\ HasRow(x) /\ EpOf[x] \notin new}
          /\ asked = new
    /\ hsm = [x \in Xnames |-> IF x \in ceps THEN power[x] ELSE "none"]
    /\ read = [ep \in Endpoints |-> NotRead]
    /\ bus = "closed" /\ topic = <<>> /\ smapCompEP = EmptySMap
    /\ worker = [w \in Workers |-> Resting]
    /\ sent = 0 /\ others = 0
    /\ latest = [x \in Xnames |-> 0] /\ unsure = {} /\ missed = {}

REStep(w) == rfEventMonitor(w) \/ Look(w) \/ checkSyncCompEP(w) \/ Sync(w) \/ doCompUpdate(w)

RENext ==
    \/ \E x \in Xnames : NodePower(x) \/ SlotPower(x) \/ Fit(x)
    \/ \E ep \in Endpoints :
          DiscoverInventory(ep) \/ GetRootInfo(ep) \/ UpdateAllForRFEndpoint(ep)
              \/ DeleteRFEndpointByID(ep)
    \/ \E w \in Workers : REStep(w)
    \/ MsgBusReadFails \/ MsgBusReconnect \/ Restart

RESpec == REInit /\ [][RENext]_reVars

-----------------------------------------------------------------------------
(* Properties                                                              *)

\* Every variable has its type, and there are component endpoints of registered
\* Redfish endpoints only.
RETypeOK ==
    /\ power \in [Xnames -> {"On", "Off", "none"}] /\ reps \subseteq Endpoints
    /\ ceps \subseteq Xnames /\ \A x \in ceps : EpOf[x] \in reps
    /\ hsm \in [Xnames -> {"On", "Off", "Empty", "none"}]
    /\ asked \subseteq Endpoints
    /\ \A ep \in Endpoints : read[ep] = NotRead \/ read[ep].late \subseteq Xnames
    /\ bus \in {"closed", "connected", "lost", "nil"}
    /\ smapCompEP.ids \subseteq Xnames
    /\ \A w \in Working : worker[w].pc \in {"look", "check", "sync", "update"}
                          /\ worker[w].tries \in 0..2

\* What a lookup sees in the table at its first check it also finds, unless it is
\* deleted meanwhile, whoever else fills the cache at that time: that is what
\* the second attempt is for.
KnownIsFound == missed = {}

\* When all events have been handled, HSM shows the power that the hardware has,
\* of all components but those of which it cannot know better: their last event
\* was lost or overtaken by an older one (also one of their slot from before they
\* were fitted), came before they were discovered (or before the cached list of
\* children had them), or while a discovery that had read them before was still to
\* be stored.  What is deleted then is Empty, though
\* the cache still has it and its events still come.
SettlesOnPower ==
    topic = <<>> /\ Working = {} =>
        \A x \in Xnames : IF x \in ceps THEN x \in unsure \/ hsm[x] = power[x]
                                        ELSE hsm[x] \in {"Empty", "none"}

=============================================================================
