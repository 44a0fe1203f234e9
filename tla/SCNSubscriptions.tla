-------------------------- MODULE SCNSubscriptions --------------------------
(***************************************************************************)
(* Subscriptions to state change notifications, as one HSM instance sees   *)
(* them.  The truth is a table of the database; the instance keeps a copy  *)
(* (scnSubs) and, derived from it, the lists of URLs to notify (scnSubMap),*)
(* one for each trigger, with a count of the subscriptions that share a    *)
(* URL.  Calls change the table and patch copy and lists; every 30 s a     *)
(* thread rebuilds both.  Calls at other instances change the table only.  *)
(*                                                                         *)
(* Handlers and the refresh hold scnSubLock from before their transaction  *)
(* to the end, so each is one step here.  The workers that notify read the *)
(* lists without the lock, and the lists are edited in place.              *)
(***************************************************************************)
EXTENDS Naturals, FiniteSets, Sequences, SequencesExt

CONSTANTS
    Keys,           \* [name, url]: what a subscription is unique for
    StateTriggers,  \* states to be notified of
    RoleTriggers,   \* roles (sub-roles and software states are alike)
    MaxSubs,        \* bound of the subscription ids handed out
    Twice           \* whether a PATCH may list a trigger twice: {FALSE} or BOOLEAN

ASSUME TriggersAssumption == StateTriggers \cap RoleTriggers = {}
ASSUME MaxSubsAssumption  == MaxSubs \in Nat

VARIABLES
    db,         \* scn_subscriptions: id -> subscription or NoSub
    nextId,     \* the next id
    list,       \* scnSubs: id -> subscription or NoSub
    map,        \* scnSubMap: trigger -> sequence of [url, ref]
    forgot,     \* history: a PUT has left list behind since the last refresh
    stuck,      \* a handler has died with scnSubLock held
    job         \* the JobSCN that is going through its list of URLs

vars == <<db, nextId, list, map, forgot, stuck, job>>

Ids      == 1 .. MaxSubs
Urls     == {k.url : k \in Keys}
Triggers == StateTriggers \cup RoleTriggers
NoSub    == [key |-> [name |-> "none", url |-> "none"], on |-> {}]
Sub(key, on) == [key |-> key, on |-> on]

Listed(f) == {id \in Ids : f[id] # NoSub}
Taken(key, f) == \E id \in Listed(f) : f[id].key = key

EmptyMap == [t \in Triggers |-> << >>]

\* view: the URLs as the job's slice sees them; shared: that slice and the list
\* still have one array; calm: nothing was taken off that array meanwhile.
NoJob == [trigger |-> "none", view |-> << >>, next |-> 1, told |-> << >>,
          first |-> {}, shared |-> FALSE, calm |-> TRUE]

-----------------------------------------------------------------------------
(* Lists of URLs                                                           *)

At(s, u) == {k \in DOMAIN s : s[k].url = u}

\* Variant: a new URL goes to the front, the others move up.
AddUrlFirst(s, u) ==
    IF At(s, u) = {} THEN << [url |-> u, ref |-> 1] >> \o s
    ELSE [k \in DOMAIN s |-> IF k \in At(s, u) THEN [s[k] EXCEPT !.ref = @ + 1] ELSE s[k]]

addSCNUrl(s, u) ==
    IF At(s, u) = {} THEN Append(s, [url |-> u, ref |-> 1])
    ELSE [k \in DOMAIN s |-> IF k \in At(s, u) THEN [s[k] EXCEPT !.ref = @ + 1] ELSE s[k]]

removeSCNUrl(s, u) ==
    IF \E k \in At(s, u) : s[k].ref <= 1
    THEN RemoveAt(s, CHOOSE k \in At(s, u) : s[k].ref <= 1)
    ELSE [k \in DOMAIN s |-> IF k \in At(s, u) THEN [s[k] EXCEPT !.ref = @ - 1] ELSE s[k]]

Added(m, sub) ==
    [t \in Triggers |-> IF t \in sub.on THEN addSCNUrl(m[t], sub.key.url) ELSE m[t]]
Removed(m, sub) ==
    [t \in Triggers |-> IF t \in sub.on THEN removeSCNUrl(m[t], sub.key.url) ELSE m[t]]

\* The lists built from the rows, in the order in which the query returns them.
Built(rows, order) ==
    LET lists[k \in 0 .. Len(order)] ==
            IF k = 0 THEN EmptyMap ELSE Added(lists[k - 1], rows[order[k]])
    IN  lists[Len(order)]

\* The lists become less, then m, edited in place: the job's slice sees its array's
\* new contents.  An append may move the list to a new array.
Edit(less, m) ==
    /\ map' = m
    /\ LET t    == job.trigger
           v    == job.view
           grew == t \in Triggers /\ Len(m[t]) > Len(map[t])
           gone == t \in Triggers /\ \E k \in DOMAIN map[t] : At(less[t], map[t][k].url) = {}
       IN  IF job = NoJob \/ m[t] = map[t] THEN UNCHANGED job
           ELSE \E stays \in IF grew /\ Len(m[t]) > Len(v) THEN BOOLEAN ELSE {TRUE} :
                  job' = [job EXCEPT
                      !.view = [k \in DOMAIN v |-> IF job.shared /\ k <= Len(m[t])
                                                   THEN m[t][k].url ELSE v[k]],
                      !.shared = @ /\ stays,
                      !.calm = @ /\ ~(job.shared /\ gone)]

\* They are built anew.
Renew(l, m) ==
    /\ list' = l
    /\ map' = m
    /\ forgot' = FALSE
    /\ job' = [job EXCEPT !.shared = FALSE]

-----------------------------------------------------------------------------
(* The calls.  here: the call is handled by this instance.                 *)

Elsewhere == UNCHANGED <<list, map, forgot, stuck, job>>
Handled == ~stuck /\ UNCHANGED stuck

doPostSCNSubscription(key, on, here) ==
    LET sub == Sub(key, on)
    IN  /\ nextId <= MaxSubs
        /\ ~Taken(key, db)
        /\ db' = [db EXCEPT ![nextId] = sub]
        /\ nextId' = nextId + 1
        /\ \/ ~here /\ Elsewhere
           \/ /\ here /\ Handled
              /\ list' = [list EXCEPT ![nextId] = sub]
              /\ Edit(map, Added(map, sub))
              /\ UNCHANGED forgot

\* The lists get the new subscription; of the copy only the states change.  The
\* counts of a copy left behind grow with every PUT: one between two refreshes here.
doPutSCNSubscription(id, key, on, here) ==
    LET new  == Sub(key, on)
        kept == [list[id] EXCEPT !.on = (@ \cap RoleTriggers) \cup (on \cap StateTriggers)]
    IN  /\ db[id] # NoSub
        /\ ~Taken(key, [db EXCEPT ![id] = NoSub])
        /\ db' = [db EXCEPT ![id] = new]
        /\ UNCHANGED nextId
        /\ \/ ~here /\ Elsewhere
           \/ /\ here /\ Handled
              /\ IF list[id] = NoSub THEN UNCHANGED <<list, map, forgot, job>>
                 ELSE LET less == Removed(map, list[id])
                      IN  /\ list' = [list EXCEPT ![id] = kept]
                          /\ Edit(less, Added(less, new))
                          /\ kept # new => ~forgot
                          /\ forgot' = (forgot \/ kept # new)

\* A kind of trigger that the patch does not mention stays as it is.
Replaced(old, on) ==
    UNION {IF on \cap kind = {} THEN old \cap kind ELSE on \cap kind :
              kind \in {StateTriggers, RoleTriggers}}

Patched(op, old, on) ==
    CASE op = "add"     -> old \cup on
      [] op = "remove"  -> old \ on
      [] op = "replace" -> Replaced(old, on)

\* Variant: a replacement does not take the old triggers off the lists.
TakenOffUnlessReplaced(op, sub, on) ==
    CASE op = "add"     -> map
      [] op = "remove"  -> Removed(map, Sub(sub.key, on \cap sub.on))
      [] op = "replace" -> map

TakenOff(op, sub, on) ==
    CASE op = "add"     -> map
      [] op = "remove"  -> Removed(map, Sub(sub.key, on \cap sub.on))
      [] op = "replace" -> Removed(map, sub)

PutOn(op, less, sub, on) ==
    CASE op = "add"     -> Added(less, Sub(sub.key, on \ sub.on))
      [] op = "remove"  -> less
      [] op = "replace" -> Added(less, Sub(sub.key, Replaced(sub.on, on)))

\* twice: the request lists its last trigger, which is the last one of the copy
\* too, twice.  The table takes it, but the copy is cut beyond its end: a panic,
\* from which the router recovers without the lock being released.
doPatchSCNSubscription(id, op, on, twice, here) ==
    LET sub == list[id]
    IN  /\ db[id] # NoSub
        /\ db' = [db EXCEPT ![id].on = Patched(op, @, on)]
        /\ UNCHANGED nextId
        /\ \/ ~here /\ Elsewhere
           \/ /\ here /\ ~stuck
              /\ UNCHANGED forgot
              /\ IF sub = NoSub THEN UNCHANGED <<list, map, stuck, job>> ELSE
                 IF twice /\ op = "remove" /\ on \cap sub.on # {}
                 THEN /\ list' = [list EXCEPT ![id].on = @ \ on]
                      /\ stuck' = TRUE
                      /\ UNCHANGED <<map, job>>
                 ELSE /\ list' = [list EXCEPT ![id].on = Patched(op, @, on)]
                      /\ LET less == TakenOff(op, sub, on) IN Edit(less, PutOn(op, less, sub, on))
                      /\ UNCHANGED stuck

doDeleteSCNSubscription(id, here) ==
    /\ db[id] # NoSub
    /\ db' = [db EXCEPT ![id] = NoSub]
    /\ UNCHANGED nextId
    /\ \/ ~here /\ Elsewhere
       \/ /\ here /\ Handled
          /\ UNCHANGED forgot
          /\ IF list[id] = NoSub THEN UNCHANGED <<list, map, job>>
             ELSE /\ list' = [list EXCEPT ![id] = NoSub]
                  /\ Edit(Removed(map, list[id]), Removed(map, list[id]))

doDeleteSCNSubscriptionsAll(here) ==
    /\ db' = [id \in Ids |-> NoSub]
    /\ UNCHANGED nextId
    /\ \/ ~here /\ Elsewhere
       \/ here /\ Handled /\ Renew([id \in Ids |-> NoSub], EmptyMap)

\* Variant: what has been deleted elsewhere stays in the copy.
RefreshAddsOnly ==
    /\ Handled
    /\ LET known == [id \in Ids |-> IF db[id] = NoSub THEN list[id] ELSE db[id]]
       IN  \E order \in SetToSeqs(Listed(known)) : Renew(known, Built(known, order))
    /\ UNCHANGED <<db, nextId>>

SCNSubscriptionRefresh ==
    /\ Handled
    /\ \E order \in SetToSeqs(Listed(db)) : Renew(db, Built(db, order))
    /\ UNCHANGED <<db, nextId>>

-----------------------------------------------------------------------------
(* JobSCN                                                                  *)

RunStart(t) ==
    /\ job = NoJob
    /\ map[t] # << >>
    /\ job' = [trigger |-> t, view |-> [k \in DOMAIN map[t] |-> map[t][k].url], next |-> 1,
               told |-> << >>, first |-> {map[t][k].url : k \in DOMAIN map[t]},
               shared |-> TRUE, calm |-> TRUE]
    /\ UNCHANGED <<db, nextId, list, map, forgot, stuck>>

\* One goroutine for each URL; whether its three tries succeed is not asked.
RunNotifies ==
    /\ job.next <= Len(job.view)
    /\ job' = [job EXCEPT !.next = @ + 1,
                           !.told = IF job.calm THEN Append(@, job.view[job.next]) ELSE << >>]
    /\ UNCHANGED <<db, nextId, list, map, forgot, stuck>>

RunEnds ==
    /\ job # NoJob /\ job.next > Len(job.view)
    /\ job' = NoJob
    /\ UNCHANGED <<db, nextId, list, map, forgot, stuck>>

\* The instance restarts with nothing in memory.
Restart ==
    /\ list' = [id \in Ids |-> NoSub]
    /\ map' = EmptyMap
    /\ forgot' = FALSE
    /\ stuck' = FALSE
    /\ job' = NoJob
    /\ UNCHANGED <<db, nextId>>

-----------------------------------------------------------------------------
Init ==
    /\ db = [id \in Ids |-> NoSub]
    /\ nextId = 1
    /\ list = db
    /\ map = EmptyMap
    /\ forgot = FALSE
    /\ stuck = FALSE
    /\ job = NoJob

\* A request without a trigger is refused.
Requests == (SUBSET Triggers) \ {{}}

Call ==
    \E here \in BOOLEAN :
        \/ \E key \in Keys, on \in Requests :
              \/ doPostSCNSubscription(key, on, here)
              \/ \E id \in Ids : doPutSCNSubscription(id, key, on, here)
        \/ \E id \in Ids, on \in Requests, op \in {"add", "remove", "replace"}, twice \in Twice :
              doPatchSCNSubscription(id, op, on, twice, here)
        \/ \E id \in Ids : doDeleteSCNSubscription(id, here)
        \/ doDeleteSCNSubscriptionsAll(here)

Run == RunNotifies \/ RunEnds \/ \E t \in Triggers : RunStart(t)

Next == Call \/ SCNSubscriptionRefresh \/ Run \/ Restart

Spec == Init /\ [][Next]_vars

\* The refresh thread loops for ever; nobody is obliged to call.
FairSpec == Spec /\ WF_vars(SCNSubscriptionRefresh)
-----------------------------------------------------------------------------
(* Properties                                                              *)

Subscribed(f, t, u) == {id \in Listed(f) : f[id].key.url = u /\ t \in f[id].on}

\* The list has u once, with the count n, or not at all for zero.
Counted(s, u, n) ==
    IF n = 0 THEN At(s, u) = {}
    ELSE \E k \in DOMAIN s : At(s, u) = {k} /\ s[k].ref = n

\* The lists m are those of the subscriptions f.
Matching(m, f) ==
    \A t \in Triggers, u \in Urls : Counted(m[t], u, Cardinality(Subscribed(f, t, u)))

\* What the counts are for: a URL is in the list of a trigger exactly if some
\* subscription of the copy has both, and is counted once for each, through any
\* sequence of calls, whether they find the copy up to date or not; unless a
\* PUT has left the copy behind, until the next refresh.
MapMatchesList == ~forgot /\ ~stuck => Matching(map, list)

\* cmd/smd/smd-api.go:4556-4558, "There is a possibility that the cached
\* subscription table is out of sync with the database. Patch what we have anyway.
\* We'll get corrected by the SCNSubscriptionRefresh() thread": once the table
\* does not change any more, copy and lists agree with it for ever after.
Synced == list = db /\ Matching(map, db)

Converges == <>[][UNCHANGED db /\ ~Restart]_vars => <>[]Synced

\* A job tells every URL that was in the list when it began, and tells it once,
\* if nothing is taken off the list meanwhile: what calls add, and a refresh,
\* do not disturb it, though it reads without the lock.
CalmJobTellsAll ==
    job.next > Len(job.view) /\ job.calm =>
        /\ {job.told[k] : k \in DOMAIN job.told} = job.first
        /\ Len(job.told) = Cardinality(job.first)
=============================================================================
