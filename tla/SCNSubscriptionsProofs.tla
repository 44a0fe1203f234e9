----------------------- MODULE SCNSubscriptionsProofs -----------------------
(***************************************************************************)
(* Theorems about SCNSubscriptions, for every set of subscribers, URLs and *)
(* triggers.  The argument has two parts.  The lists agree with the copy:  *)
(* each call changes one row and takes off, then puts on, exactly what the *)
(* row loses and gains; a refresh puts on row after row, by induction over *)
(* the order of the query.  And a job is not disturbed: what it has told   *)
(* is the beginning of what it sees, and what it sees is the beginning of  *)
(* the list as long as both share an array from which nothing was taken.   *)
(***************************************************************************)
EXTENDS SCNSubscriptions, FiniteSetTheorems, WellFoundedInduction, TLAPS

Entry == [url : Urls, ref : Nat \ {0}]

\* A URL is in a list once.
UrlList(s) ==
    /\ s \in Seq(Entry)
    /\ \A j, k \in DOMAIN s : s[j].url = s[k].url => j = k

\* Every URL of s is at its place in r too.
Extends(s, r) == Len(s) <= Len(r) /\ \A k \in 1..Len(s) : r[k].url = s[k].url

\* r is s, or a URL is off it.
Thinned(s, r) == Extends(s, r) \/ \E k \in DOMAIN s : At(r, s[k].url) = {}

-----------------------------------------------------------------------------
(* Lists of URLs                                                           *)

\* A function on 1..n is a sequence.
LEMMA FunctionIsSeq ==
    ASSUME NEW n \in Nat, NEW S, NEW s,
           s = [k \in 1..n |-> s[k]], \A k \in 1..n : s[k] \in S
    PROVE  s \in Seq(S) /\ Len(s) = n /\ DOMAIN s = 1..n
    OBVIOUS

LEMMA RemoveAtIs ==
    ASSUME NEW S, NEW s \in Seq(S), NEW i \in 1..Len(s)
    PROVE  /\ RemoveAt(s, i) \in Seq(S)
           /\ Len(RemoveAt(s, i)) = Len(s) - 1
           /\ \A k \in 1..(Len(s) - 1) : RemoveAt(s, i)[k] = IF k < i THEN s[k] ELSE s[k + 1]
<1> DEFINE x == SubSeq(s, 1, i - 1)
           y == SubSeq(s, i + 1, Len(s))
<1>1. x \in Seq(S) /\ Len(x) = i - 1 /\ \A k \in 1..(i - 1) : x[k] = s[k]
    OBVIOUS
<1>2. y \in Seq(S) /\ Len(y) = Len(s) - i /\ \A k \in 1..(Len(s) - i) : y[k] = s[i + k]
    OBVIOUS
<1>3. RemoveAt(s, i) = x \o y
    BY DEF RemoveAt
<1> HIDE DEF x, y
<1>4. x \o y \in Seq(S) /\ Len(x \o y) = Len(s) - 1
    BY <1>1, <1>2
<1>5. ASSUME NEW k \in 1..(Len(s) - 1)
      PROVE  (x \o y)[k] = IF k < i THEN s[k] ELSE s[k + 1]
    <2>1. CASE k < i
        BY <1>1, <1>2, <2>1
    <2>2. CASE ~(k < i)
        <3>1. (x \o y)[k] = y[k - (i - 1)] /\ k - (i - 1) \in 1..(Len(s) - i)
            BY <1>1, <1>2, <2>2
        <3> QED
            BY <1>2, <2>2, <3>1
    <2> QED
        BY <2>1, <2>2
<1> QED
    BY <1>3, <1>4, <1>5

\* The counts of one URL change, or of none.
LEMMA RecountIs ==
    ASSUME NEW s, UrlList(s), NEW K, K \subseteq DOMAIN s, NEW g, \A k \in K : g[k] \in Nat \ {0},
           NEW r, r = [k \in DOMAIN s |-> IF k \in K THEN [s[k] EXCEPT !.ref = g[k]] ELSE s[k]]
    PROVE  /\ UrlList(r) /\ Extends(s, r) /\ DOMAIN r = DOMAIN s
           /\ \A k \in DOMAIN s : /\ r[k].url = s[k].url
                                  /\ r[k].ref = IF k \in K THEN g[k] ELSE s[k].ref
<1>1. s = [k \in 1..Len(s) |-> s[k]] /\ Len(s) \in Nat /\ DOMAIN s = 1..Len(s)
      /\ \A k \in DOMAIN s : s[k] \in Entry
    BY DEF UrlList
<1>2. \A k \in DOMAIN s : /\ r[k] \in Entry /\ r[k].url = s[k].url
                          /\ r[k].ref = IF k \in K THEN g[k] ELSE s[k].ref
    BY <1>1 DEF Entry
<1>3. r \in Seq(Entry) /\ Len(r) = Len(s) /\ DOMAIN r = DOMAIN s
    <2>1. r = [k \in 1..Len(s) |-> r[k]]
        BY <1>1
    <2> QED
        BY <1>1, <1>2, <2>1, FunctionIsSeq
<1> QED
    BY <1>1, <1>2, <1>3 DEF UrlList, Extends

LEMMA ExtendsItself ==
    ASSUME NEW s, UrlList(s)
    PROVE  Extends(s, s) /\ Thinned(s, s) /\ Len(s) \in Nat /\ DOMAIN s = 1..Len(s)
BY DEF UrlList, Extends, Thinned

\* The places of the URLs after a recount.
LEMMA AtIs ==
    ASSUME NEW s, NEW r, NEW v, DOMAIN r = DOMAIN s, \A k \in DOMAIN s : r[k].url = s[k].url
    PROVE  At(r, v) = At(s, v)
BY DEF At

LEMMA AddIs ==
    ASSUME NEW s, UrlList(s), NEW u \in Urls, NEW r, r = addSCNUrl(s, u)
    PROVE  /\ UrlList(r) /\ Extends(s, r)
           /\ \A v, n : n \in Nat /\ Counted(s, v, n) => Counted(r, v, IF v = u THEN n + 1 ELSE n)
<1>0. Len(s) \in Nat /\ DOMAIN s = 1..Len(s) /\ \A k \in DOMAIN s : s[k] \in Entry
    BY DEF UrlList
<1>1. CASE At(s, u) = {}
    <2>1. PICK e : e = [url |-> u, ref |-> 1]
        OBVIOUS
    <2>2. e \in Entry /\ e.url = u /\ e.ref = 1
        BY <2>1 DEF Entry
    <2>3. /\ r = Append(s, e) /\ r \in Seq(Entry) /\ Len(r) = Len(s) + 1 /\ DOMAIN r = 1..(Len(s) + 1)
          /\ r[Len(s) + 1] = e /\ \A k \in 1..Len(s) : r[k] = s[k]
        BY <1>0, <1>1, <2>1, <2>2 DEF addSCNUrl, UrlList
    <2>4. \A k \in 1..Len(s) : s[k].url # u
        BY <1>0, <1>1 DEF At
    <2>5. UrlList(r)
        BY <1>0, <2>2, <2>3, <2>4 DEF UrlList
    <2>6. Extends(s, r)
        BY <1>0, <2>3 DEF Extends
    <2>7. ASSUME NEW v, NEW n \in Nat, Counted(s, v, n)
          PROVE  Counted(r, v, IF v = u THEN n + 1 ELSE n)
        <3>1. CASE v = u
            <4>1. n = 0
                BY <1>1, <2>7, <3>1 DEF Counted
            <4>2. At(r, u) = {Len(s) + 1}
                BY <1>0, <2>2, <2>3, <2>4 DEF At
            <4> QED
                BY <1>0, <2>2, <2>3, <3>1, <4>1, <4>2 DEF Counted
        <3>2. CASE v # u
            <4>1. At(r, v) = At(s, v)
                BY <1>0, <2>2, <2>3, <3>2 DEF At
            <4> QED
                BY <1>0, <2>3, <2>7, <3>2, <4>1 DEF Counted
        <3> QED
            BY <3>1, <3>2
    <2> QED
        BY <2>5, <2>6, <2>7
<1>2. CASE At(s, u) # {}
    <2> DEFINE g == [k \in DOMAIN s |-> s[k].ref + 1]
    <2>1. At(s, u) \subseteq DOMAIN s /\ \A k \in At(s, u) : g[k] \in Nat \ {0}
        BY <1>0 DEF At, Entry
    <2>2. r = [k \in DOMAIN s |-> IF k \in At(s, u) THEN [s[k] EXCEPT !.ref = g[k]] ELSE s[k]]
        BY <1>2 DEF addSCNUrl
    <2>3. /\ UrlList(r) /\ Extends(s, r) /\ DOMAIN r = DOMAIN s
          /\ \A k \in DOMAIN s : /\ r[k].url = s[k].url
                                 /\ r[k].ref = IF k \in At(s, u) THEN g[k] ELSE s[k].ref
        <3> HIDE DEF g
        <3> QED
            BY <2>1, <2>2, RecountIs
    <2>4. ASSUME NEW v, NEW n \in Nat, Counted(s, v, n)
          PROVE  Counted(r, v, IF v = u THEN n + 1 ELSE n)
        <3>1. At(r, v) = At(s, v)
            BY <2>3, AtIs
        <3>2. CASE n = 0
            BY <1>2, <2>4, <3>1, <3>2 DEF Counted
        <3>3. CASE n # 0
            <4>1. PICK k \in DOMAIN s : At(s, v) = {k} /\ s[k].ref = n
                BY <2>4, <3>3 DEF Counted
            <4>2. k \in At(s, u) <=> v = u
                BY <4>1 DEF At
            <4>3. At(r, v) = {k} /\ k \in DOMAIN r /\ r[k].ref = IF v = u THEN n + 1 ELSE n
                BY <2>3, <3>1, <4>1, <4>2
            <4> QED
                BY <3>3, <4>3 DEF Counted
        <3> QED
            BY <3>2, <3>3
    <2> QED
        BY <2>3, <2>4
<1> QED
    BY <1>1, <1>2

LEMMA RemoveIs ==
    ASSUME NEW s, UrlList(s), NEW u, NEW r, r = removeSCNUrl(s, u)
    PROVE  /\ UrlList(r) /\ Thinned(s, r)
           /\ \A v, n : n \in Nat /\ Counted(s, v, n) =>
                            Counted(r, v, IF v = u /\ n # 0 THEN n - 1 ELSE n)
<1>0. Len(s) \in Nat /\ DOMAIN s = 1..Len(s) /\ \A k \in DOMAIN s : s[k] \in Entry
    BY DEF UrlList
<1>1. CASE \E k \in At(s, u) : s[k].ref <= 1
    <2>1. PICK i : i = CHOOSE k \in At(s, u) : s[k].ref <= 1
        OBVIOUS
    <2>2. i \in At(s, u) /\ s[i].ref <= 1
        BY <1>1, <2>1
    <2>3. i \in 1..Len(s) /\ s[i].url = u /\ s[i].ref = 1 /\ At(s, u) = {i}
        <3>1. i \in DOMAIN s /\ s[i].url = u
            BY <2>2 DEF At
        <3>2. s[i].ref = 1
            BY <1>0, <2>2, <3>1 DEF Entry
        <3>3. At(s, u) = {i}
            BY <3>1 DEF At, UrlList
        <3> QED
            BY <1>0, <3>1, <3>2, <3>3
    <2>4. /\ r \in Seq(Entry) /\ Len(r) = Len(s) - 1 /\ DOMAIN r = 1..(Len(s) - 1)
          /\ \A k \in 1..(Len(s) - 1) : r[k] = IF k < i THEN s[k] ELSE s[k + 1]
        <3>1. r = RemoveAt(s, i)
            BY <1>1, <2>1 DEF removeSCNUrl
        <3>2. s \in Seq(Entry)
            BY DEF UrlList
        <3>3. /\ r \in Seq(Entry) /\ Len(r) = Len(s) - 1
              /\ \A k \in 1..(Len(s) - 1) : r[k] = IF k < i THEN s[k] ELSE s[k + 1]
            BY <2>3, <3>1, <3>2, RemoveAtIs
        <3> QED
            BY <3>3
    <2>5. UrlList(r)
        <3> SUFFICES ASSUME NEW j \in DOMAIN r, NEW k \in DOMAIN r, r[j].url = r[k].url
                     PROVE  j = k
            BY <2>4 DEF UrlList
        <3>1. PICK j2 : j2 = IF j < i THEN j ELSE j + 1
            OBVIOUS
        <3>2. PICK k2 : k2 = IF k < i THEN k ELSE k + 1
            OBVIOUS
        <3>3. j2 \in DOMAIN s /\ k2 \in DOMAIN s /\ r[j] = s[j2] /\ r[k] = s[k2]
            BY <1>0, <2>3, <2>4, <3>1, <3>2
        <3>4. j2 = k2
            BY <3>3 DEF UrlList
        <3> QED
            BY <2>3, <2>4, <3>1, <3>2, <3>4
    <2>6. At(r, u) = {}
        <3> SUFFICES ASSUME NEW k \in DOMAIN r, r[k].url = u PROVE FALSE
            BY DEF At
        <3>1. PICK k2 : k2 = IF k < i THEN k ELSE k + 1
            OBVIOUS
        <3>2. k2 \in DOMAIN s /\ r[k] = s[k2] /\ k2 # i
            BY <1>0, <2>3, <2>4, <3>1
        <3> QED
            BY <2>3, <3>2 DEF At
    <2>7. Thinned(s, r)
        BY <1>0, <2>3, <2>6 DEF Thinned
    <2>8. ASSUME NEW v, NEW n \in Nat, Counted(s, v, n)
          PROVE  Counted(r, v, IF v = u /\ n # 0 THEN n - 1 ELSE n)
        <3>1. CASE v = u
            <4>1. n = 1
                BY <2>3, <2>8, <3>1 DEF Counted
            <4> QED
                BY <2>6, <3>1, <4>1 DEF Counted
        <3>2. CASE v # u /\ n = 0
            <4> SUFFICES ASSUME NEW k \in DOMAIN r, r[k].url = v PROVE FALSE
                BY <3>2 DEF At, Counted
            <4>1. PICK k2 : k2 = IF k < i THEN k ELSE k + 1
                OBVIOUS
            <4>2. k2 \in DOMAIN s /\ r[k] = s[k2]
                BY <1>0, <2>3, <2>4, <4>1
            <4> QED
                BY <2>8, <3>2, <4>2 DEF At, Counted
        <3>3. CASE v # u /\ n # 0
            <4>1. PICK k \in DOMAIN s : At(s, v) = {k} /\ s[k].ref = n
                BY <2>8, <3>3 DEF Counted
            <4>2. s[k].url = v /\ k # i
                BY <2>3, <3>3, <4>1 DEF At
            <4>3. PICK k2 : k2 = IF k < i THEN k ELSE k - 1
                OBVIOUS
            <4>4. k2 \in DOMAIN r /\ r[k2] = s[k]
                BY <1>0, <2>3, <2>4, <4>1, <4>2, <4>3
            <4>5. At(r, v) = {k2}
                BY <2>5, <4>2, <4>4 DEF At, UrlList
            <4> QED
                BY <3>3, <4>1, <4>4, <4>5 DEF Counted
        <3> QED
            BY <3>1, <3>2, <3>3
    <2> QED
        BY <2>5, <2>7, <2>8
<1>2. CASE ~\E k \in At(s, u) : s[k].ref <= 1
    <2> DEFINE g == [k \in DOMAIN s |-> s[k].ref - 1]
    <2>1. At(s, u) \subseteq DOMAIN s /\ \A k \in At(s, u) : g[k] \in Nat \ {0}
        BY <1>0, <1>2 DEF At, Entry
    <2>2. r = [k \in DOMAIN s |-> IF k \in At(s, u) THEN [s[k] EXCEPT !.ref = g[k]] ELSE s[k]]
        BY <1>2 DEF removeSCNUrl
    <2>3. /\ UrlList(r) /\ Extends(s, r) /\ DOMAIN r = DOMAIN s
          /\ \A k \in DOMAIN s : /\ r[k].url = s[k].url
                                 /\ r[k].ref = IF k \in At(s, u) THEN g[k] ELSE s[k].ref
        <3> HIDE DEF g
        <3> QED
            BY <2>1, <2>2, RecountIs
    <2>4. ASSUME NEW v, NEW n \in Nat, Counted(s, v, n)
          PROVE  Counted(r, v, IF v = u /\ n # 0 THEN n - 1 ELSE n)
        <3>1. At(r, v) = At(s, v)
            BY <2>3, AtIs
        <3>2. CASE n = 0
            BY <2>4, <3>1, <3>2 DEF Counted
        <3>3. CASE n # 0
            <4>1. PICK k \in DOMAIN s : At(s, v) = {k} /\ s[k].ref = n
                BY <2>4, <3>3 DEF Counted
            <4>2. k \in At(s, u) <=> v = u
                BY <4>1 DEF At
            <4>3. v = u => n > 1
                BY <1>2, <4>1, <4>2
            <4>4. At(r, v) = {k} /\ k \in DOMAIN r /\ r[k].ref = IF v = u THEN n - 1 ELSE n
                BY <2>3, <3>1, <4>1, <4>2
            <4> QED
                BY <3>3, <4>3, <4>4 DEF Counted
        <3> QED
            BY <3>2, <3>3
    <2> QED
        BY <2>3, <2>4 DEF Thinned
<1> QED
    BY <1>1, <1>2

-----------------------------------------------------------------------------
(* The lists of all triggers                                               *)

MapOK(m) == m = [t \in Triggers |-> m[t]] /\ \A t \in Triggers : UrlList(m[t])

LEMMA AddedIs ==
    ASSUME NEW m, MapOK(m), NEW sub, sub.on # {} => sub.key.url \in Urls
    PROVE  /\ MapOK(Added(m, sub))
           /\ \A t \in Triggers :
                 /\ Added(m, sub)[t] = IF t \in sub.on THEN addSCNUrl(m[t], sub.key.url) ELSE m[t]
                 /\ Extends(m[t], Added(m, sub)[t])
<1>1. \A t \in Triggers : Added(m, sub)[t] = IF t \in sub.on THEN addSCNUrl(m[t], sub.key.url) ELSE m[t]
    BY DEF Added
<1>2. ASSUME NEW t \in Triggers
      PROVE  UrlList(Added(m, sub)[t]) /\ Extends(m[t], Added(m, sub)[t])
    <2>1. UrlList(m[t])
        BY DEF MapOK
    <2>2. CASE t \in sub.on
        BY <1>1, <2>1, <2>2, AddIs
    <2>3. CASE t \notin sub.on
        BY <1>1, <2>1, <2>3, ExtendsItself
    <2> QED
        BY <2>2, <2>3
<1>3. Added(m, sub) = [t \in Triggers |-> Added(m, sub)[t]]
    BY DEF Added
<1> QED
    BY <1>1, <1>2, <1>3 DEF MapOK

LEMMA RemovedIs ==
    ASSUME NEW m, MapOK(m), NEW sub
    PROVE  /\ MapOK(Removed(m, sub))
           /\ \A t \in Triggers :
                 /\ Removed(m, sub)[t] = IF t \in sub.on THEN removeSCNUrl(m[t], sub.key.url) ELSE m[t]
                 /\ Thinned(m[t], Removed(m, sub)[t])
<1>1. \A t \in Triggers : Removed(m, sub)[t] = IF t \in sub.on THEN removeSCNUrl(m[t], sub.key.url) ELSE m[t]
    BY DEF Removed
<1>2. ASSUME NEW t \in Triggers
      PROVE  UrlList(Removed(m, sub)[t]) /\ Thinned(m[t], Removed(m, sub)[t])
    <2>1. UrlList(m[t])
        BY DEF MapOK
    <2>2. CASE t \in sub.on
        BY <1>1, <2>1, <2>2, RemoveIs
    <2>3. CASE t \notin sub.on
        BY <1>1, <2>1, <2>3, ExtendsItself
    <2> QED
        BY <2>2, <2>3
<1>3. Removed(m, sub) = [t \in Triggers |-> Removed(m, sub)[t]]
    BY DEF Removed
<1> QED
    BY <1>1, <1>2, <1>3 DEF MapOK

LEMMA SubscribedIs ==
    ASSUME NEW f, NEW t, NEW u
    PROVE  /\ Subscribed(f, t, u) = {id \in Ids : f[id].key.url = u /\ t \in f[id].on}
           /\ Subscribed(f, t, u) \subseteq Ids
           /\ \A id \in Ids : id \in Subscribed(f, t, u) <=> f[id].key.url = u /\ t \in f[id].on
           /\ IsFiniteSet(Subscribed(f, t, u)) /\ Cardinality(Subscribed(f, t, u)) \in Nat
<1>1. Subscribed(f, t, u) = {id \in Ids : f[id].key.url = u /\ t \in f[id].on}
    BY DEF Subscribed, Listed, NoSub
<1>2. IsFiniteSet(Ids)
    BY MaxSubsAssumption, FS_Interval DEF Ids
<1>3. IsFiniteSet(Subscribed(f, t, u))
    BY <1>1, <1>2, FS_Subset
<1> QED
    BY <1>1, <1>3, FS_CardinalityType

\* A subscription comes onto the lists of some triggers.
LEMMA PutOnMatches ==
    ASSUME NEW m, MapOK(m), NEW f, Matching(m, f), NEW sub, sub.on # {} => sub.key.url \in Urls,
           NEW id \in Ids, f[id].on # {} => f[id].key.url = sub.key.url,
           sub.on \cap f[id].on = {},
           NEW h, \A i \in Ids \ {id} : h[i] = f[i],
           h[id].key.url = sub.key.url, h[id].on = f[id].on \cup sub.on
    PROVE  Matching(Added(m, sub), h)
<1> SUFFICES ASSUME NEW t \in Triggers, NEW u \in Urls
             PROVE  Counted(Added(m, sub)[t], u, Cardinality(Subscribed(h, t, u)))
    BY DEF Matching
<1>0. /\ Subscribed(f, t, u) \subseteq Ids /\ Subscribed(h, t, u) \subseteq Ids
      /\ \A i \in Ids : /\ i \in Subscribed(f, t, u) <=> f[i].key.url = u /\ t \in f[i].on
                        /\ i \in Subscribed(h, t, u) <=> h[i].key.url = u /\ t \in h[i].on
    BY SubscribedIs
<1>1. Counted(m[t], u, Cardinality(Subscribed(f, t, u))) /\ UrlList(m[t])
    BY DEF Matching, MapOK
<1>2. CASE t \in sub.on
    <2>1. Subscribed(h, t, u) = IF u = sub.key.url THEN Subscribed(f, t, u) \cup {id}
                                ELSE Subscribed(f, t, u)
        BY <1>0, <1>2
    <2>2. id \notin Subscribed(f, t, u)
        BY <1>2, SubscribedIs
    <2>3. Cardinality(Subscribed(h, t, u)) =
             IF u = sub.key.url THEN Cardinality(Subscribed(f, t, u)) + 1
             ELSE Cardinality(Subscribed(f, t, u))
        <3>1. CASE u = sub.key.url
            <4>1. PICK S : S = Subscribed(f, t, u)
                OBVIOUS
            <4>2. IsFiniteSet(S)
                BY <4>1, SubscribedIs
            <4>3. Subscribed(h, t, u) = S \cup {id} /\ id \notin S
                BY <2>1, <2>2, <3>1, <4>1
            <4>4. Cardinality(S \cup {id}) = Cardinality(S) + 1
                BY <4>2, <4>3, FS_AddElement
            <4> QED
                BY <3>1, <4>1, <4>3, <4>4
        <3>2. CASE u # sub.key.url
            BY <2>1, <3>2
        <3> QED
            BY <3>1, <3>2
    <2>4. Added(m, sub)[t] = addSCNUrl(m[t], sub.key.url) /\ sub.key.url \in Urls
        BY <1>2, AddedIs
    <2>5. Cardinality(Subscribed(f, t, u)) \in Nat
        BY SubscribedIs
    <2> QED
        BY <1>1, <2>3, <2>4, <2>5, AddIs
<1>3. CASE t \notin sub.on
    <2>1. Subscribed(h, t, u) = Subscribed(f, t, u)
        BY <1>0, <1>3
    <2>2. Added(m, sub)[t] = m[t]
        BY <1>3, AddedIs
    <2> QED
        BY <1>1, <2>1, <2>2
<1> QED
    BY <1>2, <1>3

\* A subscription goes off the lists of some of its triggers.
LEMMA TakeOffMatches ==
    ASSUME NEW m, MapOK(m), NEW f, Matching(m, f), NEW sub,
           NEW id \in Ids, f[id].key.url = sub.key.url, sub.on \subseteq f[id].on,
           NEW h, \A i \in Ids \ {id} : h[i] = f[i],
           h[id].on = f[id].on \ sub.on, h[id].on # {} => h[id].key.url = sub.key.url
    PROVE  Matching(Removed(m, sub), h)
<1> SUFFICES ASSUME NEW t \in Triggers, NEW u \in Urls
             PROVE  Counted(Removed(m, sub)[t], u, Cardinality(Subscribed(h, t, u)))
    BY DEF Matching
<1>0. /\ Subscribed(f, t, u) \subseteq Ids /\ Subscribed(h, t, u) \subseteq Ids
      /\ \A i \in Ids : /\ i \in Subscribed(f, t, u) <=> f[i].key.url = u /\ t \in f[i].on
                        /\ i \in Subscribed(h, t, u) <=> h[i].key.url = u /\ t \in h[i].on
    BY SubscribedIs
<1>1. Counted(m[t], u, Cardinality(Subscribed(f, t, u))) /\ UrlList(m[t])
    BY DEF Matching, MapOK
<1>2. CASE t \in sub.on
    <2>1. Subscribed(h, t, u) = IF u = sub.key.url THEN Subscribed(f, t, u) \ {id}
                                ELSE Subscribed(f, t, u)
        BY <1>0, <1>2
    <2>2. u = sub.key.url => id \in Subscribed(f, t, u)
        BY <1>2, SubscribedIs
    <2>3. /\ Cardinality(Subscribed(f, t, u)) \in Nat
          /\ u = sub.key.url => Cardinality(Subscribed(f, t, u)) # 0
        BY <2>2, SubscribedIs, FS_EmptySet
    <2>4. Cardinality(Subscribed(h, t, u)) =
             IF u = sub.key.url THEN Cardinality(Subscribed(f, t, u)) - 1
             ELSE Cardinality(Subscribed(f, t, u))
        <3>1. CASE u = sub.key.url
            <4>1. PICK S : S = Subscribed(f, t, u)
                OBVIOUS
            <4>2. IsFiniteSet(S)
                BY <4>1, SubscribedIs
            <4>3. Subscribed(h, t, u) = S \ {id} /\ id \in S
                BY <2>1, <2>2, <3>1, <4>1
            <4>4. Cardinality(S \ {id}) = Cardinality(S) - 1
                BY <4>2, <4>3, FS_RemoveElement
            <4> QED
                BY <3>1, <4>1, <4>3, <4>4
        <3>2. CASE u # sub.key.url
            BY <2>1, <3>2
        <3> QED
            BY <3>1, <3>2
    <2>5. Removed(m, sub)[t] = removeSCNUrl(m[t], sub.key.url)
        BY <1>2, RemovedIs
    <2>6. Counted(Removed(m, sub)[t], u,
                  IF u = sub.key.url /\ Cardinality(Subscribed(f, t, u)) # 0
                  THEN Cardinality(Subscribed(f, t, u)) - 1 ELSE Cardinality(Subscribed(f, t, u)))
        BY <1>1, <2>3, <2>5, RemoveIs
    <2> QED
        BY <2>3, <2>4, <2>6
<1>3. CASE t \notin sub.on
    <2>1. Subscribed(h, t, u) = Subscribed(f, t, u)
        BY <1>0, <1>3
    <2>2. Removed(m, sub)[t] = m[t]
        BY <1>3 DEF Removed
    <2> QED
        BY <1>1, <2>1, <2>2
<1> QED
    BY <1>2, <1>3

-----------------------------------------------------------------------------
(* The lists built anew                                                    *)

LEMMA NatInduct ==
    ASSUME NEW P, 0 \in P, \A n \in Nat : n \in P => n + 1 \in P
    PROVE  Nat \subseteq P
<1> SUFFICES ASSUME Nat \ P # {} PROVE FALSE
    OBVIOUS
<1>1. PICK n \in Nat \ P : \A j \in Nat \ P : ~(<<j, n>> \in OpToRel(<, Nat))
    BY NatLessThanWellFounded, WFMin
<1>2. n - 1 \in Nat /\ n - 1 < n
    OBVIOUS
<1>3. n - 1 \notin P
    OBVIOUS
<1> QED
    BY <1>1, <1>2, <1>3 DEF OpToRel

\* The recursion of Built.
IsBuild(g, rows, order, n) ==
    g = [k \in 0..n |-> IF k = 0 THEN EmptyMap ELSE Added(g[k - 1], rows[order[k]])]

LEMMA BuildExists ==
    ASSUME NEW rows, NEW order, NEW n \in Nat
    PROVE  \E g : IsBuild(g, rows, order, n)
<1> DEFINE P == {k \in Nat : \E g : IsBuild(g, rows, order, k)}
<1>1. 0 \in P
    <2> DEFINE g == [k \in 0..0 |-> EmptyMap]
    <2>1. g = [k \in 0..0 |-> IF k = 0 THEN EmptyMap ELSE Added(g[k - 1], rows[order[k]])]
        OBVIOUS
    <2> QED
        BY <2>1 DEF IsBuild
<1>2. ASSUME NEW k \in Nat, k \in P
      PROVE  k + 1 \in P
    <2>1. PICK g : IsBuild(g, rows, order, k)
        BY <1>2
    <2> DEFINE h == [j \in 0..(k + 1) |-> IF j = k + 1 THEN Added(g[k], rows[order[k + 1]]) ELSE g[j]]
    <2>2. \A j \in 0..k : g[j] = IF j = 0 THEN EmptyMap ELSE Added(g[j - 1], rows[order[j]])
        BY <2>1 DEF IsBuild
    <2>3. ASSUME NEW j \in 0..(k + 1)
          PROVE  h[j] = IF j = 0 THEN EmptyMap ELSE Added(h[j - 1], rows[order[j]])
        <3>1. CASE j = 0
            BY <2>2, <3>1
        <3>2. CASE j # 0
            <4>1. h[j - 1] = g[j - 1]
                BY <3>2
            <4>2. h[j] = Added(g[j - 1], rows[order[j]])
                BY <2>2, <3>2
            <4> QED
                BY <3>2, <4>1, <4>2
        <3> QED
            BY <3>1, <3>2
    <2>4. h = [j \in 0..(k + 1) |-> h[j]]
        OBVIOUS
    <2> HIDE DEF h
    <2>5. IsBuild(h, rows, order, k + 1)
        BY <2>3, <2>4 DEF IsBuild
    <2> QED
        BY <2>5
<1>3. Nat \subseteq P
    <2> HIDE DEF P
    <2> QED
        BY <1>1, <1>2, NatInduct
<1> QED
    BY <1>3

LEMMA BuiltIs ==
    ASSUME NEW rows, NEW order, Len(order) \in Nat
    PROVE  \E g : IsBuild(g, rows, order, Len(order)) /\ Built(rows, order) = g[Len(order)]
<1> DEFINE g == CHOOSE g : g = [k \in 0..Len(order) |-> IF k = 0 THEN EmptyMap
                                                         ELSE Added(g[k - 1], rows[order[k]])]
<1>1. \E x : x = [k \in 0..Len(order) |-> IF k = 0 THEN EmptyMap
                                          ELSE Added(x[k - 1], rows[order[k]])]
    <2>1. \E x : IsBuild(x, rows, order, Len(order))
        BY BuildExists
    <2> QED
        BY <2>1 DEF IsBuild
<1>2. IsBuild(g, rows, order, Len(order))
    BY <1>1 DEF IsBuild
<1>3. Built(rows, order) = g[Len(order)]
    BY DEF Built
<1> QED
    BY <1>2, <1>3

\* A row of the table, and of the copy.
RowOK(x) == x = Sub(x.key, x.on) /\ (x = NoSub \/ x.key.url \in Urls)
RowsOK(f) == f = [id \in Ids |-> f[id]] /\ \A id \in Ids : RowOK(f[id])

LEMMA EmptyIs == MapOK(EmptyMap) /\ \A f : (\A id \in Ids : f[id] = NoSub) => Matching(EmptyMap, f)
<1>1. UrlList(<< >>)
    BY DEF UrlList
<1>2. MapOK(EmptyMap)
    BY <1>1 DEF MapOK, EmptyMap
<1>3. ASSUME NEW f, \A id \in Ids : f[id] = NoSub, NEW t \in Triggers, NEW u \in Urls
      PROVE  Counted(EmptyMap[t], u, Cardinality(Subscribed(f, t, u)))
    <2>1. Cardinality(Subscribed(f, t, u)) = 0
        BY <1>3, FS_EmptySet DEF Subscribed, Listed
    <2> QED
        BY <2>1 DEF EmptyMap, Counted, At
<1> QED
    BY <1>2, <1>3 DEF Matching

\* An order has every row once.
LEMMA OrderIs ==
    ASSUME NEW f, NEW order \in SetToSeqs(Listed(f))
    PROVE  /\ Len(order) \in Nat
           /\ \A j \in 1..Len(order) : order[j] \in Listed(f) /\ order[j] \in Ids
           /\ \A i, j \in 1..Len(order) : i # j => order[i] # order[j]
           /\ \A id \in Listed(f) : \E j \in 1..Len(order) : order[j] = id
<1> DEFINE n == Cardinality(Listed(f))
<1>1. IsFiniteSet(Listed(f)) /\ n \in Nat /\ Listed(f) \subseteq Ids
    <2>1. IsFiniteSet(Ids) /\ Listed(f) \subseteq Ids
        BY MaxSubsAssumption, FS_Interval DEF Ids, Listed
    <2> QED
        BY <2>1, FS_Subset, FS_CardinalityType
<1>2. order \in [1..n -> Listed(f)] /\ \A i, j \in 1..n : i # j => order[i] # order[j]
    BY DEF SetToSeqs
<1>3. Len(order) = n
    BY <1>1, <1>2
<1>4. IsFiniteSet(1..n) /\ Cardinality(1..n) = n
    BY <1>1, FS_Interval
<1>5. order \in Injection(1..n, Listed(f))
    BY <1>2 DEF Injection, IsInjective
<1>6. order \in Surjection(1..n, Listed(f))
    BY <1>1, <1>4, <1>5, FS_Injection
<1> QED
    BY <1>1, <1>2, <1>3, <1>6 DEF Surjection

LEMMA BuiltMatches ==
    ASSUME NEW f, RowsOK(f), NEW order \in SetToSeqs(Listed(f))
    PROVE  MapOK(Built(f, order)) /\ Matching(Built(f, order), f)
<1> DEFINE n == Len(order)
           some(k) == [id \in Ids |-> IF \E j \in 1..k : order[j] = id THEN f[id] ELSE NoSub]
<1>1. PICK g : IsBuild(g, f, order, n) /\ Built(f, order) = g[n]
    BY OrderIs, BuiltIs
<1>2. n \in Nat /\ \A k \in 0..n : g[k] = IF k = 0 THEN EmptyMap ELSE Added(g[k - 1], f[order[k]])
    BY <1>1, OrderIs DEF IsBuild
<1> DEFINE P == {k \in Nat : k <= n => MapOK(g[k]) /\ Matching(g[k], some(k))}
<1>3. 0 \in P
    <2>1. \A id \in Ids : some(0)[id] = NoSub
        OBVIOUS
    <2> QED
        BY <1>2, <2>1, EmptyIs
<1>4. ASSUME NEW k \in Nat, k \in P
      PROVE  k + 1 \in P
    <2> SUFFICES ASSUME k + 1 <= n
                 PROVE  MapOK(g[k + 1]) /\ Matching(g[k + 1], some(k + 1))
        OBVIOUS
    <2>1. MapOK(g[k]) /\ Matching(g[k], some(k))
        BY <1>2, <1>4
    <2>2. k + 1 \in 1..n /\ g[k + 1] = Added(g[k], f[order[k + 1]])
        BY <1>2
    <2>3. PICK id : id = order[k + 1]
        OBVIOUS
    <2>4. id \in Ids /\ RowOK(f[id]) /\ \A j \in 1..k : order[j] # id
        <3>1. id \in Ids
            BY <2>2, <2>3, OrderIs
        <3>2. \A j \in 1..k : j \in 1..n /\ j # k + 1
            BY <1>2, <2>2
        <3>3. \A j \in 1..k : order[j] # id
            BY <2>2, <2>3, <3>2, OrderIs
        <3> QED
            BY <3>1, <3>3 DEF RowsOK
    <2>5. /\ some(k)[id] = NoSub /\ some(k + 1)[id] = f[id]
          /\ \A i \in Ids \ {id} : some(k + 1)[i] = some(k)[i]
        <3>1. \A i \in Ids \ {id} : (\E j \in 1..(k + 1) : order[j] = i) <=> (\E j \in 1..k : order[j] = i)
            <4>1. 1..(k + 1) = (1..k) \cup {k + 1}
                OBVIOUS
            <4> QED
                BY <2>3, <4>1
        <3>2. \E j \in 1..(k + 1) : order[j] = id
            BY <2>3
        <3> QED
            BY <2>4, <3>1, <3>2
    <2> HIDE DEF some
    <2>6. MapOK(Added(g[k], f[id]))
        BY <2>1, <2>4, AddedIs DEF RowOK, NoSub
    <2>7. some(k)[id].on = {} /\ f[id].on # {} => f[id].key.url \in Urls
        BY <2>4, <2>5 DEF RowOK, NoSub
    <2>8. Matching(Added(g[k], f[id]), some(k + 1))
        <3>1. PICK x : x = some(k)
            OBVIOUS
        <3>2. PICK y : y = some(k + 1)
            OBVIOUS
        <3>3. x[id].on = {} /\ y[id] = f[id] /\ \A i \in Ids \ {id} : y[i] = x[i]
            BY <2>5, <3>1, <3>2 DEF NoSub
        <3>4. Matching(g[k], x)
            BY <2>1, <3>1
        <3>5. f[id].on # {} => f[id].key.url \in Urls
            BY <2>4 DEF RowOK, NoSub
        <3>6. Matching(Added(g[k], f[id]), y)
            BY <2>1, <2>4, <3>3, <3>4, <3>5, PutOnMatches
        <3> QED
            BY <3>2, <3>6
    <2> QED
        BY <2>2, <2>3, <2>6, <2>8
<1>5. n \in P
    <2> HIDE DEF P
    <2> QED
        BY <1>2, <1>3, <1>4, NatInduct
<1>6. some(n) = f
    <2>1. \A id \in Ids : some(n)[id] = f[id]
        BY OrderIs DEF Listed
    <2> QED
        BY <2>1 DEF RowsOK
<1> QED
    BY <1>1, <1>2, <1>5, <1>6

-----------------------------------------------------------------------------
(* The invariant                                                           *)

IsJob(j) == /\ j = [trigger |-> j.trigger, view |-> j.view, next |-> j.next, told |-> j.told,
                    first |-> j.first, shared |-> j.shared, calm |-> j.calm]
            /\ j.shared \in BOOLEAN /\ j.calm \in BOOLEAN

\* What a job has told so far is what it sees, and it sees what was there at first; as
\* long as it shares the array of the list, what it sees is the beginning of the list.
Undisturbed(j, m) ==
    LET v == j.view IN
    /\ Len(v) \in Nat /\ v = [k \in 1..Len(v) |-> v[k]]
    /\ \A i, k \in 1..Len(v) : v[i] = v[k] => i = k
    /\ j.first = {v[k] : k \in 1..Len(v)}
    /\ j.next \in Nat \ {0} /\ j.next - 1 <= Len(v)
    /\ j.told = [k \in 1..(j.next - 1) |-> v[k]]
    /\ j.shared => /\ j.trigger \in Triggers
                   /\ Len(v) <= Len(m[j.trigger])
                   /\ \A k \in 1..Len(v) : m[j.trigger][k].url = v[k]

JobOK == IsJob(job) /\ (job.calm => Undisturbed(job, map))

RowsInv ==
    /\ RowsOK(db) /\ RowsOK(list)
    /\ nextId \in Nat \ {0}
    /\ \A id \in Ids : nextId <= id => db[id] = NoSub /\ list[id] = NoSub
    /\ forgot \in BOOLEAN /\ stuck \in BOOLEAN

SubsInv == RowsInv /\ MapOK(map) /\ MapMatchesList /\ JobOK

-----------------------------------------------------------------------------
(* The job                                                                 *)

LEMMA NoJobIs == IsJob(NoJob) /\ NoJob.calm = TRUE /\ NoJob.shared = FALSE
                 /\ \A m : Undisturbed(NoJob, m)
<1>1. PICK j : j = NoJob
    OBVIOUS
<1>2. /\ IsJob(j) /\ j.calm = TRUE /\ j.shared = FALSE /\ j.view = << >> /\ j.next = 1
      /\ j.told = << >> /\ j.first = {}
    BY <1>1 DEF NoJob, IsJob
<1>3. \A m : Undisturbed(j, m)
    BY <1>2 DEF Undisturbed
<1> QED
    BY <1>1, <1>2, <1>3

\* Lists that are edited in place disturb the job only if they lose a URL.
LEMMA EditKeeps ==
    ASSUME MapOK(map), JobOK, NEW less, NEW m, Edit(less, m), MapOK(less), MapOK(m),
           \A t \in Triggers : Thinned(map[t], less[t]) /\ Extends(less[t], m[t])
    PROVE  map' = m /\ JobOK'
<1> DEFINE t == job.trigger
           v == job.view
           gone == t \in Triggers /\ \E k \in DOMAIN map[t] : At(less[t], map[t][k].url) = {}
<1>1. map' = m
    BY DEF Edit
<1>2. CASE job = NoJob
    BY <1>2, NoJobIs DEF Edit, JobOK
<1>3. CASE job # NoJob /\ m[t] = map[t]
    BY <1>1, <1>3 DEF Edit, JobOK, Undisturbed
<1>4. CASE job # NoJob /\ m[t] # map[t]
    <2> DEFINE view2 == [k \in DOMAIN v |-> IF job.shared /\ k <= Len(m[t]) THEN m[t][k].url ELSE v[k]]
    <2>1. \E stays \in BOOLEAN :
             job' = [job EXCEPT !.view = view2, !.shared = @ /\ stays,
                                !.calm = @ /\ ~(job.shared /\ gone)]
        BY <1>4 DEF Edit
    <2> HIDE DEF view2, gone
    <2>2. PICK stays \in BOOLEAN :
             job' = [trigger |-> t, view |-> view2, next |-> job.next, told |-> job.told,
                     first |-> job.first, shared |-> job.shared /\ stays,
                     calm |-> job.calm /\ ~(job.shared /\ gone)]
        BY <2>1 DEF JobOK, IsJob
    <2>3. IsJob(job')
        BY <2>2 DEF IsJob
    <2>4. ASSUME job'.calm
          PROVE  Undisturbed(job', m)
        <3>1. job.calm /\ (job.shared => ~gone) /\ Undisturbed(job, map)
            BY <2>2, <2>4 DEF JobOK
        <3>2. job.shared => /\ t \in Triggers /\ Len(v) <= Len(m[t])
                            /\ \A k \in 1..Len(v) : m[t][k].url = v[k]
            <4> SUFFICES ASSUME job.shared
                         PROVE  /\ t \in Triggers /\ Len(v) <= Len(m[t])
                                /\ \A k \in 1..Len(v) : m[t][k].url = v[k]
                OBVIOUS
            <4>1. t \in Triggers /\ Len(v) \in Nat /\ Len(v) <= Len(map[t])
                  /\ \A k \in 1..Len(v) : map[t][k].url = v[k]
                BY <3>1 DEF Undisturbed
            <4>2. Extends(map[t], less[t]) /\ Extends(less[t], m[t])
                BY <3>1, <4>1 DEF gone, Thinned
            <4>3. Len(map[t]) \in Nat /\ Len(less[t]) \in Nat /\ Len(m[t]) \in Nat
                BY <4>1 DEF MapOK, UrlList
            <4>4. Len(map[t]) <= Len(less[t]) /\ Len(less[t]) <= Len(m[t])
                BY <4>2 DEF Extends
            <4>5. ASSUME NEW k \in 1..Len(v)
                  PROVE  m[t][k].url = v[k]
                <5>1. k \in 1..Len(map[t]) /\ k \in 1..Len(less[t])
                    BY <4>1, <4>3, <4>4
                <5>2. less[t][k].url = map[t][k].url /\ m[t][k].url = less[t][k].url
                    BY <4>2, <5>1 DEF Extends
                <5> QED
                    BY <4>1, <5>2
            <4> QED
                BY <4>1, <4>3, <4>4, <4>5
        <3>3. view2 = v
            <4>1. DOMAIN v = 1..Len(v) /\ v = [k \in 1..Len(v) |-> v[k]]
                BY <3>1 DEF Undisturbed
            <4>2. \A k \in 1..Len(v) : (IF job.shared /\ k <= Len(m[t]) THEN m[t][k].url ELSE v[k]) = v[k]
                BY <3>2
            <4> QED
                BY <4>1, <4>2 DEF view2
        <3>4. /\ job'.view = v /\ job'.next = job.next /\ job'.told = job.told
              /\ job'.first = job.first /\ job'.trigger = t /\ (job'.shared => job.shared)
            BY <2>2, <3>3
        <3> QED
            BY <3>1, <3>2, <3>4 DEF Undisturbed
    <2> QED
        BY <1>1, <2>3, <2>4 DEF JobOK
<1> QED
    BY <1>1, <1>2, <1>3, <1>4

\* Lists that are built anew leave it alone.
LEMMA RenewKeeps ==
    ASSUME JobOK, NEW l, NEW m, Renew(l, m)
    PROVE  list' = l /\ map' = m /\ forgot' = FALSE /\ JobOK'
<1>1. job' = [trigger |-> job.trigger, view |-> job.view, next |-> job.next, told |-> job.told,
              first |-> job.first, shared |-> FALSE, calm |-> job.calm]
    BY DEF Renew, JobOK, IsJob
<1>2. IsJob(job') /\ (job'.calm => Undisturbed(job', map'))
    BY <1>1 DEF JobOK, IsJob, Undisturbed
<1> QED
    BY <1>2 DEF Renew, JobOK

LEMMA RunKeeps ==
    ASSUME MapOK(map), JobOK, Run
    PROVE  JobOK' /\ UNCHANGED <<db, nextId, list, map, forgot, stuck>>
<1>1. CASE RunNotifies
    <2>1. /\ job.next <= Len(job.view) /\ UNCHANGED <<db, nextId, list, map, forgot, stuck>>
          /\ job' = [trigger |-> job.trigger, view |-> job.view, next |-> job.next + 1,
                     told |-> IF job.calm THEN Append(job.told, job.view[job.next]) ELSE << >>,
                     first |-> job.first, shared |-> job.shared, calm |-> job.calm]
        BY <1>1 DEF RunNotifies, JobOK, IsJob
    <2>2. IsJob(job')
        BY <2>1 DEF JobOK, IsJob
    <2>3. ASSUME job.calm
          PROVE  Undisturbed(job', map)
        <3> DEFINE v == job.view
                   n == job.next
        <3>1. Undisturbed(job, map)
            BY <2>3 DEF JobOK
        <3>2. n \in Nat \ {0} /\ n <= Len(v) /\ Len(v) \in Nat
            BY <2>1, <3>1 DEF Undisturbed
        <3>3. Append(job.told, v[n]) = [k \in 1..n |-> v[k]]
            <4>1. job.told = [k \in 1..(n - 1) |-> v[k]]
                BY <3>1 DEF Undisturbed
            <4> DEFINE S == {v[k] : k \in 1..n}
            <4>2. job.told \in Seq(S) /\ Len(job.told) = n - 1
                BY <3>2, <4>1, FunctionIsSeq
            <4> QED
                BY <3>2, <4>1, <4>2
        <3>4. /\ job'.view = v /\ job'.next = n + 1 /\ job'.told = [k \in 1..n |-> v[k]]
              /\ job'.first = job.first /\ job'.trigger = job.trigger /\ job'.shared = job.shared
            BY <2>1, <2>3, <3>3
        <3>5. (n + 1) - 1 = n
            BY <3>2
        <3> QED
            BY <3>1, <3>2, <3>4, <3>5 DEF Undisturbed
    <2> QED
        BY <2>1, <2>2, <2>3 DEF JobOK
<1>2. CASE RunEnds
    BY <1>2, NoJobIs DEF RunEnds, JobOK
<1>3. ASSUME NEW t \in Triggers, RunStart(t)
      PROVE  JobOK' /\ UNCHANGED <<db, nextId, list, map, forgot, stuck>>
    <2> DEFINE n == Len(map[t])
               v == [k \in 1..n |-> map[t][k].url]
    <2>1. n \in Nat /\ DOMAIN map[t] = 1..n
          /\ \A i, k \in 1..n : map[t][i].url = map[t][k].url => i = k
        BY DEF MapOK, UrlList
    <2>2. Len(v) = n /\ \A k \in 1..n : v[k] = map[t][k].url
        BY <2>1, FunctionIsSeq
    <2>3. job' = [trigger |-> t, view |-> v, next |-> 1, told |-> << >>,
                  first |-> {v[k] : k \in 1..n}, shared |-> TRUE, calm |-> TRUE]
          /\ UNCHANGED <<db, nextId, list, map, forgot, stuck>>
        BY <1>3, <2>1 DEF RunStart
    <2>4. v = [k \in 1..n |-> v[k]]
        OBVIOUS
    <2> HIDE DEF v, n
    <2>5. IsJob(job')
        BY <2>3 DEF IsJob
    <2>6. Undisturbed(job', map)
        <3>1. /\ job'.view = v /\ job'.next = 1 /\ job'.told = << >> /\ job'.trigger = t
              /\ job'.first = {v[k] : k \in 1..n}
            BY <2>3
        <3>2. << >> = [k \in 1..(1 - 1) |-> v[k]]
            OBVIOUS
        <3>3. \A k \in 1..n : map[t][k].url = v[k]
            BY <2>2
        <3>4. Len(map[t]) = n
            BY DEF n
        <3> QED
            BY <2>1, <2>2, <2>4, <3>1, <3>2, <3>3, <3>4 DEF Undisturbed
    <2> QED
        BY <2>3, <2>5, <2>6 DEF JobOK
<1> QED
    BY <1>1, <1>2, <1>3 DEF Run

-----------------------------------------------------------------------------
(* The calls                                                               *)

LEMMA SubIs ==
    ASSUME NEW key, NEW on
    PROVE  /\ Sub(key, on).key = key /\ Sub(key, on).on = on
           /\ key.url \in Urls => RowOK(Sub(key, on))
BY DEF Sub, RowOK

LEMMA NoSubIs == RowOK(NoSub) /\ NoSub.on = {}
BY DEF NoSub, RowOK, Sub

\* The triggers of a row change.
LEMMA OnChanges ==
    ASSUME NEW x, RowOK(x), x # NoSub, NEW on
    PROVE  /\ [x EXCEPT !.on = on] = Sub(x.key, on)
           /\ x.key.url \in Urls /\ RowOK(Sub(x.key, on))
<1>1. [x EXCEPT !.on = on] = Sub(x.key, on)
    BY DEF RowOK, Sub
<1>2. Sub(x.key, on).key = x.key /\ Sub(x.key, on).on = on
    BY DEF Sub
<1> QED
    BY <1>1, <1>2 DEF RowOK, Sub

\* The table changes at a row that is there or comes next.
LEMMA TableChanges ==
    ASSUME RowsInv, NEW id \in Ids, NEW x, RowOK(x), db' = [db EXCEPT ![id] = x],
           \/ db[id] # NoSub /\ nextId' = nextId
           \/ id = nextId /\ nextId' = nextId + 1
    PROVE  /\ RowsOK(db') /\ nextId' \in Nat \ {0} /\ id < nextId'
           /\ \A i \in Ids : nextId' <= i => db'[i] = NoSub /\ list[i] = NoSub
<1>1. RowsOK(db') /\ \A i \in Ids \ {id} : db'[i] = db[i]
    BY DEF RowsInv, RowsOK
<1>2. nextId' \in Nat \ {0} /\ nextId <= nextId' /\ id < nextId' /\ nextId \in Nat
      /\ \A i \in Ids : i \in Nat
    BY DEF RowsInv, Ids
<1>3. ASSUME NEW i \in Ids, nextId' <= i
      PROVE  db'[i] = NoSub /\ list[i] = NoSub
    <2>1. i # id /\ nextId <= i
        BY <1>2, <1>3
    <2> QED
        BY <1>1, <2>1 DEF RowsInv
<1> QED
    BY <1>1, <1>2, <1>3

\* A call at another instance.
LEMMA ElsewhereKeeps ==
    ASSUME SubsInv, Elsewhere, RowsOK(db'), nextId' \in Nat \ {0},
           \A i \in Ids : nextId' <= i => db'[i] = NoSub /\ list[i] = NoSub
    PROVE  SubsInv'
BY DEF SubsInv, Elsewhere, RowsInv, MapOK, MapMatchesList, JobOK

\* A call here: the copy changes at a row that is there or new.
LEMMA HereKeeps ==
    ASSUME SubsInv, RowsOK(db'), nextId' \in Nat \ {0}, NEW id \in Ids, id < nextId',
           \A i \in Ids : nextId' <= i => db'[i] = NoSub /\ list[i] = NoSub,
           NEW x, RowOK(x), list' = [list EXCEPT ![id] = x],
           NEW less, NEW m, Edit(less, m), MapOK(less), MapOK(m),
           \A t \in Triggers : Thinned(map[t], less[t]) /\ Extends(less[t], m[t]),
           forgot' \in BOOLEAN, stuck' \in BOOLEAN,
           ~forgot' /\ ~stuck' => Matching(m, list')
    PROVE  SubsInv'
<1>1. map' = m /\ JobOK'
    BY EditKeeps DEF SubsInv
<1>2. RowsOK(list') /\ \A i \in Ids \ {id} : list'[i] = list[i]
    BY DEF SubsInv, RowsInv, RowsOK
<1>3. ASSUME NEW i \in Ids, nextId' <= i
      PROVE  list'[i] = NoSub
    <2>1. id \in Nat /\ nextId' \in Nat /\ i \in Nat
        BY DEF Ids
    <2>2. i # id
        BY <1>3, <2>1
    <2> QED
        BY <1>2, <1>3, <2>2
<1> QED
    BY <1>1, <1>2, <1>3 DEF SubsInv, RowsInv, MapOK, MapMatchesList

LEMMA PostKeeps ==
    ASSUME SubsInv, NEW key \in Keys, NEW on, NEW here, doPostSCNSubscription(key, on, here)
    PROVE  SubsInv'
<1>1. PICK sub : sub = Sub(key, on)
    OBVIOUS
<1>2. key.url \in Urls /\ RowOK(sub) /\ sub.key = key /\ sub.on = on
    BY <1>1, SubIs DEF Urls
<1>3. nextId \in Ids /\ db' = [db EXCEPT ![nextId] = sub] /\ nextId' = nextId + 1
    BY <1>1, MaxSubsAssumption DEF doPostSCNSubscription, SubsInv, RowsInv, Ids
<1>4. /\ RowsOK(db') /\ nextId' \in Nat \ {0} /\ nextId < nextId'
      /\ \A i \in Ids : nextId' <= i => db'[i] = NoSub /\ list[i] = NoSub
    BY <1>2, <1>3, TableChanges DEF SubsInv
<1>5. CASE Elsewhere
    BY <1>4, <1>5, ElsewhereKeeps
<1>6. CASE /\ Handled /\ list' = [list EXCEPT ![nextId] = sub]
           /\ Edit(map, Added(map, sub)) /\ forgot' = forgot
    <2>1. MapOK(Added(map, sub)) /\ \A t \in Triggers : Extends(map[t], Added(map, sub)[t])
        BY <1>2, AddedIs DEF SubsInv
    <2>2. \A t \in Triggers : Thinned(map[t], map[t])
        BY ExtendsItself DEF SubsInv, MapOK
    <2>3. ~forgot' /\ ~stuck' => Matching(Added(map, sub), list')
        <3> SUFFICES ASSUME ~forgot', ~stuck'
                     PROVE  Matching(Added(map, sub), list')
            OBVIOUS
        <3>1. Matching(map, list)
            BY <1>6 DEF Handled, SubsInv, MapMatchesList
        <3>2. list[nextId].on = {}
            BY <1>3, NoSubIs DEF SubsInv, RowsInv
        <3>3. list'[nextId] = sub /\ \A i \in Ids \ {nextId} : list'[i] = list[i]
            BY <1>3, <1>6 DEF SubsInv, RowsInv, RowsOK
        <3> QED
            BY <1>2, <1>3, <3>1, <3>2, <3>3, PutOnMatches DEF SubsInv
    <2>4. forgot' \in BOOLEAN /\ stuck' \in BOOLEAN
        BY <1>6 DEF Handled, SubsInv, RowsInv
    <2>5. MapOK(map)
        BY DEF SubsInv
    <2> QED
        BY <1>2, <1>3, <1>4, <1>6, <2>1, <2>2, <2>3, <2>4, <2>5, HereKeeps
<1> QED
    BY <1>1, <1>5, <1>6 DEF doPostSCNSubscription

\* What a PUT and a PATCH that replaces do to the lists.
LEMMA ReplaceMatches ==
    ASSUME MapOK(map), RowsOK(list), NEW id \in Ids, list[id] # NoSub,
           NEW new, new.key.url \in Urls
    PROVE  LET less == Removed(map, list[id])
               m    == Added(less, new)
           IN  /\ MapOK(less) /\ MapOK(m)
               /\ \A t \in Triggers : Thinned(map[t], less[t]) /\ Extends(less[t], m[t])
               /\ Matching(map, list) => Matching(m, [list EXCEPT ![id] = new])
<1>1. PICK less : less = Removed(map, list[id])
    OBVIOUS
<1>2. MapOK(less) /\ \A t \in Triggers : Thinned(map[t], less[t])
    BY <1>1, RemovedIs
<1>3. MapOK(Added(less, new)) /\ \A t \in Triggers : Extends(less[t], Added(less, new)[t])
    BY <1>2, AddedIs
<1>4. ASSUME Matching(map, list), NEW h, h = [list EXCEPT ![id] = new]
      PROVE  Matching(Added(less, new), h)
    <2>1. PICK f : f = [list EXCEPT ![id] = NoSub]
        OBVIOUS
    <2>2. f[id].on = {} /\ \A i \in Ids \ {id} : f[i] = list[i]
        BY <2>1, NoSubIs DEF RowsOK
    <2>3. h[id] = new /\ \A i \in Ids \ {id} : h[i] = f[i]
        BY <1>4, <2>2 DEF RowsOK
    <2>4. Matching(less, f)
        BY <1>1, <1>4, <2>2, TakeOffMatches
    <2> QED
        BY <1>2, <2>2, <2>3, <2>4, PutOnMatches
<1> QED
    BY <1>1, <1>2, <1>3, <1>4

LEMMA PutKeeps ==
    ASSUME SubsInv, NEW id \in Ids, NEW key \in Keys, NEW on, NEW here,
           doPutSCNSubscription(id, key, on, here)
    PROVE  SubsInv'
<1>1. PICK new : new = Sub(key, on)
    OBVIOUS
<1>2. key.url \in Urls /\ RowOK(new) /\ new.key = key /\ new.on = on
    BY <1>1, SubIs DEF Urls
<1>3. db[id] # NoSub /\ db' = [db EXCEPT ![id] = new] /\ nextId' = nextId
    BY <1>1 DEF doPutSCNSubscription
<1>4. /\ RowsOK(db') /\ nextId' \in Nat \ {0} /\ id < nextId'
      /\ \A i \in Ids : nextId' <= i => db'[i] = NoSub /\ list[i] = NoSub
    BY <1>2, <1>3, TableChanges DEF SubsInv
<1>5. CASE Elsewhere
    BY <1>4, <1>5, ElsewhereKeeps
<1>6. CASE Handled /\ UNCHANGED <<list, map, forgot, job>>
    BY <1>4, <1>6, ElsewhereKeeps DEF Handled, Elsewhere
<1> DEFINE less == Removed(map, list[id])
           on2  == (list[id].on \cap RoleTriggers) \cup (on \cap StateTriggers)
           kept == [list[id] EXCEPT !.on = on2]
<1>7. CASE /\ Handled /\ list[id] # NoSub
           /\ list' = [list EXCEPT ![id] = kept]
           /\ Edit(less, Added(less, new))
           /\ forgot' = (forgot \/ kept # new)
    <2> HIDE DEF on2
    <2>1. RowOK(kept)
        BY <1>7, OnChanges DEF SubsInv, RowsInv, RowsOK
    <2> HIDE DEF kept
    <2>2. /\ MapOK(less) /\ MapOK(Added(less, new))
          /\ \A t \in Triggers : Thinned(map[t], less[t]) /\ Extends(less[t], Added(less, new)[t])
          /\ Matching(map, list) => Matching(Added(less, new), [list EXCEPT ![id] = new])
        BY <1>2, <1>7, ReplaceMatches DEF SubsInv, RowsInv
    <2> HIDE DEF less
    <2>3. ~forgot' /\ ~stuck' => Matching(Added(less, new), list')
        BY <1>7, <2>2 DEF Handled, SubsInv, RowsInv, MapMatchesList
    <2>4. forgot' \in BOOLEAN /\ stuck' \in BOOLEAN
        BY <1>7 DEF Handled, SubsInv, RowsInv
    <2> QED
        BY <1>4, <1>7, <2>1, <2>2, <2>3, <2>4, HereKeeps
<1> QED
    BY <1>1, <1>5, <1>6, <1>7 DEF doPutSCNSubscription

\* What a PATCH does to the lists is what it does to the copy.
LEMMA PatchAddMatches ==
    ASSUME NEW l, MapOK(l), NEW f, RowsOK(f), NEW id \in Ids, f[id].key.url \in Urls, NEW on,
           NEW sub, sub.key = f[id].key, sub.on = on \ f[id].on,
           NEW h, \A i \in Ids \ {id} : h[i] = f[i],
           h[id].key = f[id].key, h[id].on = f[id].on \cup on
    PROVE  /\ MapOK(Added(l, sub))
           /\ \A t \in Triggers : Thinned(l[t], l[t]) /\ Extends(l[t], Added(l, sub)[t])
           /\ Matching(l, f) => Matching(Added(l, sub), h)
<1>1. MapOK(Added(l, sub)) /\ \A t \in Triggers : Extends(l[t], Added(l, sub)[t])
    BY AddedIs
<1>2. \A t \in Triggers : Thinned(l[t], l[t])
    BY ExtendsItself DEF MapOK
<1>3. sub.on \cap f[id].on = {} /\ h[id].on = f[id].on \cup sub.on
    OBVIOUS
<1>4. f[id].key.url = sub.key.url /\ h[id].key.url = sub.key.url /\ sub.key.url \in Urls
    OBVIOUS
<1>5. ASSUME Matching(l, f)
      PROVE  Matching(Added(l, sub), h)
    BY <1>3, <1>4, <1>5, PutOnMatches
<1> QED
    BY <1>1, <1>2, <1>5

LEMMA PatchRemoveMatches ==
    ASSUME NEW l, MapOK(l), NEW f, RowsOK(f), NEW id \in Ids, NEW on,
           NEW sub, sub.key = f[id].key, sub.on = on \cap f[id].on,
           NEW h, \A i \in Ids \ {id} : h[i] = f[i],
           h[id].key = f[id].key, h[id].on = f[id].on \ on
    PROVE  /\ MapOK(Removed(l, sub))
           /\ \A t \in Triggers : /\ Thinned(l[t], Removed(l, sub)[t])
                                  /\ Extends(Removed(l, sub)[t], Removed(l, sub)[t])
           /\ Matching(l, f) => Matching(Removed(l, sub), h)
<1>1. MapOK(Removed(l, sub)) /\ \A t \in Triggers : Thinned(l[t], Removed(l, sub)[t])
    BY RemovedIs
<1>2. \A t \in Triggers : Extends(Removed(l, sub)[t], Removed(l, sub)[t])
    BY <1>1, ExtendsItself DEF MapOK
<1>3. sub.on \subseteq f[id].on /\ h[id].on = f[id].on \ sub.on
    OBVIOUS
<1>4. f[id].key.url = sub.key.url /\ h[id].key.url = sub.key.url
    OBVIOUS
<1>5. ASSUME Matching(l, f)
      PROVE  Matching(Removed(l, sub), h)
    BY <1>3, <1>4, <1>5, TakeOffMatches
<1> QED
    BY <1>1, <1>2, <1>5

LEMMA PatchMatches ==
    ASSUME MapOK(map), RowsOK(list), NEW id \in Ids, list[id] # NoSub, NEW on,
           NEW op \in {"add", "remove", "replace"},
           NEW new, new = Sub(list[id].key, Patched(op, list[id].on, on))
    PROVE  LET less == TakenOff(op, list[id], on)
               m    == PutOn(op, less, list[id], on)
           IN  /\ MapOK(less) /\ MapOK(m)
               /\ \A t \in Triggers : Thinned(map[t], less[t]) /\ Extends(less[t], m[t])
               /\ Matching(map, list) => Matching(m, [list EXCEPT ![id] = new])
<1> DEFINE less == TakenOff(op, list[id], on)
           m    == PutOn(op, less, list[id], on)
<1>1. list[id].key.url \in Urls
    BY OnChanges DEF RowsOK
<1>2. new.key = list[id].key /\ new.on = Patched(op, list[id].on, on)
    BY SubIs
<1>3. PICK h : h = [list EXCEPT ![id] = new]
    OBVIOUS
<1>4. h[id] = new /\ \A i \in Ids \ {id} : h[i] = list[i]
    BY <1>3 DEF RowsOK
<1>5. CASE op = "add"
    <2>1. PICK sub : sub = Sub(list[id].key, on \ list[id].on)
        OBVIOUS
    <2>2. sub.key = list[id].key /\ sub.on = on \ list[id].on
        BY <2>1, SubIs
    <2>3. less = map /\ m = Added(map, sub) /\ new.on = list[id].on \cup on
        BY <1>2, <1>5, <2>1 DEF TakenOff, PutOn, Patched
    <2>4. /\ MapOK(Added(map, sub))
          /\ \A t \in Triggers : Thinned(map[t], map[t]) /\ Extends(map[t], Added(map, sub)[t])
          /\ Matching(map, list) => Matching(Added(map, sub), h)
        <3>1. h[id].key = list[id].key /\ h[id].on = list[id].on \cup on
            BY <1>2, <1>4, <2>3
        <3> QED
            BY <1>1, <1>4, <2>2, <3>1, PatchAddMatches
    <2> QED
        BY <1>3, <2>3, <2>4
<1>6. CASE op = "remove"
    <2>1. PICK sub : sub = Sub(list[id].key, on \cap list[id].on)
        OBVIOUS
    <2>2. sub.key = list[id].key /\ sub.on = on \cap list[id].on
        BY <2>1, SubIs
    <2>3. less = Removed(map, sub) /\ m = Removed(map, sub) /\ new.on = list[id].on \ on
        BY <1>2, <1>6, <2>1 DEF TakenOff, PutOn, Patched
    <2>4. /\ MapOK(Removed(map, sub))
          /\ \A t \in Triggers : /\ Thinned(map[t], Removed(map, sub)[t])
                                 /\ Extends(Removed(map, sub)[t], Removed(map, sub)[t])
          /\ Matching(map, list) => Matching(Removed(map, sub), h)
        BY <1>2, <1>4, <2>2, <2>3, PatchRemoveMatches
    <2> QED
        BY <1>3, <2>3, <2>4
<1>7. CASE op = "replace"
    <2>1. less = Removed(map, list[id]) /\ m = Added(Removed(map, list[id]), new)
        BY <1>7 DEF TakenOff, PutOn, Patched
    <2>2. new.key.url \in Urls
        BY <1>1, <1>2
    <2> HIDE DEF less, m
    <2>3. PICK l : l = Removed(map, list[id])
        OBVIOUS
    <2>4. /\ MapOK(l) /\ MapOK(Added(l, new))
          /\ \A t \in Triggers : Thinned(map[t], l[t]) /\ Extends(l[t], Added(l, new)[t])
          /\ Matching(map, list) => Matching(Added(l, new), [list EXCEPT ![id] = new])
        BY <2>2, <2>3, ReplaceMatches
    <2> QED
        BY <2>1, <2>3, <2>4 DEF less, m
<1> QED
    BY <1>5, <1>6, <1>7

LEMMA PatchKeeps ==
    ASSUME SubsInv, NEW id \in Ids, NEW op \in {"add", "remove", "replace"}, NEW on,
           NEW twice, NEW here, doPatchSCNSubscription(id, op, on, twice, here)
    PROVE  SubsInv'
<1>1. PICK row : row = Sub(db[id].key, Patched(op, db[id].on, on))
    OBVIOUS
<1>2. db[id] # NoSub /\ nextId' = nextId /\ db' = [db EXCEPT ![id].on = Patched(op, db[id].on, on)]
    BY DEF doPatchSCNSubscription
<1>3. RowOK(row) /\ db' = [db EXCEPT ![id] = row]
    <2>1. PICK on2 : on2 = Patched(op, db[id].on, on)
        OBVIOUS
    <2>2. PICK old : old = db[id]
        OBVIOUS
    <2>3. [old EXCEPT !.on = on2] = Sub(old.key, on2) /\ RowOK(Sub(old.key, on2))
        BY <1>2, <2>2, OnChanges DEF SubsInv, RowsInv, RowsOK
    <2>4. db' = [db EXCEPT ![id] = [old EXCEPT !.on = on2]]
        BY <1>2, <2>1, <2>2
    <2> QED
        BY <1>1, <2>1, <2>2, <2>3, <2>4
<1>4. /\ RowsOK(db') /\ nextId' \in Nat \ {0} /\ id < nextId'
      /\ \A i \in Ids : nextId' <= i => db'[i] = NoSub /\ list[i] = NoSub
    BY <1>2, <1>3, TableChanges DEF SubsInv
<1>5. CASE Elsewhere
    BY <1>4, <1>5, ElsewhereKeeps
<1>6. CASE list[id] # NoSub /\ list' = [list EXCEPT ![id].on = list[id].on \ on]
           /\ stuck' = TRUE /\ UNCHANGED <<map, forgot, job>>
    <2>0. PICK on2 : on2 = list[id].on \ on
        OBVIOUS
    <2>1. PICK new : new = Sub(list[id].key, on2)
        OBVIOUS
    <2>2. RowOK(new) /\ list' = [list EXCEPT ![id] = new]
        <3>1. PICK old : old = list[id]
            OBVIOUS
        <3>2. [old EXCEPT !.on = on2] = Sub(old.key, on2) /\ RowOK(Sub(old.key, on2))
            BY <1>6, <3>1, OnChanges DEF SubsInv, RowsInv, RowsOK
        <3>3. list' = [list EXCEPT ![id] = [old EXCEPT !.on = on2]]
            BY <1>6, <2>0, <3>1
        <3> QED
            BY <2>1, <3>1, <3>2, <3>3
    <2>3. RowsOK(list') /\ \A i \in Ids \ {id} : list'[i] = list[i]
        BY <2>2 DEF SubsInv, RowsInv, RowsOK
    <2>4. ASSUME NEW i \in Ids, nextId' <= i
          PROVE  list'[i] = NoSub
        <3>1. id \in Nat /\ nextId' \in Nat /\ i \in Nat
            BY <1>4 DEF Ids
        <3>2. i # id
            BY <1>4, <2>4, <3>1
        <3> QED
            BY <1>4, <2>3, <2>4, <3>2
    <2> QED
        BY <1>4, <1>6, <2>3, <2>4 DEF SubsInv, RowsInv, MapOK, MapMatchesList, JobOK
<1>7. CASE /\ list[id] # NoSub /\ ~stuck /\ UNCHANGED <<forgot, stuck>>
           /\ list' = [list EXCEPT ![id].on = Patched(op, list[id].on, on)]
           /\ Edit(TakenOff(op, list[id], on), PutOn(op, TakenOff(op, list[id], on), list[id], on))
    <2>1. PICK less : less = TakenOff(op, list[id], on)
        OBVIOUS
    <2>2. PICK m : m = PutOn(op, less, list[id], on)
        OBVIOUS
    <2>3. PICK new : new = Sub(list[id].key, Patched(op, list[id].on, on))
        OBVIOUS
    <2>4. RowOK(new) /\ list' = [list EXCEPT ![id] = new] /\ Edit(less, m)
        <3>1. PICK on2 : on2 = Patched(op, list[id].on, on)
            OBVIOUS
        <3>2. PICK old : old = list[id]
            OBVIOUS
        <3>3. [old EXCEPT !.on = on2] = Sub(old.key, on2) /\ RowOK(Sub(old.key, on2))
            BY <1>7, <3>2, OnChanges DEF SubsInv, RowsInv, RowsOK
        <3>4. list' = [list EXCEPT ![id] = [old EXCEPT !.on = on2]]
            BY <1>7, <3>1, <3>2
        <3> QED
            BY <1>7, <2>1, <2>2, <2>3, <3>1, <3>2, <3>3, <3>4
    <2>5. /\ MapOK(less) /\ MapOK(m)
          /\ \A t \in Triggers : Thinned(map[t], less[t]) /\ Extends(less[t], m[t])
          /\ Matching(map, list) => Matching(m, [list EXCEPT ![id] = new])
        BY <1>7, <2>1, <2>2, <2>3, PatchMatches DEF SubsInv, RowsInv
    <2>6. ~forgot' /\ ~stuck' => Matching(m, list')
        BY <1>7, <2>4, <2>5 DEF SubsInv, MapMatchesList
    <2>7. forgot' \in BOOLEAN /\ stuck' \in BOOLEAN
        BY <1>7 DEF SubsInv, RowsInv
    <2> QED
        BY <1>4, <2>4, <2>5, <2>6, <2>7, HereKeeps
<1>8. CASE UNCHANGED <<list, map, forgot, stuck, job>>
    BY <1>4, <1>8, ElsewhereKeeps DEF Elsewhere
<1> QED
    BY <1>5, <1>6, <1>7, <1>8 DEF doPatchSCNSubscription

LEMMA DeleteKeeps ==
    ASSUME SubsInv, NEW id \in Ids, NEW here, doDeleteSCNSubscription(id, here)
    PROVE  SubsInv'
<1>1. db[id] # NoSub /\ nextId' = nextId /\ db' = [db EXCEPT ![id] = NoSub]
    BY DEF doDeleteSCNSubscription
<1>2. PICK none : none = NoSub
    OBVIOUS
<1>3. RowOK(none) /\ none.on = {}
    BY <1>2, NoSubIs
<1>4. /\ RowsOK(db') /\ nextId' \in Nat \ {0} /\ id < nextId'
      /\ \A i \in Ids : nextId' <= i => db'[i] = NoSub /\ list[i] = NoSub
    BY <1>1, <1>2, <1>3, TableChanges DEF SubsInv
<1>5. CASE UNCHANGED <<list, map, forgot, stuck, job>>
    BY <1>4, <1>5, ElsewhereKeeps DEF Elsewhere
<1>6. CASE /\ Handled /\ forgot' = forgot /\ list' = [list EXCEPT ![id] = none]
           /\ Edit(Removed(map, list[id]), Removed(map, list[id]))
    <2>1. PICK less : less = Removed(map, list[id])
        OBVIOUS
    <2>2. MapOK(less) /\ \A t \in Triggers : Thinned(map[t], less[t])
        BY <2>1, RemovedIs DEF SubsInv
    <2>3. \A t \in Triggers : Extends(less[t], less[t])
        BY <2>2, ExtendsItself DEF MapOK
    <2>4. list'[id] = none /\ \A i \in Ids \ {id} : list'[i] = list[i]
        BY <1>6 DEF SubsInv, RowsInv, RowsOK
    <2>5. ~forgot' /\ ~stuck' => Matching(less, list')
        <3> SUFFICES ASSUME ~forgot', ~stuck'
                     PROVE  Matching(less, list')
            OBVIOUS
        <3>1. MapOK(map) /\ Matching(map, list)
            BY <1>6 DEF Handled, SubsInv, MapMatchesList
        <3>2. list'[id].on = list[id].on \ list[id].on /\ list'[id].on = {}
            BY <1>3, <2>4
        <3> QED
            BY <2>1, <2>4, <3>1, <3>2, TakeOffMatches
    <2>6. forgot' \in BOOLEAN /\ stuck' \in BOOLEAN
        BY <1>6 DEF Handled, SubsInv, RowsInv
    <2>7. Edit(less, less)
        BY <1>6, <2>1
    <2> QED
        BY <1>3, <1>4, <1>6, <2>2, <2>3, <2>5, <2>6, <2>7, HereKeeps
<1> QED
    BY <1>2, <1>5, <1>6 DEF doDeleteSCNSubscription, Elsewhere, Handled

\* The copy and the lists are made anew.
LEMMA AnewKeeps ==
    ASSUME SubsInv, RowsOK(db'), nextId' = nextId, stuck' = stuck,
           \A id \in Ids : nextId <= id => db'[id] = NoSub,
           NEW l, RowsOK(l), \A id \in Ids : nextId <= id => l[id] = NoSub,
           NEW m, MapOK(m), Matching(m, l), Renew(l, m)
    PROVE  SubsInv'
<1>1. list' = l /\ map' = m /\ forgot' = FALSE /\ JobOK'
    BY RenewKeeps DEF SubsInv
<1> QED
    BY <1>1 DEF SubsInv, RowsInv, MapOK, MapMatchesList

LEMMA NoRowsIs ==
    ASSUME NEW f, f = [id \in Ids |-> NoSub]
    PROVE  /\ RowsOK(f) /\ \A id \in Ids : f[id] = NoSub
           /\ MapOK(EmptyMap) /\ Matching(EmptyMap, f)
BY EmptyIs, NoSubIs DEF RowsOK

LEMMA DeleteAllKeeps ==
    ASSUME SubsInv, NEW here, doDeleteSCNSubscriptionsAll(here)
    PROVE  SubsInv'
<1>1. PICK f : f = [id \in Ids |-> NoSub]
    OBVIOUS
<1>2. /\ RowsOK(f) /\ \A id \in Ids : f[id] = NoSub
      /\ MapOK(EmptyMap) /\ Matching(EmptyMap, f)
    BY <1>1, NoRowsIs
<1>3. db' = f /\ nextId' = nextId
    BY <1>1 DEF doDeleteSCNSubscriptionsAll
<1>4. CASE Elsewhere
    BY <1>2, <1>3, <1>4, ElsewhereKeeps DEF SubsInv, RowsInv
<1>5. CASE Handled /\ Renew(f, EmptyMap)
    BY <1>2, <1>3, <1>5, AnewKeeps DEF Handled
<1> QED
    BY <1>1, <1>4, <1>5 DEF doDeleteSCNSubscriptionsAll

LEMMA RefreshKeeps ==
    ASSUME SubsInv, SCNSubscriptionRefresh
    PROVE  SubsInv'
<1>1. PICK order \in SetToSeqs(Listed(db)) : Renew(db, Built(db, order))
    BY DEF SCNSubscriptionRefresh
<1>2. PICK m : m = Built(db, order)
    OBVIOUS
<1>3. MapOK(m) /\ Matching(m, db)
    BY <1>2, BuiltMatches DEF SubsInv, RowsInv
<1>4. /\ RowsOK(db) /\ \A id \in Ids : nextId <= id => db[id] = NoSub
      /\ Renew(db, m) /\ db' = db /\ nextId' = nextId /\ stuck' = stuck
    BY <1>1, <1>2 DEF SCNSubscriptionRefresh, Handled, SubsInv, RowsInv
<1> QED
    BY <1>3, <1>4, AnewKeeps

LEMMA RestartKeeps ==
    ASSUME SubsInv, Restart
    PROVE  SubsInv'
<1>1. PICK f : f = [id \in Ids |-> NoSub]
    OBVIOUS
<1>2. PICK j : j = NoJob
    OBVIOUS
<1>3. /\ RowsOK(f) /\ \A id \in Ids : f[id] = NoSub
      /\ MapOK(EmptyMap) /\ Matching(EmptyMap, f)
    BY <1>1, NoRowsIs
<1>4. /\ list' = f /\ map' = EmptyMap /\ forgot' = FALSE /\ stuck' = FALSE /\ job' = j
      /\ db' = db /\ nextId' = nextId
    BY <1>1, <1>2 DEF Restart
<1>5. IsJob(j) /\ Undisturbed(j, EmptyMap)
    BY <1>2, NoJobIs
<1> QED
    BY <1>3, <1>4, <1>5 DEF SubsInv, RowsInv, MapOK, MapMatchesList, JobOK

LEMMA InitSubsInv == Init => SubsInv
<1> SUFFICES ASSUME Init PROVE SubsInv
    OBVIOUS
<1>1. PICK f : f = [id \in Ids |-> NoSub]
    OBVIOUS
<1>2. /\ RowsOK(f) /\ \A id \in Ids : f[id] = NoSub
      /\ MapOK(EmptyMap) /\ Matching(EmptyMap, f)
    BY <1>1, NoRowsIs
<1>3. db = f /\ list = f /\ map = EmptyMap /\ nextId = 1 /\ forgot = FALSE /\ stuck = FALSE
    BY <1>1 DEF Init
<1>4. JobOK
    BY NoJobIs DEF Init, JobOK
<1> QED
    <2>1. RowsInv
        <3>1. \A id \in Ids : db[id] = NoSub /\ list[id] = NoSub
            BY <1>2, <1>3
        <3>2. RowsOK(db) /\ RowsOK(list)
            BY <1>2, <1>3
        <3>3. nextId \in Nat \ {0}
            BY <1>3
        <3>4. forgot \in BOOLEAN /\ stuck \in BOOLEAN
            BY <1>3
        <3> QED
            BY <3>1, <3>2, <3>3, <3>4 DEF RowsInv
    <2>2. MapOK(map) /\ MapMatchesList
        BY <1>2, <1>3 DEF MapMatchesList
    <2> QED
        BY <1>4, <2>1, <2>2 DEF SubsInv

LEMMA StepSubsInv == SubsInv /\ [Next]_vars => SubsInv'
<1> SUFFICES ASSUME SubsInv, [Next]_vars PROVE SubsInv'
    OBVIOUS
<1>1. CASE Call
    <2>1. PICK here \in BOOLEAN :
              \/ \E key \in Keys, on \in Requests :
                    \/ doPostSCNSubscription(key, on, here)
                    \/ \E id \in Ids : doPutSCNSubscription(id, key, on, here)
              \/ \E id \in Ids, on \in Requests, op \in {"add", "remove", "replace"}, twice \in Twice :
                    doPatchSCNSubscription(id, op, on, twice, here)
              \/ \E id \in Ids : doDeleteSCNSubscription(id, here)
              \/ doDeleteSCNSubscriptionsAll(here)
        BY <1>1 DEF Call
    <2>2. ASSUME NEW key \in Keys, NEW on \in Requests, doPostSCNSubscription(key, on, here)
          PROVE  SubsInv'
        BY <2>2, PostKeeps
    <2>3. ASSUME NEW key \in Keys, NEW on \in Requests, NEW id \in Ids,
                 doPutSCNSubscription(id, key, on, here)
          PROVE  SubsInv'
        BY <2>3, PutKeeps
    <2>4. ASSUME NEW id \in Ids, NEW on \in Requests, NEW op \in {"add", "remove", "replace"},
                 NEW twice \in Twice, doPatchSCNSubscription(id, op, on, twice, here)
          PROVE  SubsInv'
        BY <2>4, PatchKeeps
    <2>5. ASSUME NEW id \in Ids, doDeleteSCNSubscription(id, here)
          PROVE  SubsInv'
        BY <2>5, DeleteKeeps
    <2>6. CASE doDeleteSCNSubscriptionsAll(here)
        BY <2>6, DeleteAllKeeps
    <2> QED
        BY <2>1, <2>2, <2>3, <2>4, <2>5, <2>6
<1>2. CASE SCNSubscriptionRefresh
    BY <1>2, RefreshKeeps
<1>3. CASE Run
    <2>1. JobOK' /\ UNCHANGED <<db, nextId, list, map, forgot, stuck>>
        BY <1>3, RunKeeps DEF SubsInv
    <2> QED
        BY <2>1 DEF SubsInv, RowsInv, MapMatchesList
<1>4. CASE Restart
    BY <1>4, RestartKeeps
<1>5. CASE UNCHANGED vars
    BY <1>5 DEF vars, SubsInv, RowsInv, MapMatchesList, JobOK
<1> QED
    BY <1>1, <1>2, <1>3, <1>4, <1>5 DEF Next

-----------------------------------------------------------------------------
(* The theorems                                                            *)

LEMMA SubsInvHolds == Spec => []SubsInv
<1>1. SubsInv /\ [Next]_vars => SubsInv'
    BY StepSubsInv
<1> QED
    BY InitSubsInv, <1>1, PTL DEF Spec

\* scnSubMap is what scnSubs says: whatever sequence of calls, here or at other
\* instances, refreshes and restarts (smd-api.go, doPostSCNSubscription to
\* doDeleteSCNSubscriptionsAll; main.go, SCNSubscriptionRefresh), a URL is in the
\* list of a trigger exactly if a subscription of the copy has both, once, with the
\* number of those subscriptions as its count.  PUTs that leave the copy behind and
\* the handler that dies are excepted, as the property says.
THEOREM MapMatchesListHolds == Spec => []MapMatchesList
BY SubsInvHolds, PTL DEF SubsInv

\* A JobSCN reads its URLs without the lock while calls edit the lists in place
\* (job-types.go, JobSCN.Run): unless one of them takes a URL off its list, it tells
\* every URL that was there when it began, and each of them once.
THEOREM CalmJobTellsAllHolds == Spec => []CalmJobTellsAll
<1>1. SubsInv => CalmJobTellsAll
    <2> SUFFICES ASSUME JobOK, job.next > Len(job.view), job.calm
                 PROVE  /\ {job.told[k] : k \in DOMAIN job.told} = job.first
                        /\ Len(job.told) = Cardinality(job.first)
        BY DEF SubsInv, CalmJobTellsAll
    <2> DEFINE v == job.view
               n == Len(v)
    <2>1. Undisturbed(job, map)
        BY DEF JobOK
    <2>2. n \in Nat /\ job.next - 1 = n
        BY <2>1 DEF Undisturbed
    <2>3. PICK told : told = [k \in 1..n |-> v[k]]
        OBVIOUS
    <2>4. job.told = told /\ job.first = {v[k] : k \in 1..n}
        BY <2>1, <2>2, <2>3 DEF Undisturbed
    <2> HIDE DEF n
    <2>5. DOMAIN told = 1..n /\ \A k \in 1..n : told[k] = v[k] /\ v[k] \in job.first
        BY <2>3, <2>4
    <2>6. {told[k] : k \in DOMAIN told} = job.first
        BY <2>4, <2>5
    <2>7. Len(told) = n
        BY <2>2, <2>3, <2>5, FunctionIsSeq
    <2>8. told \in Bijection(1..n, job.first)
        <3>1. told \in [1..n -> job.first]
            BY <2>3, <2>5
        <3>2. \A i, k \in 1..n : told[i] = told[k] => i = k
            BY <2>1, <2>5 DEF Undisturbed, n
        <3>3. \A u \in job.first : \E k \in 1..n : told[k] = u
            BY <2>4, <2>5
        <3> QED
            BY <3>1, <3>2, <3>3 DEF Bijection, Injection, Surjection, IsInjective
    <2>9. Cardinality(job.first) = n
        BY <2>2, <2>8, FS_CountingElements DEF ExistsBijection
    <2> QED
        BY <2>4, <2>6, <2>7, <2>9
<1> QED
    BY SubsInvHolds, <1>1, PTL

-----------------------------------------------------------------------------
(* What remains of Converges without fairness                              *)

\* Copy and lists agree with the table, and nothing is known that would change that.
InSync == list = db /\ ~forgot /\ ~stuck

\* A call that leaves the table as it is leaves the copy as it is.
LEMMA PostNews ==
    ASSUME SubsInv, NEW key, NEW on \in Requests, NEW here,
           doPostSCNSubscription(key, on, here), db' = db
    PROVE  FALSE
<1>1. PICK sub : sub = Sub(key, on)
    OBVIOUS
<1>2. sub.on = on /\ on # {}
    <2>1. on # {}
        BY DEF Requests
    <2> QED
        BY <1>1, <2>1, SubIs
<1>3. nextId \in Ids /\ db' = [db EXCEPT ![nextId] = sub]
    BY <1>1, MaxSubsAssumption DEF doPostSCNSubscription, SubsInv, RowsInv, Ids
<1>4. db[nextId].on = {} /\ db'[nextId] = sub
    BY <1>3, NoSubIs DEF SubsInv, RowsInv, RowsOK
<1> QED
    BY <1>2, <1>4

LEMMA PutInSync ==
    ASSUME SubsInv, InSync, NEW id \in Ids, NEW key, NEW on \in Requests, NEW here,
           doPutSCNSubscription(id, key, on, here), db' = db
    PROVE  InSync'
<1>1. PICK row : row = db[id]
    OBVIOUS
<1>2. row = Sub(key, on) /\ row # NoSub
    BY <1>1 DEF doPutSCNSubscription, SubsInv, RowsInv, RowsOK
<1>3. row.on = on /\ on \subseteq StateTriggers \cup RoleTriggers
    BY <1>2, SubIs DEF Requests, Triggers
<1>4. CASE Elsewhere
    BY <1>4 DEF Elsewhere, InSync
<1>5. CASE UNCHANGED <<list, map, forgot, job>> /\ Handled
    BY <1>5 DEF Handled, InSync
<1> DEFINE on2  == (row.on \cap RoleTriggers) \cup (on \cap StateTriggers)
           kept == [row EXCEPT !.on = on2]
<1>6. CASE /\ Handled
           /\ list' = [list EXCEPT ![id] = kept]
           /\ forgot' = (forgot \/ kept # Sub(key, on))
    <2>1. on2 = on
        BY <1>3
    <2> HIDE DEF on2
    <2>2. row = [key |-> row.key, on |-> row.on]
        BY <1>2 DEF Sub
    <2>3. kept = row
        BY <1>3, <2>1, <2>2
    <2> HIDE DEF kept
    <2>4. list' = list
        BY <1>1, <1>6, <2>3 DEF InSync, SubsInv, RowsInv, RowsOK
    <2>5. ~forgot' /\ ~stuck'
        BY <1>2, <1>6, <2>3 DEF Handled, InSync
    <2> QED
        BY <2>4, <2>5 DEF InSync
<1>7. list[id] = row
    BY <1>1 DEF InSync
<1> QED
    BY <1>4, <1>5, <1>6, <1>7 DEF doPutSCNSubscription

LEMMA PatchInSync ==
    ASSUME SubsInv, InSync, NEW id \in Ids, NEW op, NEW on, NEW twice, NEW here,
           doPatchSCNSubscription(id, op, on, twice, here), db' = db
    PROVE  InSync'
<1>1. db = [db EXCEPT ![id].on = Patched(op, db[id].on, on)] /\ db[id] # NoSub
    BY DEF doPatchSCNSubscription
<1>2. db[id].on = Patched(op, db[id].on, on) /\ list[id] = db[id]
    <2>1. PICK row : row = db[id]
        OBVIOUS
    <2>2. PICK on2 : on2 = Patched(op, db[id].on, on)
        OBVIOUS
    <2>3. row = [row EXCEPT !.on = on2]
        BY <1>1, <2>1, <2>2 DEF SubsInv, RowsInv, RowsOK
    <2>4. row = Sub(row.key, row.on) /\ row # NoSub /\ RowOK(row)
        BY <1>1, <2>1 DEF SubsInv, RowsInv, RowsOK, RowOK
    <2>5. [row EXCEPT !.on = on2] = Sub(row.key, on2)
        BY <2>4, OnChanges
    <2>6. row.on = on2
        BY <2>3, <2>5, SubIs
    <2> QED
        BY <2>1, <2>2, <2>6 DEF InSync
<1>3. CASE UNCHANGED <<list, forgot, stuck>>
    BY <1>3 DEF InSync
<1>4. CASE list' = [list EXCEPT ![id].on = Patched(op, list[id].on, on)]
           /\ UNCHANGED <<forgot, stuck>>
    BY <1>1, <1>4 DEF InSync
<1>5. CASE op = "remove" /\ on \cap list[id].on # {}
    BY <1>2, <1>5 DEF Patched
<1> QED
    BY <1>3, <1>4, <1>5 DEF doPatchSCNSubscription, Elsewhere

LEMMA DeleteNews ==
    ASSUME SubsInv, NEW id \in Ids, NEW here, doDeleteSCNSubscription(id, here), db' = db
    PROVE  FALSE
<1>1. PICK none : none = NoSub
    OBVIOUS
<1>2. db' = [db EXCEPT ![id] = none] /\ db[id] # none
    BY <1>1 DEF doDeleteSCNSubscription
<1> QED
    BY <1>2 DEF SubsInv, RowsInv, RowsOK

LEMMA StepInSync ==
    ASSUME SubsInv, [Next]_vars, InSync, db' = db, ~Restart
    PROVE  InSync'
<1>1. ASSUME NEW here \in BOOLEAN, NEW key \in Keys, NEW on \in Requests,
             doPostSCNSubscription(key, on, here)
      PROVE  InSync'
    BY <1>1, PostNews
<1>2. ASSUME NEW here \in BOOLEAN, NEW key \in Keys, NEW on \in Requests, NEW id \in Ids,
             doPutSCNSubscription(id, key, on, here)
      PROVE  InSync'
    BY <1>2, PutInSync
<1>3. ASSUME NEW here \in BOOLEAN, NEW id \in Ids, NEW on \in Requests,
             NEW op \in {"add", "remove", "replace"}, NEW twice \in Twice,
             doPatchSCNSubscription(id, op, on, twice, here)
      PROVE  InSync'
    BY <1>3, PatchInSync
<1>4. ASSUME NEW here \in BOOLEAN, NEW id \in Ids, doDeleteSCNSubscription(id, here)
      PROVE  InSync'
    BY <1>4, DeleteNews
<1>5. ASSUME NEW here \in BOOLEAN, doDeleteSCNSubscriptionsAll(here)
      PROVE  InSync'
    BY <1>5 DEF doDeleteSCNSubscriptionsAll, Elsewhere, Handled, Renew, InSync
<1>6. CASE SCNSubscriptionRefresh
    BY <1>6 DEF SCNSubscriptionRefresh, Handled, Renew, InSync
<1>7. CASE Run
    BY <1>7, RunKeeps DEF SubsInv, InSync
<1>8. CASE UNCHANGED vars
    BY <1>8 DEF vars, InSync
<1> QED
    BY <1>1, <1>2, <1>3, <1>4, <1>5, <1>6, <1>7, <1>8 DEF Next, Call

\* After every refresh (main.go, SCNSubscriptionRefresh) copy and lists are those of the
\* table and no PUT is left behind, whatever calls at other instances have done to it before.
THEOREM RefreshSyncs == Spec => [][SCNSubscriptionRefresh => InSync' /\ Synced']_vars
<1>1. SubsInv /\ SCNSubscriptionRefresh => InSync' /\ Synced'
    <2> SUFFICES ASSUME SubsInv, SCNSubscriptionRefresh
                 PROVE  InSync' /\ Synced'
        OBVIOUS
    <2>1. PICK order \in SetToSeqs(Listed(db)) : Renew(db, Built(db, order))
        BY DEF SCNSubscriptionRefresh
    <2>2. PICK m : m = Built(db, order)
        OBVIOUS
    <2>3. Matching(m, db)
        BY <2>2, BuiltMatches DEF SubsInv, RowsInv
    <2>4. list' = db /\ map' = m /\ db' = db /\ ~forgot' /\ ~stuck'
        BY <2>1, <2>2 DEF Renew, SCNSubscriptionRefresh, Handled
    <2> QED
        BY <2>3, <2>4 DEF Synced, InSync
<1> QED
    BY SubsInvHolds, <1>1, PTL

\* And once they are, they stay so while nothing changes the table and the instance does
\* not restart: no call that changes nothing spoils the copy or the lists.
THEOREM SyncLasts == Spec => [][InSync /\ db' = db /\ ~Restart => InSync' /\ Synced']_vars
<1>1. SubsInv /\ SubsInv' /\ [Next]_vars => (InSync /\ db' = db /\ ~Restart => InSync' /\ Synced')
    <2>1. SubsInv' /\ InSync' => Synced'
        BY DEF SubsInv, MapMatchesList, InSync, Synced
    <2> QED
        BY <2>1, StepInSync
<1> QED
    BY SubsInvHolds, <1>1, PTL DEF Spec
=============================================================================
